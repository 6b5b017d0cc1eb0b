\* An object without a timeout: exit_cb may close a timer nobody initialised.
SPECIFICATION Spec
CONSTANTS
  Procs = {p1}
  Pids = {n1}
  NoPid = NoPid
  PipeSize = 0
INVARIANT ClosesInitialisedTimers
