\* One object in depth: every interleaving of spawn() with the callbacks of its own
\* child, with up to two chunks of output in each pipe, under fairness.
SPECIFICATION FairSpec
CONSTANTS
  Procs = {p1}
  Pids = {n1}
  NoPid = NoPid
  PipeSize = 2
INVARIANTS
  TypeOK
  ExitComplete
  EventsCarryPid
  DeadlineEnforced
  AbortOnlyByRawTimer
PROPERTIES
  ExitIsLast
  ImplementsContract
  ExitReported
  TimeoutEndsChild
