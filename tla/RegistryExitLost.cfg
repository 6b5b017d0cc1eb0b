\* The exit listener of the README is not always called.
SPECIFICATION Spec
CONSTANTS
  Procs = {p1}
  Puppies = {u1}
  Pids = {n1}
  NoPid = NoPid
  Nobody = Nobody
  Writers = {}
  Streams = {}
  Timeouts = {FALSE}
  Killable = {}
  Late = {}
  Throws = FALSE
INVARIANTS
  ExitListenerCalled
