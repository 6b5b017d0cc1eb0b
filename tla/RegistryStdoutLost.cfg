\* The stdout listener of the README is not called for all output.
SPECIFICATION Spec
CONSTANTS
  Procs = {p1}
  Puppies = {u1}
  Pids = {n1}
  NoPid = NoPid
  Nobody = Nobody
  Writers = {p1}
  Streams = {"stdout"}
  Timeouts = {FALSE}
  Killable = {}
  Late = {}
  Throws = FALSE
INVARIANTS
  StdoutListenerCalled
