\* One start() with all its events: output, timeout, exit and kill; listeners that are
\* set late and listeners that throw.
SPECIFICATION Spec
CONSTANTS
  Procs = {p1}
  Puppies = {u1}
  Pids = {n1}
  NoPid = NoPid
  Nobody = Nobody
  Writers = {p1}
  Streams = {"stdout", "stderr"}
  Timeouts = {TRUE, FALSE}
  Killable = {u1}
  Late = {u1}
  Throws = TRUE
INVARIANTS
  TypeOK
PROPERTIES
  EventsReachOwner
