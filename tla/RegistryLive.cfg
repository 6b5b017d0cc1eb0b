\* Two starts that share one pid, with output and listeners that throw, under fairness;
\* no symmetry.
SPECIFICATION FairSpec
CONSTANTS
  Procs = {p1, p2}
  Puppies = {u1, u2}
  Pids = {n1}
  NoPid = NoPid
  Nobody = Nobody
  Writers = {p1}
  Streams = {"stdout"}
  Timeouts = {FALSE}
  Killable = {}
  Late = {}
  Throws = TRUE
INVARIANTS
  NoStaleEntries
PROPERTIES
  EventsReachOwner
  StartReturns
