\* Three starts of two DoryProcesses that share one pid: reuse of the pid, restart
\* of a DoryProcess, start() inside an exit listener.
SPECIFICATION Spec
CONSTANTS
  Procs = {p1, p2, p3}
  Puppies = {u1, u2}
  Pids = {n1}
  NoPid = NoPid
  Nobody = Nobody
  Writers = {}
  Streams = {}
  Timeouts = {FALSE}
  Killable = {u1, u2}
  Late = {}
  Throws = FALSE
SYMMETRY Symmetry
INVARIANTS
  LiveIsRegistered
  ExitReachesOwner
  ExitValueIsOwn
  FoundEntryStays
  NativeImpliesJava
  RunningIsAccurate
PROPERTIES
  CrashNeedsRace
  KillOnTarget
