\* A deadline that passes before uv_spawn returned is lost.
SPECIFICATION FairSpec
CONSTANTS
  Procs = {p1}
  Pids = {n1}
  NoPid = NoPid
  PipeSize = 0
PROPERTY TimeoutAlwaysEndsChild
