\* Two objects and two pids: callbacks of one object between the statements of
\* the other, children reaped together, and pids that are used again after their
\* first owner was reaped.  No output is written (SpawnOne covers output).
SPECIFICATION Spec
CONSTANTS
  Procs = {p1, p2}
  Pids = {n1, n2}
  NoPid = NoPid
  PipeSize = 0
SYMMETRY Symmetry
INVARIANTS
  TimerKillOnTarget
  OnlyOwnChildKilled
