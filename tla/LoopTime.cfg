\* One spawn() at any time of the loop: no timeout, a timeout longer than the lag of
\* the loop's time and a negative one; a busy loop, lost registrations, time up to MaxTime.
SPECIFICATION Spec
CONSTANTS
  Procs = {p1}
  Timeouts <- MCTimeouts
  Period = 2
  Busy = 1
  Width = 32
  MaxTime = 8
  None = None
INVARIANTS
  TypeOK
  FiresNotEarly
  FiresInTime
  NegativeNeverFires
  OutputSeenInTime
  ExitSeenInTime
