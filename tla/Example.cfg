\* Three children of example.cpp and two pids, under fairness.
SPECIFICATION FairSpec
CONSTANTS
  Limit = 3
  Pids = {1, 2}
  NoPid = 0
  Systems <- MCSystems
  Errors = {"ENOENT", "EAGAIN"}
INVARIANTS
  RunningIsListed
  NoStaleListing
  ErrorIsNamed
PROPERTIES
  CountSettles
