\* Every sequence of operations on a red-black tree of at most eight nodes, the least
\* with a black node missing on two levels in turn, and on a splay tree of at most five.
SPECIFICATION MCSpec
CONSTANTS
  Keys = {1, 2, 3, 4, 5, 6, 7, 8}
  SplayKeys = {1, 2, 3, 4, 5}
  Nil = 0
  Hdr = Hdr
VIEW WithoutCall
INVARIANTS
  RedHasBlackParent
  SameBlackHeight
  NoNullFollowed
  SplayReachesGoal
PROPERTIES
  ImplementsOrderedSet
  SplayImplementsOrderedSet
