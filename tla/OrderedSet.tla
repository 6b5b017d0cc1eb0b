----------------------------- MODULE OrderedSet -----------------------------
(***************************************************************************)
(* What the trees of tree.h are used for: a set of keys with an order.     *)
(* Each operation gives the answer that the set has at that moment; a walk *)
(* visits all keys in order, and the body of its loop may remove the key   *)
(* it is at.                                                               *)
(***************************************************************************)
EXTENDS Integers, FiniteSets

CONSTANTS
  Keys,   \* the keys, integers; a node of a tree is its key
  Nil     \* NULL, no key

VARIABLES
  set,    \* the keys in the tree
  walk,   \* direction of the walk under way, "none" without one
  todo,   \* the keys it has not visited
  call    \* the last call that returned, with its answer

vars == <<set, walk, todo, call>>

NoCall == [op |-> "none", arg |-> Nil, answer |-> Nil]

Init == set = {} /\ walk = "none" /\ todo = {} /\ call = NoCall

\* The first key of S on the way to the right or to the left.
First(S, d) ==
  IF S = {} THEN Nil
  ELSE CHOOSE x \in S : \A y \in S : IF d = "R" THEN x <= y ELSE x >= y

Returns(op, arg, answer) == call' = [op |-> op, arg |-> arg, answer |-> answer]

Insert(e) ==
  /\ Returns("insert", e, IF e \in set THEN e ELSE Nil)
  /\ walk = "none"
  /\ set' = set \cup {e}
  /\ UNCHANGED <<walk, todo>>

\* During a walk only the key that was visited last may be removed.
Remove(e) ==
  /\ Returns("remove", e, IF e \in set THEN e ELSE Nil)
  /\ walk # "none" => e \notin todo
  /\ set' = set \ {e}
  /\ UNCHANGED <<walk, todo>>

Find(e) ==
  /\ walk = "none"
  /\ \/ Returns("find", e, IF e \in set THEN e ELSE Nil)
     \/ Returns("nfind", e, First({x \in set : x >= e}, "R"))
     \/ e \in set /\ Returns("next", e, First({x \in set : x > e}, "R"))
     \/ e \in set /\ Returns("prev", e, First({x \in set : x < e}, "L"))
  /\ UNCHANGED <<set, walk, todo>>

MinMax(d) ==
  /\ walk = "none"
  /\ Returns(IF d = "R" THEN "min" ELSE "max", Nil, First(set, d))
  /\ UNCHANGED <<set, walk, todo>>

\* A walk goes to its next key, or finds that there is none.
Visit(d, left) ==
  /\ todo' = left \ {First(left, d)}
  /\ walk' = IF left = {} THEN "none" ELSE d
  /\ Returns("visit", Nil, First(left, d))
  /\ UNCHANGED set

\* From the end of the set, or from a key on.
Walk ==
  /\ walk = "none"
  /\ \E d \in {"L", "R"} :
       \/ Visit(d, set)
       \/ \E y \in set : Visit(d, {e \in set : IF d = "R" THEN e >= y ELSE e <= y})
Step == walk # "none" /\ Visit(walk, todo)

Next ==
  \/ \E e \in Keys : Insert(e) \/ Remove(e) \/ Find(e)
  \/ \E d \in {"L", "R"} : MinMax(d)
  \/ Walk
  \/ Step

Spec == Init /\ [][Next]_vars
=============================================================================
