------------------------------- MODULE MCTrees -------------------------------
(* Both trees of uv/tree.h for TLC: a behaviour uses one of them. *)
EXTENDS RedBlackTree, SplayTree

VARIABLE used   \* the tree this behaviour uses

MCInit == Init /\ SplayInit /\ used \in {"splay", "red-black"}

MCNext ==
  \/ used = "splay" /\ SplayNext /\ UNCHANGED <<used, vars>>
  \/ used = "red-black" /\ Next /\ UNCHANGED <<used, splayVars>>

MCSpec == MCInit /\ [][MCNext]_<<used, vars, splayVars>>

\* A view without the last call: no action reads it, and TLC compares every step, also
\* one to a state it has seen, with the steps of OrderedSet.
WithoutCall == <<used, root, child, ends, rest, splay, each, tree, job, iter>>
=============================================================================
