------------------------------ MODULE TreeNodes ------------------------------
(***************************************************************************)
(* What the two trees of uv/tree.h have in common: a node is its key, and  *)
(* its two links are told apart by their side.                             *)
(***************************************************************************)
EXTENDS Integers

CONSTANT Nil   \* NULL, no key

Sides == {"L", "R"}
Other(d) == IF d = "L" THEN "R" ELSE "L"
Side(e, n) == IF e < n THEN "L" ELSE "R"
=============================================================================
