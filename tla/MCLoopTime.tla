------------------------------ MODULE MCLoopTime ------------------------------
(* An instance of LoopTime for TLC. *)
EXTENDS LoopTime

\* A timeout below zero, none, and one longer than the loop's time can lag.
MCTimeouts == {-1, 0, 4}
=============================================================================
