------------------------ MODULE MCDoryProcessSpawn ------------------------
(* Instances of DoryProcessSpawn for TLC. *)
EXTENDS DoryProcessSpawn, TLC

\* Objects and pids are only ever compared: permuting either changes nothing.
Symmetry == Permutations(Procs) \cup Permutations(Pids)
=============================================================================
