----------------------------- MODULE MCDoryPuppy -----------------------------
(* Instances of DoryPuppy for TLC. *)
EXTENDS DoryPuppy, TLC

\* Objects, DoryProcesses and pids are only ever compared.
Symmetry == Permutations(Procs) \cup Permutations(Puppies) \cup Permutations(Pids)
=============================================================================
