----------------------------- MODULE ExitReport -----------------------------
(***************************************************************************)
(* What a DoryProcessSpawn object promises the program that started it,    *)
(* without its callbacks, handles and statements: after a child that was   *)
(* started has died and its stderr has ended, its exit is reported, once.  *)
(* Nothing is promised for a start that failed, nor after the process that *)
(* runs the library is gone.                                               *)
(***************************************************************************)
CONSTANT Procs

VARIABLES
  phase,    \* "idle", "live", "dead", "failed", "reported"
  ended,    \* objects whose stderr ended or could not be read any further
  up        \* the process that runs the library lives

vars == <<phase, ended, up>>

Init ==
  /\ phase = [p \in Procs |-> "idle"]
  /\ ended = {}
  /\ up = TRUE

Become(p, to) == phase' = [phase EXCEPT ![p] = to]

Start(p) == phase[p] = "idle" /\ Become(p, "live") /\ UNCHANGED <<ended, up>>

\* The start turns out to have failed, perhaps with the child already running.
Fail(p) ==
  /\ phase[p] \in {"idle", "live", "dead"}
  /\ Become(p, "failed")
  /\ UNCHANGED <<ended, up>>

\* The child dies; its stderr ends with it unless somebody else holds it.
Die(p) ==
  /\ phase[p] = "live"
  /\ Become(p, "dead")
  /\ ended' \in {ended, ended \cup {p}}
  /\ UNCHANGED up

\* Stderr ends: closed by its last holder and read to the end, or broken.
End(p) ==
  /\ phase[p] # "idle"
  /\ ended' = ended \cup {p}
  /\ UNCHANGED <<phase, up>>

\* The exit is reported, at the latest by the callback that saw stderr end.
Report(p) ==
  /\ phase[p] = "dead"
  /\ Become(p, "reported")
  /\ ended' = ended \cup {p}
  /\ UNCHANGED up

Crash == up' = FALSE /\ UNCHANGED <<phase, ended>>

Next ==
  /\ up
  /\ \/ Crash
     \/ \E p \in Procs : Start(p) \/ Fail(p) \/ Die(p) \/ End(p) \/ Report(p)

Spec == Init /\ [][Next]_vars

\* A dead child whose stderr ended is reported.
Due(p) == phase[p] = "dead" /\ p \in ended
Answered(p) == phase[p] \in {"reported", "failed"} \/ ~up
EventuallyReported == \A p \in Procs : Due(p) ~> Answered(p)
=============================================================================
