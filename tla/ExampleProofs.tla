--------------------------- MODULE ExampleProofs ---------------------------
(***************************************************************************)
(* Theorems about Example, for any number of children and of pids and any  *)
(* systems whose numbers have one sign and are apart.                      *)
(***************************************************************************)
EXTENDS Example, UvErrnoProofs

-----------------------------------------------------------------------------
(* The inductive invariant *)

Types ==
  /\ phase \in [Procs -> {"idle", "live", "dead", "failed", "reported"}]
  /\ pid \in [Procs -> Pids \cup {NoPid}]
  /\ i \in 1..(Limit + 1)
  /\ pc \in {"spawn", "enter", "read", "lock", "insert"}
  /\ pc # "spawn" => i \in Procs
  /\ list \in [Pids -> Procs \cup {0}]
  /\ cb = Idle \/ (cb.at \in {"lock", "erase"} /\ cb.proc \in Procs)
  /\ exited \subseteq Procs /\ reaped \subseteq Procs
  /\ overtaken \subseteq Procs /\ hasty \subseteq Procs

\* Main starts one child after the other; what was reported was reaped.
ChildInv(p) ==
  /\ phase[p] = "idle" <=> p > i \/ (p = i /\ pc = "spawn")
  /\ pid[p] = NoPid => phase[p] \in {"idle", "failed"}
  /\ phase[p] = "idle" => pid[p] = NoPid
  /\ p \in reaped => p \in exited
  /\ p \in exited => phase[p] \in {"dead", "failed", "reported"}
  /\ phase[p] = "reported" => p \in reaped
  /\ cb.proc = p => phase[p] = "reported"
  /\ p = i => phase[p] # "failed"

\* The mutex excludes main's insert and the loop's erase.
MutexInv ==
  /\ pc = "insert" <=> mutex = "main"
  /\ cb.at = "erase" <=> mutex = "loop"

\* A pid is handed out again after its owner was reaped, hastily if the owner's exit was
\* not handled yet.
ReuseInv ==
  \A p, q \in Procs :
    p < q /\ pid[p] = pid[q] /\ pid[q] # NoPid =>
      p \in reaped /\ (q \in hasty \/ ~ExitPending(p))

\* An entry belongs to a child that main is done with.
EntryInv ==
  \A n \in Pids : list[n] # 0 => list[n] < i /\ pid[list[n]] = n

\* A child whose exit was handled has no entry and will have none.
GoneInv(p) ==
  phase[p] = "reported" /\ cb.proc # p /\ p \notin overtaken =>
    p < i /\ list[pid[p]] # p

\* The last error is one of the system, and r its code.
ErrorInv == system \in Systems /\ (error # "none" => error \in Errors /\ r = Code(system, error))

IInv ==
  /\ Types
  /\ \A p \in Procs : ChildInv(p) /\ GoneInv(p)
  /\ MutexInv
  /\ ReuseInv
  /\ EntryInv
  /\ RunningIsListed
  /\ ErrorInv

-----------------------------------------------------------------------------
USE DEF contractVars, childVars, mainVars, listVars, historyVars, Idle,
        Contract!Become, Contract!Start, Contract!Fail, Contract!Die, Contract!Report,
        Contract!Crash

LEMMA ProcsFacts == Procs \subseteq Nat /\ 0 \notin Procs /\ Limit \in Nat /\ NoPid \notin Pids
  BY LimitAssumption, PidAssumption DEF Procs

LEMMA IInvInit == Init => IInv
<1> SUFFICES ASSUME Init
             PROVE  IInv
  OBVIOUS
<1>1. Types
  BY LimitAssumption DEF Init, Types, Contract!Init
<1>2. \A p \in Procs : ChildInv(p) /\ GoneInv(p)
  BY ProcsFacts DEF Init, ChildInv, GoneInv, Contract!Init, Procs
<1>3. MutexInv /\ EntryInv /\ ErrorInv
  BY DEF Init, MutexInv, EntryInv, ErrorInv
<1>4. ReuseInv /\ RunningIsListed
  BY DEF Init, ReuseInv, RunningIsListed, Contract!Init
<1>q. QED
  BY <1>1, <1>2, <1>3, <1>4 DEF IInv

LEMMA TypesStep ==
  ASSUME IInv, Next
  PROVE  Types'
<1> USE ProcsFacts DEF IInv, Types, Procs
<1>1. CASE Fork
  BY <1>1 DEF Fork, Free
<1>2. CASE SpawnFails
  BY <1>2 DEF SpawnFails
<1>3. CASE Lock
  BY <1>3 DEF Lock
<1>4. CASE Insert
  <2>1. pid[i] \in Pids
    BY <1>4 DEF Insert, ChildInv
  <2>q. QED
    BY <1>4, <2>1 DEF Insert
<1>5. CASE Sigchld
  BY <1>5 DEF Sigchld
<1>6. ASSUME NEW p \in Procs, Report(p)
      PROVE  Types'
  BY <1>6 DEF Report
<1>7. CASE EraseLock
  BY <1>7 DEF EraseLock
<1>8. CASE Erase
  <2>1. /\ cb.proc \in Procs /\ UNCHANGED <<phase, pid, exited, i, pc, reaped, hasty>>
        /\ cb' = Idle
        /\ list' = [list EXCEPT ![pid[cb.proc]] = 0]
        /\ overtaken' = overtaken \cup {cb.proc} \/ overtaken' = overtaken
    BY <1>8 DEF Erase
  <2>q. QED
    BY <2>1
<1>9. ASSUME NEW p \in Procs, ChildExits(p)
      PROVE  Types'
  BY <1>9 DEF ChildExits
<1>10. CASE Watchdog
  BY <1>10 DEF Watchdog
<1>11. CASE Aborted
  BY <1>11 DEF Aborted, vars
<1>12. CASE Enter \/ ReadStart
  BY <1>12 DEF Enter, ReadStart
<1>q. QED
  BY <1>1, <1>2, <1>3, <1>4, <1>5, <1>6, <1>7, <1>8, <1>9, <1>10, <1>11, <1>12
     DEF Next, MainStep, LoopStep

\* The order of the starts, and the states of each child.
LEMMA ChildStep ==
  ASSUME IInv, Types', Next, NEW p \in Procs
  PROVE  ChildInv(p)'
<1> USE ProcsFacts DEF IInv, Types, ChildInv, Procs
<1>1. CASE Fork
  BY <1>1 DEF Fork, Free
<1>2. CASE SpawnFails
  BY <1>2 DEF SpawnFails
<1>3. CASE Lock
  BY <1>3 DEF Lock
<1>4. CASE Insert
  BY <1>4 DEF Insert
<1>5. CASE Sigchld
  BY <1>5 DEF Sigchld
<1>6. ASSUME NEW q \in Procs, Report(q)
      PROVE  ChildInv(p)'
  BY <1>6 DEF Report
<1>7. CASE EraseLock
  BY <1>7 DEF EraseLock
<1>8. CASE Erase
  BY <1>8 DEF Erase
<1>9. ASSUME NEW q \in Procs, ChildExits(q)
      PROVE  ChildInv(p)'
  BY <1>9 DEF ChildExits
<1>10. CASE Enter \/ ReadStart
  BY <1>10 DEF Enter, ReadStart
<1>o. ASSUME UNCHANGED <<phase, pid, exited, i, pc, reaped, cb>>
      PROVE  ChildInv(p)'
  BY <1>o
<1>q. QED
  BY <1>1, <1>2, <1>3, <1>4, <1>5, <1>6, <1>7, <1>8, <1>9, <1>10, <1>o
     DEF Next, MainStep, LoopStep, Watchdog, Aborted, vars

\* Who holds the mutex.
LEMMA MutexStep ==
  ASSUME IInv, Types', Next
  PROVE  MutexInv'
<1> USE ProcsFacts DEF IInv, Types, MutexInv
<1>1. CASE Fork
  BY <1>1 DEF Fork
<1>2. CASE SpawnFails
  BY <1>2 DEF SpawnFails
<1>3. CASE Lock
  BY <1>3 DEF Lock
<1>4. CASE Insert
  BY <1>4 DEF Insert
<1>5. ASSUME NEW q \in Procs, Report(q)
      PROVE  MutexInv'
  BY <1>5 DEF Report
<1>6. CASE EraseLock
  BY <1>6 DEF EraseLock
<1>7. CASE Erase
  BY <1>7 DEF Erase
<1>8. CASE Enter \/ ReadStart
  BY <1>8 DEF Enter, ReadStart
<1>o. ASSUME UNCHANGED <<pc, mutex, cb>>
      PROVE  MutexInv'
  BY <1>o
<1>q. QED
  BY <1>1, <1>2, <1>3, <1>4, <1>5, <1>6, <1>7, <1>8, <1>o
     DEF Next, MainStep, LoopStep, Sigchld, ChildExits, Watchdog, Aborted, vars

\* Who had a pid before.
LEMMA ReuseStep ==
  ASSUME IInv, Types', Next
  PROVE  ReuseInv'
<1> USE ProcsFacts DEF IInv, Types, ChildInv, ReuseInv, ExitPending, Procs
<1>1. CASE Fork
  BY <1>1 DEF Fork, Free
<1>2. CASE SpawnFails
  BY <1>2 DEF SpawnFails
<1>3. CASE Sigchld
  BY <1>3 DEF Sigchld
<1>4. ASSUME NEW q \in Procs, Report(q)
      PROVE  ReuseInv'
  BY <1>4 DEF Report
<1>5. CASE EraseLock
  BY <1>5 DEF EraseLock
<1>6. CASE Erase
  BY <1>6 DEF Erase
<1>7. ASSUME NEW q \in Procs, ChildExits(q)
      PROVE  ReuseInv'
  BY <1>7 DEF ChildExits
<1>o. ASSUME UNCHANGED <<phase, pid, hasty, reaped, cb>>
      PROVE  ReuseInv'
  BY <1>o
<1>q. QED
  BY <1>1, <1>2, <1>3, <1>4, <1>5, <1>6, <1>7, <1>o DEF Next, MainStep, LoopStep, Enter,
     ReadStart, Lock, Insert, Watchdog, Aborted, vars

\* Whose entries there are.
LEMMA EntryStep ==
  ASSUME IInv, Types', Next
  PROVE  EntryInv'
<1> USE ProcsFacts DEF IInv, Types, ChildInv, EntryInv, Procs
<1>1. CASE Fork
  BY <1>1 DEF Fork
<1>2. CASE SpawnFails
  BY <1>2 DEF SpawnFails
<1>3. CASE Insert
  BY <1>3 DEF Insert
<1>4. CASE Erase
  BY <1>4 DEF Erase
<1>o. ASSUME UNCHANGED <<list, i, pid>>
      PROVE  EntryInv'
  BY <1>o
<1>q. QED
  BY <1>1, <1>2, <1>3, <1>4, <1>o DEF Next, MainStep, LoopStep, Enter, ReadStart, Lock, Sigchld,
     Report, EraseLock, ChildExits, Watchdog, Aborted, vars

\* What is gone stays away.
LEMMA GoneStep ==
  ASSUME IInv, Types', Next, NEW p \in Procs
  PROVE  GoneInv(p)'
<1> USE ProcsFacts DEF IInv, Types, ChildInv, GoneInv, EntryInv, MutexInv, Procs
<1>1. CASE Fork
  BY <1>1 DEF Fork
<1>2. CASE SpawnFails
  BY <1>2 DEF SpawnFails
<1>3. CASE Insert
  BY <1>3 DEF Insert
<1>4. ASSUME NEW q \in Procs, Report(q)
      PROVE  GoneInv(p)'
  BY <1>4 DEF Report
<1>5. CASE EraseLock
  BY <1>5 DEF EraseLock
<1>6. CASE Erase
  BY <1>6 DEF Erase
<1>7. ASSUME NEW q \in Procs, ChildExits(q)
      PROVE  GoneInv(p)'
  BY <1>7 DEF ChildExits
<1>o. ASSUME UNCHANGED <<phase, pid, i, cb, overtaken, list>>
      PROVE  GoneInv(p)'
  BY <1>o
<1>q. QED
  BY <1>1, <1>2, <1>3, <1>4, <1>5, <1>6, <1>7, <1>o DEF Next, MainStep, LoopStep, Enter,
     ReadStart, Lock, Sigchld, Watchdog, Aborted, vars

\* What runs stays listed.
LEMMA RunningStep ==
  ASSUME IInv, Types', Next
  PROVE  RunningIsListed'
<1> USE ProcsFacts DEF IInv, Types, ChildInv, RunningIsListed, ReuseInv, ExitPending, MutexInv, Procs
<1>1. CASE Fork
  BY <1>1 DEF Fork
<1>2. CASE SpawnFails
  BY <1>2 DEF SpawnFails
<1>3. CASE Insert
  BY <1>3 DEF Insert
<1>4. ASSUME NEW q \in Procs, Report(q)
      PROVE  RunningIsListed'
  BY <1>4 DEF Report
<1>5. CASE Erase
  BY <1>5 DEF Erase
<1>6. ASSUME NEW q \in Procs, ChildExits(q)
      PROVE  RunningIsListed'
  BY <1>6 DEF ChildExits
<1>o. ASSUME UNCHANGED <<phase, pid, i, hasty, list>>
      PROVE  RunningIsListed'
  BY <1>o
<1>q. QED
  BY <1>1, <1>2, <1>3, <1>4, <1>5, <1>6, <1>o DEF Next, MainStep, LoopStep, Enter, ReadStart,
     Lock, Sigchld, EraseLock, Watchdog, Aborted, vars

\* What is printed is an error of the system.
LEMMA ErrorStep ==
  ASSUME IInv, Types', Next
  PROVE  ErrorInv'
<1> USE ProcsFacts DEF IInv, Types, ErrorInv
<1>1. CASE Fork
  BY <1>1 DEF Fork
<1>2. CASE SpawnFails
  BY <1>2 DEF SpawnFails
<1>3. CASE ReadStart
  BY <1>3 DEF ReadStart
<1>o. ASSUME UNCHANGED <<system, error, r>>
      PROVE  ErrorInv'
  BY <1>o
<1>q. QED
  BY <1>1, <1>2, <1>3, <1>o DEF Next, MainStep, LoopStep, Enter, Lock, Insert, Sigchld, Report,
     EraseLock, Erase, ChildExits, Watchdog, Aborted, vars

LEMMA IInvStep == IInv /\ [Next]_vars => IInv'
<1>1. ASSUME IInv, Next
      PROVE  IInv'
  <2>1. Types'
    BY <1>1, TypesStep
  <2>2. \A p \in Procs : ChildInv(p)' /\ GoneInv(p)'
    BY <1>1, <2>1, ChildStep, GoneStep
  <2>3. MutexInv' /\ ReuseInv' /\ EntryInv' /\ RunningIsListed' /\ ErrorInv'
    BY <1>1, <2>1, MutexStep, ReuseStep, EntryStep, RunningStep, ErrorStep
  <2>q. QED
    BY <2>1, <2>2, <2>3 DEF IInv
<1>2. ASSUME IInv, UNCHANGED vars
      PROVE  IInv'
  BY <1>2 DEF vars, IInv, Types, ChildInv, GoneInv, MutexInv, ReuseInv, EntryInv, RunningIsListed,
     ErrorInv, ExitPending
<1>q. QED
  BY <1>1, <1>2

\* Everything above holds in every state of the program.
THEOREM Invariant == Spec => []IInv
  BY IInvInit, IInvStep, PTL DEF Spec

-----------------------------------------------------------------------------
(* What it says of the program *)

\* A child that runs is on the list.
THEOREM RunningIsListedHolds == Spec => []RunningIsListed
<1>1. IInv => RunningIsListed
  BY DEF IInv
<1>q. QED
  BY <1>1, Invariant, PTL

\* A child whose exit listener is through is off the list.
THEOREM NoStaleListingHolds == Spec => []NoStaleListing
<1>1. ASSUME IInv, NEW n \in Pids, list[n] # 0, phase[list[n]] = "reported"
      PROVE  cb.proc = list[n] \/ list[n] \in overtaken
  <2>1. list[n] \in Procs /\ pid[list[n]] = n
    BY <1>1 DEF IInv, Types, EntryInv
  <2>q. QED
    BY <1>1, <2>1 DEF IInv, GoneInv
<1>2. IInv => NoStaleListing
  BY <1>1 DEF NoStaleListing, Listed
<1>q. QED
  BY <1>2, Invariant, PTL

\* An error is printed by its own name, on every system of the assumption.
THEOREM ErrorIsNamedHolds == Spec => []ErrorIsNamed
<1>1. ASSUME IInv, error # "none"
      PROVE  r < 0 /\ NamesOf(system, r) = {error}
  <2>1. r = Code(system, error) /\ error \in Names /\ SameSign(system) /\ Apart(system)
    BY <1>1, ErrorAssumption, SystemsAssumption DEF IInv, ErrorInv
  <2>q. QED
    BY <2>1, CodeIsNegative, NameOfCode
<1>2. IInv => ErrorIsNamed
  BY <1>1 DEF ErrorIsNamed
<1>q. QED
  BY <1>2, Invariant, PTL
=============================================================================
