-------------------------- MODULE DoryPuppyProofs --------------------------
(***************************************************************************)
(* Theorems about DoryPuppy, for every number of starts, DoryProcesses and *)
(* pids, with any listeners, timeouts and kills.                           *)
(***************************************************************************)
EXTENDS DoryPuppy, TLAPS

-----------------------------------------------------------------------------
(* The inductive invariant: the start, its child and its entries. *)

\* The exit of p is on its way to the listener and out of the lists.
Exiting(p) == cb.ev = "exit" /\ cb.proc = p

\* The child was started, and its exit was not handled to the end.
Open(p) == phase[p] \in {"live", "dead"} \/ Exiting(p)

\* The start that came this far.
Inserted(p) == pc[p] \in {"put", "assign", "started"}
Listed(p) == pc[p] \in {"assign", "started"}

\* How far the start is tells how far the child can be.
ChildInv(p) ==
  /\ pc[p] = "idle" <=> puppy[p] = Nobody
  /\ phase[p] = "idle" <=> pc[p] \in {"idle", "spawn"}
  /\ phase[p] = "failed" <=> pc[p] = "threw"
  /\ phase[p] = "idle" => pid[p] = NoPid
  /\ phase[p] \in {"live", "dead", "reported"} => pid[p] \in Pids
  /\ p \in reaped => phase[p] \in {"dead", "failed", "reported"}
  /\ phase[p] = "reported" => p \in reaped \cap ended
  /\ p \in armed => p \notin reaped /\ pc[p] # "idle"
  /\ p \in overtaken => phase[p] = "reported"
  /\ p \in hasty => pid[p] \in Pids
  /\ pc[p] = "started" => puppyPid[puppy[p]] # NoPid

\* What was reported is being handled, or was, perhaps too early for the start.
ReportedInv(p) ==
  /\ fate[p]["stdout"] = "pending" => phase[p] # "idle"
  /\ fate[p]["stderr"] = "pending" => phase[p] # "idle" /\ p \notin ended
  /\ fate[p]["exit"] # "none" => phase[p] = "reported"
  /\ phase[p] = "reported" =>
       /\ Exiting(p) \/ Listed(p) \/ p \in overtaken
       /\ fate[p]["exit"] # "none" \/ (Exiting(p) /\ cb.at \in {"call", "callback"})

\* What the loop thread carries through a callback.
CbInv ==
  LET p == cb.proc IN
  /\ cb # Idle => pc[p] # "idle"
  /\ cb # Idle /\ cb.ev # "exit" => cb.at \in {"call", "callback", "listener"}
  /\ cb.ev = "timeout" => p \notin reaped
  /\ cb.ev \in {"stdout", "stderr"} /\ cb.at # "listener" => fate[p][cb.ev] = "pending"
  /\ cb.ev = "exit" => phase[p] = "reported" /\ cb.pid = pid[p]
  /\ cb.ev = "exit" /\ cb.at # "call" => Listed(p) \/ p \in overtaken

\* uvMutex, and what kill() can have missed.
MutexInv ==
  /\ \A p, q \in Procs : pc[p] = "insert" /\ pc[q] = "insert" => p = q
  /\ \A p \in Procs : pc[p] = "insert" => mutex = "start"
  /\ cb.at = "erase" => mutex = "loop"
  /\ killer # NoKill /\ mutex # "free" => raced
  /\ killer.at = "send" /\ killer.pid \notin nativeList => raced

\* Two open objects have the same pid only if one was started too early.
HastyInv ==
  \A p, q \in Procs :
    Open(p) /\ Open(q) /\ pid[p] = pid[q] /\ p # q => p \in hasty \/ q \in hasty

\* An entry of the native list has a process behind it ...
NativeEntryInv ==
  \A n \in nativeList :
    \E p \in Procs : pid[p] = n /\ Inserted(p) /\ (Open(p) \/ p \in overtaken)

\* ... and in the Java list, too, until it is removed.
Present(p) == phase[p] \in {"live", "dead"} \/ (Exiting(p) /\ cb.at \notin {"lock", "erase"})
JavaEntryInv ==
  \A n \in Pids :
    javaList[n] # Nobody =>
      \E p \in Procs :
        /\ pid[p] = n /\ puppy[p] = javaList[n] /\ Listed(p)
        /\ Present(p) \/ p \in overtaken \/ pending

\* The other way round: a process that came so far is in the lists.
RegisteredInv(p) ==
  /\ Inserted(p) /\ Open(p) => pid[p] \in nativeList \/ Clash(p)
  /\ Listed(p) /\ Present(p) => Entry(pid[p]) = puppy[p] \/ Clash(p)

\* A native entry without one in the Java list is about to get one or to go.
BothInv ==
  \A n \in nativeList :
    javaList[n] = Nobody =>
      \/ \E p \in Procs : pid[p] = n /\ pc[p] = "put"
      \/ cb.at \in {"lock", "erase"} /\ cb.pid = n

\* What was stamped on a DoryProcess, and that it was.
AtCall(p) == Exiting(p) /\ cb.at = "call"
StampInv ==
  /\ \A u \in Puppies :
       LET p == exitOf[u] IN
         p # Nobody =>
           /\ phase[p] = "reported" /\ ~AtCall(p)
           /\ \E q \in Procs : pid[q] = pid[p] /\ puppy[q] = u /\ Listed(q)
  /\ \A p \in Procs :
       phase[p] = "reported" =>
         AtCall(p) \/ p \in overtaken \/ Clash(p) \/ pending \/ exitOf[puppy[p]] # Nobody

\* The pid of a DoryProcess, and of its kill(), is that of a start() of its own.
Own(p, u, n) == pc[p] = "started" /\ puppy[p] = u /\ pid[p] = n
KillInv ==
  /\ \A u \in Puppies : puppyPid[u] # NoPid => \E p \in Procs : Own(p, u, puppyPid[u])
  /\ killer # NoKill => \E p \in Procs : Own(p, killer.puppy, killer.pid)

IInv ==
  /\ TypeOK
  /\ \A p \in Procs : ChildInv(p) /\ ReportedInv(p) /\ RegisteredInv(p)
  /\ CbInv
  /\ MutexInv
  /\ HastyInv
  /\ NativeEntryInv
  /\ JavaEntryInv
  /\ BothInv
  /\ StampInv
  /\ KillInv
  /\ FoundEntryStays
  /\ ExitReachesOwner
  /\ ExitValueIsOwn

-----------------------------------------------------------------------------
USE DEF contractVars, childVars, startVars, listVars, puppyVars, loopVars, killVars,
        historyVars, Goto, Leave, LoopIdle, Calling, After, Hears, Overtakes,
        Contract!Become, Contract!Start, Contract!Fail, Contract!Die, Contract!End,
        Contract!Report, Contract!Crash

LEMMA TypeInit == Init => TypeOK
<1> SUFFICES ASSUME Init
             PROVE  TypeOK
  OBVIOUS
<1>1. up \in BOOLEAN /\ pending \in BOOLEAN /\ raced \in BOOLEAN
  BY Zenon DEF Init, Contract!Init
<1>q. QED
  BY <1>1 DEF Init, TypeOK, Contract!Init, Idle, NoKill, Steps, Events, Fates

\* Every step keeps every variable in its type.
LEMMA TypeStep == TypeOK /\ (\A p \in Procs : ChildInv(p)) /\ CbInv /\ [Next]_vars => TypeOK'
<1> SUFFICES ASSUME TypeOK, \A p \in Procs : ChildInv(p), CbInv, Next
             PROVE  TypeOK'
  BY DEF vars, TypeOK
<1> USE DistinctAssumption, StreamsAssumption, LateAssumption, KillableAssumption
    DEF TypeOK, Steps, Events, Fates, Idle, NoKill
<1>1. ASSUME NEW p \in Procs, NEW u \in Puppies, Begin(p, u)
      PROVE  TypeOK'
  BY <1>1 DEF Begin
<1>2. ASSUME NEW p \in Procs, UvSpawn(p)
      PROVE  TypeOK'
  BY <1>2 DEF UvSpawn, Free
<1>3. ASSUME NEW p \in Procs, SpawnFails(p)
      PROVE  TypeOK'
  BY <1>3 DEF SpawnFails
<1>r. ASSUME NEW p \in Procs, ReadStart(p)
      PROVE  TypeOK'
  BY <1>r DEF ReadStart
<1>4. ASSUME NEW p \in Procs, Lock(p)
      PROVE  TypeOK'
  BY <1>4 DEF Lock
<1>5. ASSUME NEW p \in Procs, Insert(p)
      PROVE  TypeOK'
  BY <1>5 DEF Insert, ChildInv
<1>6. ASSUME NEW p \in Procs, Put(p)
      PROVE  TypeOK'
  BY <1>6 DEF Put, ChildInv
<1>7. ASSUME NEW p \in Procs, Assign(p)
      PROVE  TypeOK'
  BY <1>7 DEF Assign, ChildInv
<1>8. ASSUME NEW p \in Procs, Write(p)
      PROVE  TypeOK'
  BY <1>8 DEF Write
<1>9. ASSUME NEW p \in Procs, DieOrEnd(p)
      PROVE  TypeOK'
  BY <1>9 DEF DieOrEnd
<1>10. ASSUME NEW p \in Procs, Reap(p)
      PROVE  TypeOK'
  BY <1>10 DEF Reap
<1>11. ASSUME NEW p \in Procs, Report(p)
      PROVE  TypeOK'
  BY <1>11 DEF Report
<1>12. ASSUME NEW p \in Procs, TimerCb(p)
      PROVE  TypeOK'
  BY <1>12 DEF TimerCb
<1>13. ASSUME NEW p \in Procs, NEW s \in Streams, Deliver(p, s)
      PROVE  TypeOK'
  BY <1>13 DEF Deliver
<1>14. CASE JniFound
  BY <1>14 DEF JniFound, Entry
<1>15. CASE JniMissing
  BY <1>15 DEF JniMissing, Entry
<1>16. CASE CallUndefined
  <2>1. up' \in BOOLEAN
    BY <1>16, Zenon DEF CallUndefined
  <2>2. cb \in [at : {"call", "callback", "listener", "remove", "lock", "erase"}, ev : Events,
               proc : Procs, pid : Pids \cup {NoPid}]
    BY <1>16 DEF CallUndefined
  <2>3. /\ cb' \in {Idle, cb, [cb EXCEPT !.at = "lock"]}
        /\ fate' = fate \/ fate' = [fate EXCEPT ![cb.proc][cb.ev] = "nobody"]
        /\ overtaken' \in {overtaken, overtaken \cup {cb.proc}}
        /\ UNCHANGED <<phase, ended, pid, reaped, armed, puppy, pc, nested, listVars, puppyVars,
                      pending, killVars, hasty>>
    BY <1>16 DEF CallUndefined
  <2>4. cb' \in {Idle} \cup
           [at : {"call", "callback", "listener", "remove", "lock", "erase"}, ev : Events,
            proc : Procs, pid : Pids \cup {NoPid}]
    BY <2>2, <2>3
  <2>5. fate' \in [Procs -> [Events -> Fates]]
    BY SMTT(30), <2>2, <2>3
  <2>6. overtaken' \in SUBSET Procs
    BY <2>2, <2>3
  <2>q. QED
    BY <2>1, <2>3, <2>4, <2>5, <2>6
<1>17. CASE Callback
  BY SMTT(40), <1>17 DEF Callback, Entry
<1>18. CASE Return
  BY <1>18 DEF Return
<1>19. CASE Throw
  BY SMTT(30), <1>19 DEF Throw
<1>20. CASE Remove
  BY <1>20 DEF Remove, CbInv, ChildInv
<1>21. CASE LoopLock
  BY SMTT(30), <1>21 DEF LoopLock
<1>22. CASE Erase
  BY <1>22 DEF Erase
<1>23. ASSUME NEW u \in Late, SetListeners(u)
      PROVE  TypeOK'
  BY <1>23 DEF SetListeners
<1>24. ASSUME NEW u \in Killable, Kill(u)
      PROVE  TypeOK'
  BY <1>24 DEF Kill
<1>25. CASE KillCount
  <2>1. raced' \in BOOLEAN
    BY <1>25, Zenon DEF KillCount
  <2>q. QED
    BY <1>25, <2>1 DEF KillCount
<1>26. CASE KillSend
  <2>1. up' \in BOOLEAN /\ raced' \in BOOLEAN
    BY <1>26, Zenon DEF KillSend
  <2>q. QED
    BY <1>26, <2>1 DEF KillSend
<1>27. CASE Done
  BY <1>27 DEF Done, vars
<1>q. QED
  BY <1>r, <1>1, <1>2, <1>3, <1>4, <1>5, <1>6, <1>7, <1>8, <1>9, <1>10, <1>11, <1>12, <1>13, <1>14, <1>15, <1>16, <1>17, <1>18, <1>19, <1>20, <1>21, <1>22, <1>23, <1>24, <1>25, <1>26, <1>27
     DEF Next, StartStep, LoopStep


\* Start, child and pid go together.
LEMMA ChildStep ==
  ASSUME IInv, TypeOK', Next, NEW q \in Procs
  PROVE  ChildInv(q)'
<1> USE DistinctAssumption DEF IInv, TypeOK, ChildInv, CbInv, Idle
<1>1. ASSUME NEW p \in Procs, NEW u \in Puppies, Begin(p, u)
      PROVE  ChildInv(q)'
  BY <1>1 DEF Begin
<1>2. ASSUME NEW p \in Procs, UvSpawn(p)
      PROVE  ChildInv(q)'
  BY <1>2 DEF UvSpawn, Free, ExitPending
<1>3. ASSUME NEW p \in Procs, SpawnFails(p)
      PROVE  ChildInv(q)'
  BY <1>3 DEF SpawnFails
<1>r. ASSUME NEW p \in Procs, ReadStart(p)
      PROVE  ChildInv(q)'
  BY <1>r DEF ReadStart
<1>4. ASSUME NEW p \in Procs, Lock(p)
      PROVE  ChildInv(q)'
  BY <1>4 DEF Lock
<1>5. ASSUME NEW p \in Procs, Insert(p)
      PROVE  ChildInv(q)'
  BY <1>5 DEF Insert
<1>6. ASSUME NEW p \in Procs, Put(p)
      PROVE  ChildInv(q)'
  BY <1>6 DEF Put
<1>7. ASSUME NEW p \in Procs, Assign(p)
      PROVE  ChildInv(q)'
  BY <1>7 DEF Assign
<1>8. ASSUME NEW p \in Procs, DieOrEnd(p)
      PROVE  ChildInv(q)'
  BY <1>8 DEF DieOrEnd
<1>9. ASSUME NEW p \in Procs, Reap(p)
      PROVE  ChildInv(q)'
  BY <1>9 DEF Reap
<1>10. ASSUME NEW p \in Procs, Report(p)
      PROVE  ChildInv(q)'
  BY <1>10 DEF Report
<1>11. ASSUME NEW p \in Procs, TimerCb(p)
      PROVE  ChildInv(q)'
  BY <1>11 DEF TimerCb
<1>12. CASE JniFound
  BY <1>12 DEF JniFound
<1>13. CASE JniMissing
  BY <1>13 DEF JniMissing
<1>14. CASE CallUndefined
  BY <1>14 DEF CallUndefined
<1>o. ASSUME UNCHANGED <<pc, puppy, phase, pid, reaped, ended, armed, overtaken, hasty, puppyPid>>
      PROVE  ChildInv(q)'
  BY <1>o
<1>q. QED
  BY <1>r, <1>1, <1>2, <1>3, <1>4, <1>5, <1>6, <1>7, <1>8, <1>9, <1>10, <1>11, <1>12, <1>13, <1>14,
     <1>o DEF Next, StartStep, LoopStep, Write, Deliver, Callback, Return, Throw, Remove,
     LoopLock, Erase, SetListeners, Kill, KillCount, KillSend, Done, vars

\* What was reported is handled, or was.
LEMMA ReportedStep ==
  ASSUME IInv, TypeOK', Next, NEW q \in Procs
  PROVE  ReportedInv(q)'
<1> USE DistinctAssumption DEF IInv, TypeOK, Events, ChildInv, CbInv, ReportedInv, Exiting, Idle,
   Listed
<1>1. ASSUME NEW p \in Procs, NEW u \in Puppies, Begin(p, u)
      PROVE  ReportedInv(q)'
  BY <1>1 DEF Begin
<1>2. ASSUME NEW p \in Procs, UvSpawn(p)
      PROVE  ReportedInv(q)'
  BY <1>2 DEF UvSpawn, Free, ExitPending
<1>3. ASSUME NEW p \in Procs, SpawnFails(p)
      PROVE  ReportedInv(q)'
  BY <1>3 DEF SpawnFails
<1>r. ASSUME NEW p \in Procs, ReadStart(p)
      PROVE  ReportedInv(q)'
  BY <1>r DEF ReadStart
<1>4. ASSUME NEW p \in Procs, Lock(p)
      PROVE  ReportedInv(q)'
  BY <1>4 DEF Lock
<1>5. ASSUME NEW p \in Procs, Insert(p)
      PROVE  ReportedInv(q)'
  BY <1>5 DEF Insert
<1>6. ASSUME NEW p \in Procs, Put(p)
      PROVE  ReportedInv(q)'
  BY <1>6 DEF Put
<1>7. ASSUME NEW p \in Procs, Assign(p)
      PROVE  ReportedInv(q)'
  BY <1>7 DEF Assign
<1>8. ASSUME NEW p \in Procs, Write(p)
      PROVE  ReportedInv(q)'
  <2>1. PICK s \in {"stdout", "stderr"} :
          /\ s = "stderr" => p \notin ended
          /\ fate' = [fate EXCEPT ![p][s] = "pending"]
    BY ZenonT(30), <1>8, StreamsAssumption DEF Write
  <2>2. \A r \in Procs, e \in Events :
          fate'[r][e] = IF r = p /\ e = s THEN "pending" ELSE fate[r][e]
    BY <2>1
  <2>3. phase[p] # "idle" /\ UNCHANGED <<phase, ended, cb, pc, overtaken>>
    BY <1>8 DEF Write
  <2>4. fate'[q]["exit"] = fate[q]["exit"]
    BY <2>1, <2>2
  <2>q. QED
    BY <2>1, <2>2, <2>3, <2>4
<1>9. ASSUME NEW p \in Procs, DieOrEnd(p)
      PROVE  ReportedInv(q)'
  BY <1>9 DEF DieOrEnd
<1>10. ASSUME NEW p \in Procs, Report(p)
      PROVE  ReportedInv(q)'
  BY <1>10 DEF Report
<1>11. ASSUME NEW p \in Procs, TimerCb(p)
      PROVE  ReportedInv(q)'
  BY <1>11 DEF TimerCb
<1>12. ASSUME NEW p \in Procs, NEW s \in Streams, Deliver(p, s)
      PROVE  ReportedInv(q)'
  BY <1>12 DEF Deliver
<1>13. CASE JniFound
  BY <1>13 DEF JniFound
<1>14. CASE JniMissing
  BY <1>14 DEF JniMissing
<1>15. CASE CallUndefined
  BY <1>15 DEF CallUndefined
<1>16. CASE Callback
  BY <1>16 DEF Callback
<1>17. CASE Return
  BY <1>17 DEF Return
<1>18. CASE Throw
  BY <1>18 DEF Throw
<1>19. CASE Remove
  BY <1>19 DEF Remove
<1>20. CASE LoopLock
  BY <1>20 DEF LoopLock
<1>21. CASE Erase
  BY <1>21 DEF Erase
<1>o. ASSUME UNCHANGED <<fate, phase, ended, cb, pc, overtaken>>
      PROVE  ReportedInv(q)'
  BY <1>o
<1>q. QED
  BY <1>r, <1>1, <1>2, <1>3, <1>4, <1>5, <1>6, <1>7, <1>8, <1>9, <1>10, <1>11, <1>12, <1>13, <1>14,
     <1>15, <1>16, <1>17, <1>18, <1>19, <1>20, <1>21, <1>o DEF Next, StartStep, LoopStep, Reap,
     SetListeners, Kill, KillCount, KillSend, Done, vars

\* What a callback carries stays true.
LEMMA CbStep ==
  ASSUME IInv, TypeOK', Next
  PROVE  CbInv'
<1> USE DistinctAssumption DEF IInv, TypeOK, Events, ChildInv, CbInv, ReportedInv, Exiting, Idle,
   Listed
<1>1. ASSUME NEW p \in Procs, NEW u \in Puppies, Begin(p, u)
      PROVE  CbInv'
  BY <1>1 DEF Begin
<1>2. ASSUME NEW p \in Procs, UvSpawn(p)
      PROVE  CbInv'
  BY <1>2 DEF UvSpawn, Free, ExitPending
<1>3. ASSUME NEW p \in Procs, SpawnFails(p)
      PROVE  CbInv'
  BY <1>3 DEF SpawnFails
<1>r. ASSUME NEW p \in Procs, ReadStart(p)
      PROVE  CbInv'
  BY <1>r DEF ReadStart
<1>4. ASSUME NEW p \in Procs, Lock(p)
      PROVE  CbInv'
  BY <1>4 DEF Lock
<1>5. ASSUME NEW p \in Procs, Insert(p)
      PROVE  CbInv'
  BY <1>5 DEF Insert
<1>6. ASSUME NEW p \in Procs, Put(p)
      PROVE  CbInv'
  BY <1>6 DEF Put
<1>7. ASSUME NEW p \in Procs, Assign(p)
      PROVE  CbInv'
  BY <1>7 DEF Assign
<1>8. ASSUME NEW p \in Procs, Write(p)
      PROVE  CbInv'
  BY <1>8 DEF Write
<1>9. ASSUME NEW p \in Procs, DieOrEnd(p)
      PROVE  CbInv'
  BY <1>9 DEF DieOrEnd
<1>10. ASSUME NEW p \in Procs, Reap(p)
      PROVE  CbInv'
  BY <1>10 DEF Reap
<1>11. ASSUME NEW p \in Procs, Report(p)
      PROVE  CbInv'
  BY <1>11 DEF Report
<1>12. ASSUME NEW p \in Procs, TimerCb(p)
      PROVE  CbInv'
  BY <1>12 DEF TimerCb
<1>13. ASSUME NEW p \in Procs, NEW s \in Streams, Deliver(p, s)
      PROVE  CbInv'
  BY <1>13, StreamsAssumption DEF Deliver
<1>14. CASE JniFound
  BY <1>14 DEF JniFound
<1>15. CASE JniMissing
  BY <1>15 DEF JniMissing
<1>16. CASE CallUndefined
  BY <1>16 DEF CallUndefined
<1>17. CASE Callback
  BY <1>17 DEF Callback
<1>18. CASE Return
  BY <1>18 DEF Return
<1>19. CASE Throw
  BY <1>19 DEF Throw
<1>20. CASE Remove
  BY <1>20 DEF Remove
<1>21. CASE LoopLock
  BY <1>21 DEF LoopLock
<1>22. CASE Erase
  BY <1>22 DEF Erase
<1>o. ASSUME UNCHANGED <<cb, pc, reaped, fate, phase, pid, overtaken>>
      PROVE  CbInv'
  BY <1>o
<1>q. QED
  BY <1>r, <1>1, <1>2, <1>3, <1>4, <1>5, <1>6, <1>7, <1>8, <1>9, <1>10, <1>11, <1>12, <1>13, <1>14,
     <1>15, <1>16, <1>17, <1>18, <1>19, <1>20, <1>21, <1>22, <1>o DEF Next, StartStep, LoopStep,
     SetListeners, Kill, KillCount, KillSend, Done, vars

\* Who holds uvMutex, and what kill() can have missed.
LEMMA MutexStep ==
  ASSUME IInv, TypeOK', Next
  PROVE  MutexInv'
<1> USE DistinctAssumption DEF IInv, TypeOK, MutexInv, CbInv, Idle, NoKill
<1>1. ASSUME NEW p \in Procs, NEW u \in Puppies, Begin(p, u)
      PROVE  MutexInv'
  BY <1>1 DEF Begin
<1>2. ASSUME NEW p \in Procs, UvSpawn(p)
      PROVE  MutexInv'
  BY <1>2 DEF UvSpawn, Free, ExitPending
<1>3. ASSUME NEW p \in Procs, SpawnFails(p)
      PROVE  MutexInv'
  BY <1>3 DEF SpawnFails
<1>r. ASSUME NEW p \in Procs, ReadStart(p)
      PROVE  MutexInv'
  BY <1>r DEF ReadStart
<1>4. ASSUME NEW p \in Procs, Lock(p)
      PROVE  MutexInv'
  <2>1. killer # NoKill => raced'
    BY <1>4, Zenon DEF Lock
  <2>2. killer.at = "send" => killer # NoKill
    BY <1>4 DEF Lock
  <2>q. QED
    BY <1>4, <2>1, <2>2 DEF Lock
<1>5. ASSUME NEW p \in Procs, Insert(p)
      PROVE  MutexInv'
  BY <1>5 DEF Insert
<1>6. ASSUME NEW p \in Procs, Put(p)
      PROVE  MutexInv'
  BY <1>6 DEF Put
<1>7. ASSUME NEW p \in Procs, Assign(p)
      PROVE  MutexInv'
  BY <1>7 DEF Assign
<1>8. ASSUME NEW p \in Procs, Report(p)
      PROVE  MutexInv'
  BY <1>8 DEF Report
<1>9. ASSUME NEW p \in Procs, TimerCb(p)
      PROVE  MutexInv'
  BY <1>9 DEF TimerCb
<1>10. ASSUME NEW p \in Procs, NEW s \in Streams, Deliver(p, s)
      PROVE  MutexInv'
  BY <1>10 DEF Deliver
<1>11. CASE JniFound
  BY <1>11 DEF JniFound
<1>12. CASE JniMissing
  BY <1>12 DEF JniMissing
<1>13. CASE CallUndefined
  BY <1>13 DEF CallUndefined
<1>14. CASE Callback
  BY <1>14 DEF Callback
<1>15. CASE Return
  BY <1>15 DEF Return
<1>16. CASE Throw
  BY <1>16 DEF Throw
<1>17. CASE Remove
  BY <1>17 DEF Remove
<1>18. CASE LoopLock
  <2>1. killer # NoKill => raced'
    BY <1>18, Zenon DEF LoopLock
  <2>2. killer.at = "send" => killer # NoKill
    BY <1>18 DEF LoopLock
  <2>q. QED
    BY <1>18, <2>1, <2>2 DEF LoopLock
<1>19. CASE Erase
  BY <1>19 DEF Erase
<1>20. ASSUME NEW u \in Killable, Kill(u)
      PROVE  MutexInv'
  BY ZenonT(30), <1>20 DEF Kill
<1>21. CASE KillCount
  BY <1>21 DEF KillCount
<1>22. CASE KillSend
  BY <1>22 DEF KillSend
<1>o. ASSUME UNCHANGED <<pc, mutex, cb, killer, raced, nativeList>>
      PROVE  MutexInv'
  BY <1>o
<1>q. QED
  BY <1>r, <1>1, <1>2, <1>3, <1>4, <1>5, <1>6, <1>7, <1>8, <1>9, <1>10, <1>11, <1>12, <1>13, <1>14,
     <1>15, <1>16, <1>17, <1>18, <1>19, <1>20, <1>21, <1>22, <1>o DEF Next, StartStep, LoopStep,
     Write, DieOrEnd, Reap, SetListeners, Done, vars

\* A pid is shared by open objects only if one was started too early.
LEMMA HastyStep ==
  ASSUME IInv, TypeOK', Next
  PROVE  HastyInv'
<1> USE DistinctAssumption DEF IInv, TypeOK, ChildInv, CbInv, HastyInv, Open, Exiting, Idle, Listed
<1>1. ASSUME NEW p \in Procs, UvSpawn(p)
      PROVE  HastyInv'
  <2>1. PICK n \in Free :
          /\ pid' = [pid EXCEPT ![p] = n]
          /\ hasty' = IF \E r \in Procs : pid[r] = n /\ ExitPending(r) THEN hasty \cup {p}
                     ELSE hasty
    BY <1>1 DEF UvSpawn
  <2>2. phase' = [phase EXCEPT ![p] = "live"] /\ cb' = cb
    BY <1>1 DEF UvSpawn
  <2>3. ASSUME NEW r \in Procs, r # p, Open(r)', pid'[r] = pid'[p]
        PROVE  p \in hasty'
    <3>1. Open(r) /\ pid[r] = n
      BY <2>1, <2>2, <2>3
    <3>2. r \in reaped
      BY <2>1, <3>1 DEF Free
    <3>q. QED
      BY ZenonT(30), <2>1, <3>1, <3>2 DEF ExitPending
  <2>4. hasty \subseteq hasty'
    BY <2>1
  <2>q. QED
    BY <2>1, <2>2, <2>3, <2>4
<1>2. ASSUME NEW p \in Procs, SpawnFails(p)
      PROVE  HastyInv'
  BY <1>2 DEF SpawnFails
<1>3. ASSUME NEW p \in Procs, DieOrEnd(p)
      PROVE  HastyInv'
  BY <1>3 DEF DieOrEnd
<1>4. ASSUME NEW p \in Procs, Report(p)
      PROVE  HastyInv'
  BY <1>4 DEF Report
<1>5. ASSUME NEW p \in Procs, TimerCb(p)
      PROVE  HastyInv'
  BY <1>5 DEF TimerCb
<1>6. ASSUME NEW p \in Procs, NEW s \in Streams, Deliver(p, s)
      PROVE  HastyInv'
  BY <1>6, StreamsAssumption DEF Deliver
<1>7. CASE JniFound
  BY <1>7 DEF JniFound
<1>8. CASE JniMissing
  BY <1>8 DEF JniMissing
<1>9. CASE CallUndefined
  BY <1>9 DEF CallUndefined
<1>10. CASE Callback
  BY <1>10 DEF Callback
<1>11. CASE Return
  BY <1>11 DEF Return
<1>12. CASE Throw
  BY <1>12 DEF Throw
<1>13. CASE Remove
  BY <1>13 DEF Remove
<1>14. CASE LoopLock
  BY <1>14 DEF LoopLock
<1>15. CASE Erase
  BY <1>15 DEF Erase
<1>o. ASSUME UNCHANGED <<phase, cb, pid, hasty>>
      PROVE  HastyInv'
  BY <1>o
<1>q. QED
  BY <1>1, <1>2, <1>3, <1>4, <1>5, <1>6, <1>7, <1>8, <1>9, <1>10, <1>11, <1>12, <1>13, <1>14,
     <1>15, <1>o DEF Next, StartStep, LoopStep, Begin, ReadStart, Lock, Insert, Put, Assign, Write, Reap,
     SetListeners, Kill, KillCount, KillSend, Done, vars

\* The entries of the native list have a process behind them.
LEMMA NativeEntryStep ==
  ASSUME IInv, TypeOK', Next
  PROVE  NativeEntryInv'
<1> USE DistinctAssumption DEF IInv, TypeOK, ChildInv, CbInv, ReportedInv, NativeEntryInv, Open,
   Inserted, Exiting, Idle, Listed
<1>1. ASSUME NEW p \in Procs, NEW u \in Puppies, Begin(p, u)
      PROVE  NativeEntryInv'
  BY <1>1 DEF Begin
<1>2. ASSUME NEW p \in Procs, UvSpawn(p)
      PROVE  NativeEntryInv'
  BY <1>2 DEF UvSpawn, Free, ExitPending
<1>3. ASSUME NEW p \in Procs, SpawnFails(p)
      PROVE  NativeEntryInv'
  BY SMTT(30), <1>3 DEF SpawnFails
<1>r. ASSUME NEW p \in Procs, ReadStart(p)
      PROVE  NativeEntryInv'
  BY <1>r DEF ReadStart
<1>4. ASSUME NEW p \in Procs, Lock(p)
      PROVE  NativeEntryInv'
  BY <1>4 DEF Lock
<1>5. ASSUME NEW p \in Procs, Insert(p)
      PROVE  NativeEntryInv'
  BY <1>5 DEF Insert
<1>6. ASSUME NEW p \in Procs, Put(p)
      PROVE  NativeEntryInv'
  BY <1>6 DEF Put
<1>7. ASSUME NEW p \in Procs, Assign(p)
      PROVE  NativeEntryInv'
  BY <1>7 DEF Assign
<1>8. ASSUME NEW p \in Procs, DieOrEnd(p)
      PROVE  NativeEntryInv'
  BY <1>8 DEF DieOrEnd
<1>9. ASSUME NEW p \in Procs, Report(p)
      PROVE  NativeEntryInv'
  BY <1>9 DEF Report
<1>10. ASSUME NEW p \in Procs, TimerCb(p)
      PROVE  NativeEntryInv'
  BY <1>10 DEF TimerCb
<1>11. ASSUME NEW p \in Procs, NEW s \in Streams, Deliver(p, s)
      PROVE  NativeEntryInv'
  BY <1>11 DEF Deliver
<1>12. CASE JniFound
  BY <1>12 DEF JniFound
<1>13. CASE JniMissing
  BY <1>13 DEF JniMissing
<1>14. CASE CallUndefined
  BY <1>14 DEF CallUndefined
<1>15. CASE Callback
  BY <1>15 DEF Callback
<1>16. CASE Return
  BY <1>16 DEF Return
<1>17. CASE Throw
  BY <1>17 DEF Throw
<1>18. CASE Remove
  BY <1>18 DEF Remove
<1>19. CASE LoopLock
  BY <1>19 DEF LoopLock
<1>20. CASE Erase
  BY <1>20 DEF Erase
<1>o. ASSUME UNCHANGED <<nativeList, pid, pc, phase, cb, overtaken>>
      PROVE  NativeEntryInv'
  BY <1>o
<1>q. QED
  BY <1>r, <1>1, <1>2, <1>3, <1>4, <1>5, <1>6, <1>7, <1>8, <1>9, <1>10, <1>11, <1>12, <1>13, <1>14,
     <1>15, <1>16, <1>17, <1>18, <1>19, <1>20, <1>o DEF Next, StartStep, LoopStep, Write, Reap,
     SetListeners, Kill, KillCount, KillSend, Done, vars

\* The entries of the Java list, too.
LEMMA JavaEntryStep ==
  ASSUME IInv, TypeOK', Next
  PROVE  JavaEntryInv'
<1> USE DistinctAssumption DEF IInv, TypeOK, ChildInv, CbInv, ReportedInv, JavaEntryInv, Present,
   Exiting, Idle, Listed
<1>1. ASSUME NEW p \in Procs, NEW u \in Puppies, Begin(p, u)
      PROVE  JavaEntryInv'
  BY <1>1 DEF Begin
<1>2. ASSUME NEW p \in Procs, UvSpawn(p)
      PROVE  JavaEntryInv'
  BY <1>2 DEF UvSpawn, Free, ExitPending
<1>3. ASSUME NEW p \in Procs, SpawnFails(p)
      PROVE  JavaEntryInv'
  BY <1>3 DEF SpawnFails
<1>r. ASSUME NEW p \in Procs, ReadStart(p)
      PROVE  JavaEntryInv'
  BY <1>r DEF ReadStart
<1>4. ASSUME NEW p \in Procs, Lock(p)
      PROVE  JavaEntryInv'
  BY <1>4 DEF Lock
<1>5. ASSUME NEW p \in Procs, Insert(p)
      PROVE  JavaEntryInv'
  <2>1. \A r \in Procs : Listed(r)' <=> Listed(r)
    BY <1>5 DEF Insert
  <2>2. UNCHANGED <<javaList, phase, cb, pid, puppy, overtaken, pending>>
    BY <1>5 DEF Insert
  <2>q. QED
    BY <2>1, <2>2
<1>6. ASSUME NEW p \in Procs, Put(p)
      PROVE  JavaEntryInv'
  BY SMTT(30), <1>6 DEF Put
<1>7. ASSUME NEW p \in Procs, Assign(p)
      PROVE  JavaEntryInv'
  BY <1>7 DEF Assign
<1>8. ASSUME NEW p \in Procs, DieOrEnd(p)
      PROVE  JavaEntryInv'
  BY <1>8 DEF DieOrEnd
<1>9. ASSUME NEW p \in Procs, Report(p)
      PROVE  JavaEntryInv'
  BY <1>9 DEF Report
<1>10. ASSUME NEW p \in Procs, TimerCb(p)
      PROVE  JavaEntryInv'
  BY <1>10 DEF TimerCb
<1>11. ASSUME NEW p \in Procs, NEW s \in Streams, Deliver(p, s)
      PROVE  JavaEntryInv'
  BY <1>11 DEF Deliver
<1>12. CASE JniFound
  BY <1>12 DEF JniFound
<1>13. CASE JniMissing
  BY <1>13 DEF JniMissing
<1>14. CASE CallUndefined
  BY <1>14 DEF CallUndefined
<1>15. CASE Callback
  BY <1>15 DEF Callback
<1>16. CASE Return
  BY <1>16 DEF Return
<1>17. CASE Throw
  BY <1>17 DEF Throw
<1>18. CASE Remove
  BY <1>18 DEF Remove
<1>19. CASE LoopLock
  BY <1>19 DEF LoopLock
<1>20. CASE Erase
  BY <1>20 DEF Erase
<1>o. ASSUME UNCHANGED <<javaList, pid, puppy, pc, phase, cb, overtaken, pending>>
      PROVE  JavaEntryInv'
  BY <1>o
<1>q. QED
  BY <1>r, <1>1, <1>2, <1>3, <1>4, <1>5, <1>6, <1>7, <1>8, <1>9, <1>10, <1>11, <1>12, <1>13, <1>14,
     <1>15, <1>16, <1>17, <1>18, <1>19, <1>20, <1>o DEF Next, StartStep, LoopStep, Write, Reap,
     SetListeners, Kill, KillCount, KillSend, Done, vars

\* A pid is given once, and what the history records stays recorded.
LEMMA HistoryGrows ==
  ASSUME IInv, TypeOK', Next
  PROVE  /\ hasty \subseteq hasty' /\ overtaken \subseteq overtaken'
         /\ \A q \in Procs : pid[q] \in Pids => pid'[q] = pid[q]
<1> USE DistinctAssumption DEF IInv, TypeOK, ChildInv
<1>1. ASSUME NEW p \in Procs, UvSpawn(p)
      PROVE  /\ hasty \subseteq hasty' /\ overtaken \subseteq overtaken'
         /\ \A q \in Procs : pid[q] \in Pids => pid'[q] = pid[q]
  BY <1>1 DEF UvSpawn, Free, ExitPending
<1>2. CASE JniFound
  BY <1>2 DEF JniFound
<1>3. CASE JniMissing
  BY <1>3 DEF JniMissing
<1>4. CASE CallUndefined
  BY <1>4 DEF CallUndefined
<1>o. ASSUME UNCHANGED <<hasty, overtaken, pid>>
      PROVE  /\ hasty \subseteq hasty' /\ overtaken \subseteq overtaken'
         /\ \A q \in Procs : pid[q] \in Pids => pid'[q] = pid[q]
  BY <1>o
<1>q. QED
  BY SMTT(30), <1>1, <1>2, <1>3, <1>4, <1>o DEF Next, StartStep, LoopStep, Begin, SpawnFails, ReadStart, Lock,
     Insert, Put, Assign, Write, DieOrEnd, Reap, Report, TimerCb, Deliver, Callback, Return,
     Throw, Remove, LoopLock, Erase, SetListeners, Kill, KillCount, KillSend, Done, vars

\* Processes that were in each other's way remain so.
LEMMA ClashStays ==
  ASSUME IInv, Next, TypeOK', NEW q \in Procs, Clash(q)
  PROVE  Clash(q)'
<1>1. pid[q] \in Pids /\ \A r \in hasty \cup overtaken : r \in Procs /\ pid[r] \in Pids
  BY DEF IInv, TypeOK, ChildInv, Clash
<1>q. QED
  BY <1>1, HistoryGrows DEF Clash

\* A process that came so far is in the lists.
LEMMA RegisteredStep ==
  ASSUME IInv, TypeOK', Next, NEW q \in Procs
  PROVE  RegisteredInv(q)'
<1> USE DistinctAssumption DEF IInv, TypeOK, ChildInv, CbInv, ReportedInv, HastyInv, RegisteredInv,
   Open, Present, Inserted, Entry, Exiting, Idle, Listed
<1>1. ASSUME NEW p \in Procs, NEW u \in Puppies, Begin(p, u)
      PROVE  RegisteredInv(q)'
  BY <1>1, ClashStays DEF Begin
<1>2. ASSUME NEW p \in Procs, UvSpawn(p)
      PROVE  RegisteredInv(q)'
  BY <1>2, ClashStays DEF UvSpawn, Free, ExitPending
<1>3. ASSUME NEW p \in Procs, SpawnFails(p)
      PROVE  RegisteredInv(q)'
  BY <1>3, ClashStays DEF SpawnFails
<1>r. ASSUME NEW p \in Procs, ReadStart(p)
      PROVE  RegisteredInv(q)'
  BY <1>r, ClashStays DEF ReadStart
<1>4. ASSUME NEW p \in Procs, Lock(p)
      PROVE  RegisteredInv(q)'
  BY <1>4, ClashStays DEF Lock
<1>5. ASSUME NEW p \in Procs, Insert(p)
      PROVE  RegisteredInv(q)'
  BY <1>5, ClashStays DEF Insert
<1>6. ASSUME NEW p \in Procs, Put(p)
      PROVE  RegisteredInv(q)'
  <2>1. Clash(q) => Clash(q)'
    BY ClashStays
  <2>2. phase[p] # "failed" /\ phase[p] # "idle" /\ pid[p] \in Pids
    BY <1>6 DEF Put
  <2>3. ASSUME q # p, pid[q] = pid[p], Present(q)
        PROVE  Clash(q)
    <3>1. CASE Open(p)
      BY <2>3, <3>1 DEF Clash
    <3>2. CASE ~Open(p)
      <4>1. p \in overtaken
        BY <1>6, <2>2, <3>2 DEF Put
      <4>q. QED
        BY <2>3, <4>1 DEF Clash
    <3>q. QED
      BY <3>1, <3>2
  <2>4. /\ javaList' = [javaList EXCEPT ![pid[p]] = puppy[p]]
        /\ pc' = [pc EXCEPT ![p] = "assign"]
        /\ UNCHANGED <<nativeList, phase, cb, pid, puppy, hasty, overtaken>>
    BY <1>6 DEF Put
  <2>5. Inserted(q)' /\ Open(q)' => pid'[q] \in nativeList' \/ Clash(q)'
    BY <1>6, <2>1, <2>4 DEF Put
  <2>6. ASSUME Listed(q)', Present(q)'
        PROVE  Entry(pid[q])' = puppy[q] \/ Clash(q)'
    <3>1. CASE pid[q] = pid[p]
      BY <2>1, <2>2, <2>3, <2>4, <2>6, <3>1
    <3>2. CASE pid[q] # pid[p]
      BY <2>1, <2>2, <2>4, <2>6, <3>2
    <3>q. QED
      BY <3>1, <3>2
  <2>q. QED
    BY <2>4, <2>5, <2>6
<1>7. ASSUME NEW p \in Procs, Assign(p)
      PROVE  RegisteredInv(q)'
  BY <1>7, ClashStays DEF Assign
<1>8. ASSUME NEW p \in Procs, DieOrEnd(p)
      PROVE  RegisteredInv(q)'
  BY <1>8, ClashStays DEF DieOrEnd
<1>9. ASSUME NEW p \in Procs, Report(p)
      PROVE  RegisteredInv(q)'
  BY <1>9, ClashStays DEF Report
<1>10. ASSUME NEW p \in Procs, TimerCb(p)
      PROVE  RegisteredInv(q)'
  BY <1>10, ClashStays DEF TimerCb
<1>11. ASSUME NEW p \in Procs, NEW s \in Streams, Deliver(p, s)
      PROVE  RegisteredInv(q)'
  BY <1>11, ClashStays, StreamsAssumption DEF Deliver
<1>12. CASE JniFound
  BY <1>12, ClashStays DEF JniFound
<1>13. CASE JniMissing
  BY <1>13, ClashStays DEF JniMissing
<1>14. CASE CallUndefined
  BY <1>14, ClashStays DEF CallUndefined
<1>15. CASE Callback
  BY <1>15, ClashStays DEF Callback
<1>16. CASE Return
  BY <1>16, ClashStays DEF Return
<1>17. CASE Throw
  BY <1>17, ClashStays DEF Throw
<1>18. CASE Remove
  <2> DEFINE r == cb.proc
  <2>1. Clash(q) => Clash(q)'
    BY ClashStays
  <2>2. /\ cb # Idle /\ r \in Procs /\ Exiting(r)
        /\ cb.pid = pid[r] /\ pid[r] \in Pids
    BY <1>18 DEF Remove
  <2>3. /\ javaList' = [javaList EXCEPT ![pid[r]] = Nobody]
        /\ cb'.at = "lock" /\ cb'.ev = cb.ev /\ cb'.proc = r
        /\ UNCHANGED <<nativeList, phase, pid, pc, puppy, hasty, overtaken>>
    BY <1>18, <2>2 DEF Remove
  <2>4. Inserted(q)' /\ Open(q)' => pid'[q] \in nativeList' \/ Clash(q)'
    BY <2>1, <2>3
  <2>5. ASSUME Listed(q)', Present(q)'
        PROVE  Entry(pid[q])' = puppy[q] \/ Clash(q)'
    <3>1. q # r /\ phase[q] \in {"live", "dead"}
      BY <2>2, <2>3, <2>5
    <3>2. CASE pid[q] = pid[r]
      <4>1. Open(q) /\ Open(r)
        BY <2>2, <3>1
      <4>2. q \in hasty \/ r \in hasty
        BY <2>2, <3>1, <3>2, <4>1
      <4>q. QED
        BY <2>1, <2>2, <3>2, <4>2 DEF Clash
    <3>3. CASE pid[q] # pid[r]
      BY <2>1, <2>2, <2>3, <2>5, <3>1, <3>3
    <3>q. QED
      BY <3>2, <3>3
  <2>q. QED
    BY <2>3, <2>4, <2>5
<1>19. CASE LoopLock
  BY <1>19, ClashStays DEF LoopLock
<1>20. CASE Erase
  <2> DEFINE r == cb.proc
  <2>1. Clash(q) => Clash(q)'
    BY ClashStays
  <2>2. /\ cb # Idle /\ r \in Procs /\ Exiting(r)
        /\ cb.pid = pid[r] /\ pid[r] \in Pids
    BY <1>20 DEF Erase
  <2>3. /\ nativeList' = nativeList \ {pid[r]}
        /\ cb' = Idle
        /\ UNCHANGED <<javaList, phase, pid, pc, puppy, hasty, overtaken>>
    BY <1>20, <2>2 DEF Erase
  <2>4. ASSUME Inserted(q)', Open(q)'
        PROVE  pid[q] \in nativeList' \/ Clash(q)'
    <3>1. q # r /\ phase[q] \in {"live", "dead"}
      BY <2>2, <2>3, <2>4
    <3>2. CASE pid[q] = pid[r]
      <4>1. q \in hasty \/ r \in hasty
        BY <2>2, <3>1, <3>2
      <4>q. QED
        BY <2>1, <2>2, <3>2, <4>1 DEF Clash
    <3>3. CASE pid[q] # pid[r]
      BY <2>1, <2>2, <2>3, <2>4, <3>1, <3>3
    <3>q. QED
      BY <3>2, <3>3
  <2>5. Listed(q)' /\ Present(q)' => Entry(pid[q])' = puppy[q] \/ Clash(q)'
    BY <2>1, <2>3
  <2>q. QED
    BY <2>3, <2>4, <2>5
<1>o. ASSUME UNCHANGED <<nativeList, javaList, phase, cb, pid, pc, puppy, hasty, overtaken>>
      PROVE  RegisteredInv(q)'
  BY <1>o, ClashStays
<1>q. QED
  BY <1>r, <1>1, <1>2, <1>3, <1>4, <1>5, <1>6, <1>7, <1>8, <1>9, <1>10, <1>11, <1>12, <1>13, <1>14,
     <1>15, <1>16, <1>17, <1>18, <1>19, <1>20, <1>o DEF Next, StartStep, LoopStep, Write, Reap,
     SetListeners, Kill, KillCount, KillSend, Done, vars

\* A native entry has one in the Java list, or soon, or goes.
LEMMA BothStep ==
  ASSUME IInv, TypeOK', Next
  PROVE  BothInv'
<1> USE DistinctAssumption DEF IInv, TypeOK, ChildInv, CbInv, BothInv, MutexInv, Exiting, Idle,
   Listed
<1>1. ASSUME NEW p \in Procs, NEW u \in Puppies, Begin(p, u)
      PROVE  BothInv'
  BY <1>1 DEF Begin
<1>2. ASSUME NEW p \in Procs, UvSpawn(p)
      PROVE  BothInv'
  BY <1>2 DEF UvSpawn, Free, ExitPending
<1>3. ASSUME NEW p \in Procs, SpawnFails(p)
      PROVE  BothInv'
  BY <1>3 DEF SpawnFails
<1>r. ASSUME NEW p \in Procs, ReadStart(p)
      PROVE  BothInv'
  BY <1>r DEF ReadStart
<1>4. ASSUME NEW p \in Procs, Lock(p)
      PROVE  BothInv'
  BY <1>4 DEF Lock
<1>5. ASSUME NEW p \in Procs, Insert(p)
      PROVE  BothInv'
  BY <1>5 DEF Insert
<1>6. ASSUME NEW p \in Procs, Put(p)
      PROVE  BothInv'
  BY <1>6 DEF Put
<1>7. ASSUME NEW p \in Procs, Assign(p)
      PROVE  BothInv'
  BY <1>7 DEF Assign
<1>8. ASSUME NEW p \in Procs, Report(p)
      PROVE  BothInv'
  BY <1>8 DEF Report
<1>9. ASSUME NEW p \in Procs, TimerCb(p)
      PROVE  BothInv'
  BY <1>9 DEF TimerCb
<1>10. ASSUME NEW p \in Procs, NEW s \in Streams, Deliver(p, s)
      PROVE  BothInv'
  BY <1>10 DEF Deliver
<1>11. CASE JniFound
  BY <1>11 DEF JniFound
<1>12. CASE JniMissing
  BY <1>12 DEF JniMissing
<1>13. CASE CallUndefined
  BY <1>13 DEF CallUndefined
<1>14. CASE Callback
  BY <1>14 DEF Callback
<1>15. CASE Return
  BY <1>15 DEF Return
<1>16. CASE Throw
  BY <1>16 DEF Throw
<1>17. CASE Remove
  BY <1>17 DEF Remove
<1>18. CASE LoopLock
  BY <1>18 DEF LoopLock
<1>19. CASE Erase
  BY <1>19 DEF Erase
<1>o. ASSUME UNCHANGED <<nativeList, javaList, pid, pc, cb>>
      PROVE  BothInv'
  BY <1>o
<1>q. QED
  BY <1>r, <1>1, <1>2, <1>3, <1>4, <1>5, <1>6, <1>7, <1>8, <1>9, <1>10, <1>11, <1>12, <1>13, <1>14,
     <1>15, <1>16, <1>17, <1>18, <1>19, <1>o DEF Next, StartStep, LoopStep, Write, DieOrEnd,
     Reap, SetListeners, Kill, KillCount, KillSend, Done, vars

\* What was stamped on a DoryProcess, and that it was.
LEMMA StampStep ==
  ASSUME IInv, TypeOK', Next
  PROVE  StampInv'
<1> USE DistinctAssumption DEF IInv, TypeOK, ChildInv, CbInv, ReportedInv, RegisteredInv,
   JavaEntryInv, StampInv, Open, Present, AtCall, Entry, Exiting, Idle, Listed
<1>1. ASSUME NEW p \in Procs, NEW u \in Puppies, Begin(p, u)
      PROVE  StampInv'
  <2>1. ASSUME NEW w \in Puppies, NEW r \in Procs, exitOf[w] = r
        PROVE  /\ phase'[r] = "reported" /\ ~AtCall(r)'
               /\ \E q \in Procs : pid'[q] = pid'[r] /\ puppy'[q] = w /\ Listed(q)'
    <3>1. phase[r] = "reported" /\ ~AtCall(r)
      BY <2>1
    <3>2. PICK q \in Procs : pid[q] = pid[r] /\ puppy[q] = w /\ Listed(q)
      BY <2>1
    <3>3. r # p /\ q # p
      BY <1>1, <3>1, <3>2 DEF Begin
    <3>q. QED
      BY <1>1, <3>1, <3>2, <3>3 DEF Begin
  <2>2. ASSUME NEW r \in Procs, phase'[r] = "reported"
        PROVE  AtCall(r)' \/ r \in overtaken' \/ Clash(r)' \/ pending' \/ exitOf'[puppy'[r]] # Nobody
    BY <1>1, <2>2, ClashStays DEF Begin
  <2>q. QED
    BY <1>1, <2>1, <2>2 DEF Begin
<1>2. ASSUME NEW p \in Procs, UvSpawn(p)
      PROVE  StampInv'
  <2>1. ASSUME NEW u \in Puppies, NEW r \in Procs, exitOf[u] = r
        PROVE  /\ phase'[r] = "reported" /\ ~AtCall(r)'
               /\ \E q \in Procs : pid'[q] = pid'[r] /\ puppy'[q] = u /\ Listed(q)'
    <3>1. phase[r] = "reported" /\ ~AtCall(r)
      BY <2>1
    <3>2. PICK q \in Procs : pid[q] = pid[r] /\ puppy[q] = u /\ Listed(q)
      BY SMTT(30), <2>1
    <3>3. r # p /\ q # p
      BY <1>2, <3>1, <3>2 DEF UvSpawn
    <3>q. QED
      BY <1>2, <3>1, <3>2, <3>3 DEF UvSpawn
  <2>2. ASSUME NEW r \in Procs, phase'[r] = "reported"
        PROVE  AtCall(r)' \/ r \in overtaken' \/ Clash(r)' \/ pending' \/ exitOf'[puppy'[r]] # Nobody
    BY <1>2, <2>2, ClashStays DEF UvSpawn
  <2>q. QED
    BY <1>2, <2>1, <2>2 DEF UvSpawn
<1>3. ASSUME NEW p \in Procs, SpawnFails(p)
      PROVE  StampInv'
  <2>1. ASSUME NEW u \in Puppies, NEW r \in Procs, exitOf[u] = r
        PROVE  /\ phase'[r] = "reported" /\ ~AtCall(r)'
               /\ \E q \in Procs : pid'[q] = pid'[r] /\ puppy'[q] = u /\ Listed(q)'
    <3>1. phase[r] = "reported" /\ ~AtCall(r)
      BY <2>1
    <3>2. PICK q \in Procs : pid[q] = pid[r] /\ puppy[q] = u /\ Listed(q)
      BY SMTT(30), <2>1
    <3>3. r # p /\ q # p
      BY <1>3, <3>1, <3>2 DEF SpawnFails
    <3>q. QED
      BY <1>3, <3>1, <3>2, <3>3 DEF SpawnFails
  <2>2. ASSUME NEW r \in Procs, phase'[r] = "reported"
        PROVE  AtCall(r)' \/ r \in overtaken' \/ Clash(r)' \/ pending' \/ exitOf'[puppy'[r]] # Nobody
    BY <1>3, <2>2, ClashStays DEF SpawnFails
  <2>q. QED
    BY <1>3, <2>1, <2>2 DEF SpawnFails
<1>r. ASSUME NEW p \in Procs, ReadStart(p)
      PROVE  StampInv'
  <2>1. \A r \in Procs : Listed(r)' <=> Listed(r)
    BY <1>r DEF ReadStart
  <2>2. UNCHANGED <<exitOf, phase, cb, pid, puppy, overtaken, hasty, pending>>
    BY <1>r DEF ReadStart
  <2>3. \A r \in Procs : Clash(r)' <=> Clash(r)
    BY <2>2 DEF Clash
  <2>q. QED
    BY <2>1, <2>2, <2>3
<1>4. ASSUME NEW p \in Procs, Lock(p)
      PROVE  StampInv'
  <2>1. \A r \in Procs : Listed(r)' <=> Listed(r)
    BY <1>4 DEF Lock
  <2>2. UNCHANGED <<exitOf, phase, cb, pid, puppy, overtaken, hasty, pending>>
    BY <1>4 DEF Lock
  <2>3. \A r \in Procs : Clash(r)' <=> Clash(r)
    BY <2>2 DEF Clash
  <2>q. QED
    BY <2>1, <2>2, <2>3
<1>5. ASSUME NEW p \in Procs, Insert(p)
      PROVE  StampInv'
  <2>1. \A r \in Procs : Listed(r)' <=> Listed(r)
    BY <1>5 DEF Insert
  <2>2. UNCHANGED <<exitOf, phase, cb, pid, puppy, overtaken, hasty, pending>>
    BY <1>5 DEF Insert
  <2>3. \A r \in Procs : Clash(r)' <=> Clash(r)
    BY <2>2 DEF Clash
  <2>q. QED
    BY <2>1, <2>2, <2>3
<1>6. ASSUME NEW p \in Procs, Put(p)
      PROVE  StampInv'
  <2>1. /\ pc' = [pc EXCEPT ![p] = "assign"]
        /\ UNCHANGED <<exitOf, phase, cb, pid, puppy, overtaken, hasty, pending>>
    BY <1>6 DEF Put
  <2>2. \A r \in Procs : Listed(r) => Listed(r)'
    BY <2>1
  <2>3. \A r \in Procs : Clash(r)' <=> Clash(r)
    BY <2>1 DEF Clash
  <2>q. QED
    BY <2>1, <2>2, <2>3
<1>7. ASSUME NEW p \in Procs, Assign(p)
      PROVE  StampInv'
  BY <1>7, ClashStays DEF Assign
<1>8. ASSUME NEW p \in Procs, DieOrEnd(p)
      PROVE  StampInv'
  BY <1>8, ClashStays DEF DieOrEnd
<1>9. ASSUME NEW p \in Procs, Report(p)
      PROVE  StampInv'
  BY <1>9, ClashStays DEF Report
<1>10. ASSUME NEW p \in Procs, TimerCb(p)
      PROVE  StampInv'
  BY <1>10, ClashStays DEF TimerCb
<1>11. ASSUME NEW p \in Procs, NEW s \in Streams, Deliver(p, s)
      PROVE  StampInv'
  <2>1. \A r \in Procs : AtCall(r)' <=> AtCall(r)
    BY <1>11, StreamsAssumption DEF Deliver
  <2>2. UNCHANGED <<exitOf, phase, pid, pc, puppy, overtaken, hasty, pending>>
    BY <1>11 DEF Deliver
  <2>3. \A r \in Procs : Clash(r)' <=> Clash(r)
    BY <2>2 DEF Clash
  <2>q. QED
    BY <2>1, <2>2, <2>3
<1>12. CASE JniFound
  BY <1>12, ClashStays DEF JniFound
<1>13. CASE JniMissing
  BY <1>13, ClashStays DEF JniMissing
<1>14. CASE CallUndefined
  BY <1>14, ClashStays DEF CallUndefined
<1>15. CASE Callback
  BY <1>15, ClashStays DEF Callback
<1>16. CASE Return
  BY <1>16, ClashStays DEF Return
<1>17. CASE Throw
  BY <1>17, ClashStays DEF Throw
<1>18. CASE Remove
  BY <1>18, ClashStays DEF Remove
<1>19. CASE LoopLock
  BY <1>19, ClashStays DEF LoopLock
<1>20. CASE Erase
  BY <1>20, ClashStays DEF Erase
<1>o. ASSUME UNCHANGED <<exitOf, phase, cb, pid, puppy, pc, overtaken, hasty, pending>>
      PROVE  StampInv'
  BY <1>o, ClashStays
<1>q. QED
  BY <1>r, <1>1, <1>2, <1>3, <1>4, <1>5, <1>6, <1>7, <1>8, <1>9, <1>10, <1>11, <1>12, <1>13, <1>14,
     <1>15, <1>16, <1>17, <1>18, <1>19, <1>20, <1>o DEF Next, StartStep, LoopStep, Write, Reap,
     SetListeners, Kill, KillCount, KillSend, Done, vars

\* A start() that returned remains so, with its DoryProcess and its pid.
LEMMA StartedStays ==
  ASSUME IInv, TypeOK', Next, NEW p \in Procs, pc[p] = "started"
  PROVE  pc'[p] = "started" /\ puppy'[p] = puppy[p] /\ pid'[p] = pid[p]
<1> USE DEF IInv, TypeOK
<1>1. ASSUME NEW q \in Procs, NEW v \in Puppies, Begin(q, v)
      PROVE  pc'[p] = "started" /\ puppy'[p] = puppy[p] /\ pid'[p] = pid[p]
  BY <1>1 DEF Begin
<1>2. ASSUME NEW q \in Procs, UvSpawn(q)
      PROVE  pc'[p] = "started" /\ puppy'[p] = puppy[p] /\ pid'[p] = pid[p]
  BY <1>2 DEF UvSpawn
<1>3. ASSUME NEW q \in Procs, ReadStart(q) \/ SpawnFails(q)
      PROVE  pc'[p] = "started" /\ puppy'[p] = puppy[p] /\ pid'[p] = pid[p]
  BY <1>3 DEF ReadStart, SpawnFails
<1>4. ASSUME NEW q \in Procs, Lock(q) \/ Insert(q) \/ Put(q) \/ Assign(q)
      PROVE  pc'[p] = "started" /\ puppy'[p] = puppy[p] /\ pid'[p] = pid[p]
  BY <1>4 DEF Lock, Insert, Put, Assign
<1>o. ASSUME UNCHANGED <<pc, puppy, pid>>
      PROVE  pc'[p] = "started" /\ puppy'[p] = puppy[p] /\ pid'[p] = pid[p]
  BY <1>o
<1>q. QED
  BY <1>1, <1>2, <1>3, <1>4, <1>o DEF Next, StartStep, LoopStep, Write, DieOrEnd, Reap, Report,
     TimerCb, Deliver, JniFound, JniMissing, CallUndefined, Callback, Return, Throw, Remove,
     LoopLock, Erase, SetListeners, Kill, KillCount, KillSend, Done, vars

\* Whose pid a DoryProcess holds, and whose a kill() was called with.
LEMMA KillStep ==
  ASSUME IInv, TypeOK', Next
  PROVE  KillInv'
<1>1. ASSUME NEW u \in Puppies, puppyPid[u] # NoPid
      PROVE  \E p \in Procs : pc'[p] = "started" /\ puppy'[p] = u /\ pid'[p] = puppyPid[u]
  BY <1>1, StartedStays DEF IInv, KillInv, Own
<1>2. ASSUME killer # NoKill
      PROVE  \E p \in Procs :
               pc'[p] = "started" /\ puppy'[p] = killer.puppy /\ pid'[p] = killer.pid
  BY <1>2, StartedStays DEF IInv, KillInv, Own
<1>3. ASSUME NEW p \in Procs, Assign(p)
      PROVE  KillInv'
  <2>1. /\ pc[p] = "assign" /\ killer' = killer
        /\ puppy' = puppy /\ pid' = pid
        /\ pc' = [pc EXCEPT ![p] = "started"]
        /\ puppyPid' = [puppyPid EXCEPT ![puppy[p]] = pid[p]]
    BY <1>3 DEF Assign
  <2>2. Own(p, puppy[p], pid[p])'
    BY <2>1 DEF Own, IInv, TypeOK
  <2>3. \A u \in Puppies : puppyPid'[u] = IF u = puppy[p] THEN pid[p] ELSE puppyPid[u]
    BY <2>1 DEF IInv, TypeOK
  <2>q. QED
    BY <1>1, <1>2, <2>1, <2>2, <2>3 DEF KillInv, Own
<1>4. ASSUME NEW u \in Killable, Kill(u)
      PROVE  KillInv'
  <2>1. /\ u \in Puppies /\ puppyPid[u] # NoPid
        /\ killer'.puppy = u /\ killer'.pid = puppyPid[u]
        /\ UNCHANGED <<pc, puppy, pid, puppyPid>>
    BY <1>4, KillableAssumption DEF Kill
  <2>q. QED
    BY <2>1 DEF IInv, KillInv, Own
<1>5. CASE KillCount
  <2>1. UNCHANGED <<pc, puppy, pid, puppyPid>>
    BY <1>5 DEF KillCount
  <2>2. killer \in [at : {"count", "send"}, puppy : Puppies, pid : Pids]
    BY <1>5 DEF KillCount, IInv, TypeOK, NoKill
  <2>3. killer # NoKill
    BY <1>5 DEF KillCount, NoKill
  <2>4. CASE killer' = [killer EXCEPT !.at = "send"]
    <3>1. killer'.puppy = killer.puppy /\ killer'.pid = killer.pid
      BY <2>2, <2>4
    <3>q. QED
      BY <2>1, <2>3, <3>1 DEF IInv, KillInv, Own
  <2>5. CASE killer' = NoKill
    BY <2>1, <2>5 DEF IInv, KillInv, Own
  <2>q. QED
    BY <1>5, <2>4, <2>5, Zenon DEF KillCount
<1>6. CASE KillSend
  BY <1>6 DEF KillSend, IInv, KillInv, Own
<1>o. ASSUME UNCHANGED <<puppyPid, killer>>
      PROVE  KillInv'
  BY <1>1, <1>2, <1>o DEF KillInv, Own
<1>q. QED
  BY <1>3, <1>4, <1>5, <1>6, <1>o DEF Next, StartStep, LoopStep, Begin, UvSpawn, ReadStart, SpawnFails,
     Lock, Insert, Put, Write, DieOrEnd, Reap, Report, TimerCb, Deliver, JniFound, JniMissing,
     CallUndefined, Callback, Return, Throw, Remove, LoopLock, Erase, SetListeners, Done, vars

\* The entry that was found stays.
LEMMA FoundEntryStep ==
  ASSUME IInv, TypeOK', Next
  PROVE  FoundEntryStays'
<1> USE DistinctAssumption DEF IInv, TypeOK, ChildInv, CbInv, FoundEntryStays, Entry, Exiting, Idle,
   Listed
<1>1. ASSUME NEW p \in Procs, Put(p)
      PROVE  FoundEntryStays'
  BY <1>1 DEF Put
<1>2. ASSUME NEW p \in Procs, Report(p)
      PROVE  FoundEntryStays'
  BY <1>2 DEF Report
<1>3. ASSUME NEW p \in Procs, TimerCb(p)
      PROVE  FoundEntryStays'
  BY <1>3 DEF TimerCb
<1>4. ASSUME NEW p \in Procs, NEW s \in Streams, Deliver(p, s)
      PROVE  FoundEntryStays'
  BY <1>4 DEF Deliver
<1>5. CASE JniFound
  BY <1>5 DEF JniFound
<1>6. CASE JniMissing
  BY <1>6 DEF JniMissing
<1>7. CASE CallUndefined
  BY <1>7 DEF CallUndefined
<1>8. CASE Callback
  BY <1>8 DEF Callback
<1>9. CASE Return
  BY <1>9 DEF Return
<1>10. CASE Throw
  BY <1>10 DEF Throw
<1>11. CASE Remove
  BY <1>11 DEF Remove
<1>12. CASE LoopLock
  BY <1>12 DEF LoopLock
<1>13. CASE Erase
  BY <1>13 DEF Erase
<1>o. ASSUME UNCHANGED <<javaList, cb>>
      PROVE  FoundEntryStays'
  BY <1>o
<1>q. QED
  BY <1>1, <1>2, <1>3, <1>4, <1>5, <1>6, <1>7, <1>8, <1>9, <1>10, <1>11, <1>12, <1>13, <1>o DEF
     Next, StartStep, LoopStep, Begin, UvSpawn, SpawnFails, ReadStart, Lock, Insert, Assign, Write,
     DieOrEnd, Reap, SetListeners, Kill, KillCount, KillSend, Done, vars

\* The exit goes to its owner.
LEMMA ExitReachesOwnerStep ==
  ASSUME IInv, TypeOK', Next
  PROVE  ExitReachesOwner'
<1> USE DistinctAssumption DEF IInv, TypeOK, Events, ChildInv, CbInv, ReportedInv, RegisteredInv,
   FoundEntryStays, ExitReachesOwner, Present, Entry, Exiting, Idle, Listed
<1>1. ASSUME NEW p \in Procs, NEW u \in Puppies, Begin(p, u)
      PROVE  ExitReachesOwner'
  BY <1>1, ClashStays DEF Begin
<1>2. ASSUME NEW p \in Procs, UvSpawn(p)
      PROVE  ExitReachesOwner'
  BY <1>2, ClashStays DEF UvSpawn, Free, ExitPending
<1>3. ASSUME NEW p \in Procs, Write(p)
      PROVE  ExitReachesOwner'
  BY <1>3, ClashStays DEF Write
<1>4. CASE JniFound
  BY <1>4, ClashStays DEF JniFound
<1>5. CASE JniMissing
  BY <1>5, ClashStays DEF JniMissing
<1>6. CASE CallUndefined
  BY <1>6, ClashStays DEF CallUndefined
<1>7. CASE Callback
  BY <1>7, ClashStays DEF Callback
<1>8. CASE Throw
  BY <1>8, ClashStays DEF Throw
<1>o. ASSUME UNCHANGED <<fate, overtaken, hasty, pid, puppy, pending>>
      PROVE  ExitReachesOwner'
  BY <1>o, ClashStays
<1>q. QED
  BY <1>1, <1>2, <1>3, <1>4, <1>5, <1>6, <1>7, <1>8, <1>o DEF Next, StartStep, LoopStep,
     SpawnFails, ReadStart, Lock, Insert, Put, Assign, DieOrEnd, Reap, Report, TimerCb, Deliver, Return,
     Remove, LoopLock, Erase, SetListeners, Kill, KillCount, KillSend, Done, vars

\* The entry that an exit finds is the one of its start.
LEMMA FoundIsOwn ==
  ASSUME IInv, NEW p \in Procs, NEW q \in Procs, Exiting(p), pid[q] = pid[p],
         Present(q) \/ q \in overtaken \/ pending
  PROVE  puppy[p] = puppy[q] \/ Clash(p) \/ pending
<1>1. CASE q = p
  BY <1>1
<1>2. CASE q # p /\ Present(q)
  <2>1. Open(q) /\ Open(p)
    BY <1>2 DEF Open, Present
  <2>q. QED
    BY <1>2, <2>1 DEF IInv, HastyInv, Clash
<1>3. CASE q # p /\ q \in overtaken
  BY <1>3 DEF Clash
<1>q. QED
  BY <1>1, <1>2, <1>3

\* So that the one it stamps is, too.
LEMMA StampedIsOwn ==
  ASSUME IInv, JniFound, NEW p \in Procs, Exiting(p)
  PROVE  /\ Entry(cb.pid) \in Puppies
         /\ puppy[p] = Entry(cb.pid) \/ Clash(p) \/ pending
<1>1. cb.pid = pid[p] /\ pid[p] \in Pids
  BY DEF IInv, CbInv, ChildInv, Exiting
<1>2. /\ Entry(cb.pid) = javaList[pid[p]] /\ javaList[pid[p]] # Nobody
      /\ Entry(cb.pid) \in Puppies
  BY <1>1 DEF JniFound, Entry, IInv, TypeOK
<1>3. PICK q \in Procs : /\ pid[q] = pid[p] /\ puppy[q] = javaList[pid[p]]
                         /\ Present(q) \/ q \in overtaken \/ pending
  BY <1>1, <1>2 DEF IInv, JavaEntryInv
<1>4. puppy[p] = puppy[q] \/ Clash(p) \/ pending
  BY <1>3, FoundIsOwn
<1>q. QED
  BY <1>2, <1>3, <1>4

\* The exit value is that of an own child.
LEMMA ExitValueIsOwnStep ==
  ASSUME IInv, TypeOK', Next
  PROVE  ExitValueIsOwn'
<1> USE DistinctAssumption DEF IInv, TypeOK, ChildInv, ExitValueIsOwn, Idle
<1>1. ASSUME NEW p \in Procs, NEW u \in Puppies, Begin(p, u)
      PROVE  ExitValueIsOwn'
  BY <1>1, ClashStays DEF Begin
<1>2. ASSUME NEW p \in Procs, UvSpawn(p)
      PROVE  ExitValueIsOwn'
  BY <1>2, ClashStays DEF UvSpawn, Free, ExitPending
<1>3. CASE JniFound
  <2> DEFINE p == cb.proc
             v == Entry(cb.pid)
  <2>1. \A q \in Procs : Clash(q) => Clash(q)'
    BY ClashStays
  <2>2. /\ UNCHANGED <<puppy, pid, hasty, pending>> /\ p \in Procs
        /\ exitOf' = IF cb.ev = "exit" THEN [exitOf EXCEPT ![v] = p] ELSE exitOf
    BY <1>3 DEF JniFound
  <2>3. CASE cb.ev # "exit"
    BY <2>1, <2>2, <2>3
  <2>4. CASE cb.ev = "exit"
    <3>1. v \in Puppies /\ (puppy[p] = v \/ Clash(p) \/ pending)
      BY <1>3, <2>2, <2>4, StampedIsOwn DEF Exiting
    <3>q. QED
      BY <2>1, <2>2, <2>4, <3>1
  <2>q. QED
    BY <2>3, <2>4
<1>4. CASE JniMissing
  BY <1>4, ClashStays DEF JniMissing
<1>5. CASE CallUndefined
  BY <1>5, ClashStays DEF CallUndefined
<1>6. CASE Throw
  BY <1>6, ClashStays DEF Throw
<1>o. ASSUME UNCHANGED <<exitOf, puppy, pid, hasty, overtaken, pending>>
      PROVE  ExitValueIsOwn'
  BY <1>o, ClashStays
<1>q. QED
  BY SMTT(30), <1>1, <1>2, <1>3, <1>4, <1>5, <1>6, <1>o
  DEF Next, StartStep, LoopStep, SpawnFails, ReadStart, Lock,
     Insert, Put, Assign, Write, DieOrEnd, Reap, Report, TimerCb, Deliver, Callback, Return,
     Remove, LoopLock, Erase, SetListeners, Kill, KillCount, KillSend, Done, vars

-----------------------------------------------------------------------------
(* The invariant *)

LEMMA IInvInit == Init => IInv
<1> SUFFICES ASSUME Init
             PROVE  IInv
  OBVIOUS
<1>1. TypeOK
  BY TypeInit
<1>2. /\ cb = Idle /\ nativeList = {} /\ killer = NoKill /\ reaped = {} /\ armed = {}
      /\ overtaken = {} /\ hasty = {}
      /\ \A p \in Procs : /\ phase[p] = "idle" /\ pc[p] = "idle" /\ pid[p] = NoPid
                          /\ puppy[p] = Nobody
                          /\ \A e \in Events : fate[p][e] = "none"
      /\ \A n \in Pids : javaList[n] = Nobody
      /\ \A u \in Puppies : exitOf[u] = Nobody
  BY DEF Init, Contract!Init
<1>3. \A p \in Procs : ChildInv(p) /\ ReportedInv(p) /\ RegisteredInv(p)
  BY <1>2 DEF ChildInv, ReportedInv, RegisteredInv, Inserted, Listed, Events
<1>4. CbInv /\ MutexInv /\ FoundEntryStays
  BY <1>2 DEF CbInv, MutexInv, FoundEntryStays, Idle, NoKill
<1>7. KillInv
  BY <1>2 DEF KillInv, Init
<1>5. HastyInv /\ NativeEntryInv /\ JavaEntryInv /\ BothInv
  BY <1>2 DEF HastyInv, NativeEntryInv, JavaEntryInv, BothInv, Open, Exiting, Idle
<1>6. StampInv /\ ExitReachesOwner /\ ExitValueIsOwn
  BY <1>2 DEF StampInv, ExitReachesOwner, ExitValueIsOwn, Events
<1>q. QED
  BY <1>1, <1>3, <1>4, <1>5, <1>6, <1>7 DEF IInv

LEMMA IInvStep == IInv /\ [Next]_vars => IInv'
<1>1. ASSUME IInv, Next
      PROVE  IInv'
  <2>1. TypeOK'
    BY <1>1, TypeStep DEF IInv
  <2>2. \A p \in Procs : ChildInv(p)' /\ ReportedInv(p)' /\ RegisteredInv(p)'
    BY <1>1, <2>1, ChildStep, ReportedStep, RegisteredStep
  <2>3. CbInv' /\ MutexInv' /\ HastyInv'
    BY <1>1, <2>1, CbStep, MutexStep, HastyStep
  <2>4. NativeEntryInv' /\ JavaEntryInv' /\ BothInv'
    BY <1>1, <2>1, NativeEntryStep, JavaEntryStep, BothStep
  <2>5. StampInv' /\ KillInv' /\ FoundEntryStays'
    BY <1>1, <2>1, StampStep, KillStep, FoundEntryStep
  <2>6. ExitReachesOwner' /\ ExitValueIsOwn'
    BY <1>1, <2>1, ExitReachesOwnerStep, ExitValueIsOwnStep
  <2>q. QED
    BY <2>1, <2>2, <2>3, <2>4, <2>5, <2>6 DEF IInv
<1>2. ASSUME IInv, UNCHANGED vars
      PROVE  IInv'
  BY <1>2 DEF vars, IInv, TypeOK, ChildInv, ReportedInv, RegisteredInv, CbInv, MutexInv, HastyInv,
     NativeEntryInv, JavaEntryInv, BothInv, StampInv, KillInv, Own, FoundEntryStays,
     ExitReachesOwner, ExitValueIsOwn, Exiting, Open, Inserted, Listed, Present, AtCall, Entry, Clash
<1>q. QED
  BY <1>1, <1>2

\* Everything above holds in every state the two registries come to.
THEOREM Invariant == Spec => []IInv
  BY IInvInit, IInvStep, PTL DEF Spec

-----------------------------------------------------------------------------
(* What it says of the registries *)

\* Every variable keeps its type.
THEOREM TypeCorrect == Spec => []TypeOK
<1>1. IInv => TypeOK
  BY DEF IInv
<1>q. QED
  BY <1>1, Invariant, PTL

\* A process that runs and whose start() returned can be killed and is listened to.
THEOREM LiveIsRegisteredHolds == Spec => []LiveIsRegistered
<1>1. ASSUME IInv
      PROVE  LiveIsRegistered
  <2>1. ASSUME NEW p \in Procs, pc[p] = "started", p \notin reaped
        PROVE  Inserted(p) /\ Listed(p) /\ Open(p) /\ Present(p)
    <3>1. phase[p] \in {"idle", "live", "dead", "failed", "reported"} /\ ChildInv(p)
      BY <1>1 DEF IInv, TypeOK
    <3>q. QED
      BY <2>1, <3>1 DEF ChildInv, Inserted, Listed, Open, Present
  <2>q. QED
    BY <1>1, <2>1 DEF IInv, RegisteredInv, LiveIsRegistered
<1>q. QED
  BY <1>1, Invariant, PTL

\* The entry that containsKey found is there for get.
THEOREM FoundEntryStaysHolds == Spec => []FoundEntryStays
<1>1. IInv => FoundEntryStays
  BY DEF IInv
<1>q. QED
  BY <1>1, Invariant, PTL

\* The exit goes to the DoryProcess that was started.
THEOREM ExitReachesOwnerHolds == Spec => []ExitReachesOwner
<1>1. IInv => ExitReachesOwner
  BY DEF IInv
<1>q. QED
  BY <1>1, Invariant, PTL

\* An exit value is that of an own child.
THEOREM ExitValueIsOwnHolds == Spec => []ExitValueIsOwn
<1>1. IInv => ExitValueIsOwn
  BY DEF IInv
<1>q. QED
  BY <1>1, Invariant, PTL

\* Once things have settled no entry is left behind.
THEOREM NoStaleEntriesHolds == Spec => []NoStaleEntries
<1>1. ASSUME IInv, Settled, NEW n \in Pids, (javaList[n] # Nobody /\ ~pending) \/ n \in nativeList
      PROVE  \E p \in Procs : pid[p] = n /\ (phase[p] \in {"live", "dead"} \/ p \in overtaken)
  <2>1. \A p \in Procs : ~Exiting(p)
    BY <1>1 DEF Settled, Exiting
  <2>2. CASE n \in nativeList
    BY <1>1, <2>1, <2>2 DEF IInv, NativeEntryInv, Open
  <2>3. CASE javaList[n] # Nobody /\ ~pending
    BY <1>1, <2>1, <2>3 DEF IInv, JavaEntryInv, Present
  <2>q. QED
    BY <1>1, <2>2, <2>3
<1>2. IInv => NoStaleEntries
  BY <1>1 DEF NoStaleEntries
<1>q. QED
  BY <1>2, Invariant, PTL

\* Once things have settled what can be killed has its listeners.
THEOREM NativeImpliesJavaHolds == Spec => []NativeImpliesJava
<1>1. ASSUME IInv, Settled
      PROVE  cb.at \notin {"lock", "erase"} /\ \A p \in Procs : pc[p] # "put"
  BY <1>1 DEF Settled, IInv, CbInv, Idle
<1>2. IInv => NativeImpliesJava
  BY <1>1 DEF IInv, BothInv, NativeImpliesJava
<1>q. QED
  BY <1>2, Invariant, PTL

\* isRunning() tells whether the exit was handled.
THEOREM RunningIsAccurateHolds == Spec => []RunningIsAccurate
<1>1. ASSUME IInv, NEW p \in Procs, pc[p] = "started",
             \A q \in Procs \ {p} : puppy[q] # puppy[p],
             p \notin overtaken, ~Clash(p), ~pending
      PROVE  Running(puppy[p]) <=> phase[p] \in {"live", "dead"} \/ AtCall(p)
  <2> DEFINE u == puppy[p]
             o == exitOf[u]
  <2>1. /\ u \in Puppies /\ puppyPid[u] # NoPid
        /\ phase[p] \in {"live", "dead", "reported"}
        /\ o \in Procs \cup {Nobody}
    BY <1>1 DEF IInv, TypeOK, ChildInv
  <2>2. ASSUME phase[p] = "reported", ~AtCall(p)
        PROVE  o # Nobody
    BY <1>1, <2>2 DEF IInv, StampInv
  <2>3. ASSUME o # Nobody
        PROVE  phase[p] = "reported" /\ ~AtCall(p)
    <3>1. /\ o \in Procs /\ phase[o] = "reported" /\ ~AtCall(o)
          /\ \E q \in Procs : pid[q] = pid[o] /\ puppy[q] = u
      BY <1>1, <2>1, <2>3 DEF IInv, StampInv
    <3>2. pid[p] = pid[o]
      BY <1>1, <3>1
    <3>3. ~Clash(o)
      BY <1>1, <3>2 DEF Clash
    <3>4. puppy[o] = u
      BY <1>1, <2>1, <2>3, <3>3 DEF IInv, ExitValueIsOwn
    <3>5. o = p
      BY <1>1, <3>1, <3>4
    <3>q. QED
      BY <3>1, <3>5
  <2>4. Running(u) <=> o = Nobody
    BY <2>1 DEF Running
  <2>5. AtCall(p) => phase[p] = "reported"
    BY <1>1 DEF IInv, CbInv, AtCall, Exiting
  <2>q. QED
    BY <2>1, <2>2, <2>3, <2>4, <2>5
<1>2. IInv => RunningIsAccurate
  BY <1>1 DEF RunningIsAccurate, AtCall, Exiting
<1>q. QED
  BY <1>2, Invariant, PTL

-----------------------------------------------------------------------------
(* What no step does *)

\* While an event of p other than its exit is delivered, its entry is there, unless ...
LEMMA EntryOfEvent ==
  ASSUME IInv, NEW p \in Procs, NEW e \in {"stdout", "stderr", "timeout"},
         cb.proc = p, cb.ev = e, cb.at \in {"call", "callback"}, cb.pid = pid[p],
         pc[p] \notin {"spawn", "read", "lock", "insert", "put", "threw"},
         e = "stdout" => fate[p]["exit"] = "none"
  PROVE  puppy[p] # Nobody /\ (Entry(cb.pid) = puppy[p] \/ Clash(p))
<1>1. cb # Idle
  BY DEF Idle
<1>2. pc[p] \in {"assign", "started"} /\ puppy[p] # Nobody
  BY <1>1 DEF IInv, TypeOK, Steps, CbInv, ChildInv
<1>3. phase[p] \in {"live", "dead", "reported"}
  BY <1>2 DEF IInv, TypeOK, ChildInv
<1>4. phase[p] # "reported"
  <2> SUFFICES ASSUME phase[p] = "reported"
               PROVE  FALSE
    OBVIOUS
  <2>1. p \in reaped /\ p \in ended
    BY DEF IInv, ChildInv
  <2>2. CASE e = "timeout"
    BY <2>1, <2>2 DEF IInv, CbInv
  <2>3. CASE e = "stderr"
    BY <2>1, <2>3 DEF IInv, CbInv, ReportedInv
  <2>4. CASE e = "stdout"
    BY <2>4 DEF IInv, ReportedInv, Exiting
  <2>q. QED
    BY <2>2, <2>3, <2>4
<1>q. QED
  BY <1>2, <1>3, <1>4 DEF IInv, RegisteredInv, Listed, Present

\* Output and timeouts get lost only as EventsReachOwner says.
THEOREM EventsReachOwnerHolds == Spec => EventsReachOwner
<1> DEFINE Excused(p, e) ==
             \/ pc[p] \in {"spawn", "read", "lock", "insert", "put", "threw"} \/ cb.pid # pid[p]
             \/ e = "stdout" /\ fate[p]["exit"] # "none"
             \/ puppy[p] \in deaf \/ pending
             \/ Clash(p)
<1>1. ASSUME IInv, Next, NEW p \in Procs, NEW e \in {"stdout", "stderr", "timeout"}, Lost(p, e)
      PROVE  Excused(p, e)
  <2>1. fate \in [Procs -> [Events -> Fates]] /\ e \in Events
    BY <1>1 DEF IInv, TypeOK, Events
  <2>2. ASSUME NEW q \in Procs, Write(q)
        PROVE  FALSE
    BY <1>1, <2>1, <2>2 DEF Write, Lost, Events
  <2>3. CASE CallUndefined
    BY <2>3 DEF CallUndefined
  <2>4. ASSUME JniMissing \/ Callback
        PROVE  Excused(p, e)
    <3>1. cb.proc = p /\ cb.ev = e
      BY <1>1, <2>1, <2>4 DEF JniMissing, Callback, Lost
    <3>2. CASE JniMissing
      BY <1>1, <3>1, <3>2, EntryOfEvent DEF JniMissing
    <3>3. CASE Callback
      <4>1. Entry(cb.pid) = Nobody \/ Entry(cb.pid) \in deaf \/ Entry(cb.pid) # puppy[p]
        BY <1>1, <2>1, <3>1, <3>3 DEF Callback, Lost
      <4>q. QED
        BY <1>1, <3>1, <3>3, <4>1, EntryOfEvent DEF Callback
    <3>q. QED
      BY <2>4, <3>2, <3>3
  <2>5. ASSUME UNCHANGED fate
        PROVE  FALSE
    BY <1>1, <2>5 DEF Lost
  <2>q. QED
    BY <1>1, <2>2, <2>3, <2>4, <2>5 DEF Next, StartStep, LoopStep, Begin, UvSpawn, SpawnFails, ReadStart, Lock,
       Insert, Put, Assign, DieOrEnd, Reap, Report, TimerCb, Deliver, JniFound, Return, Throw,
       Remove, LoopLock, Erase, SetListeners, Kill, KillCount, KillSend, Done, vars
<1>2. ASSUME IInv, UNCHANGED vars, NEW p \in Procs, NEW e \in {"stdout", "stderr", "timeout"}
      PROVE  ~Lost(p, e)
  BY <1>2 DEF vars, Lost
<1>3. IInv /\ [Next]_vars =>
        [\A p \in Procs, e \in {"stdout", "stderr", "timeout"} :
           Lost(p, e) =>
             \/ pc[p] \in {"spawn", "read", "lock", "insert", "put", "threw"} \/ cb.pid # pid[p]
             \/ e = "stdout" /\ fate[p]["exit"] # "none"
             \/ puppy[p] \in deaf \/ pending
             \/ Clash(p)]_vars
  BY <1>1, <1>2
<1>q. QED
  BY <1>3, Invariant, PTL DEF Spec, EventsReachOwner

\* The application ends only as CrashNeedsRace says.
THEOREM CrashNeedsRaceHolds == Spec => CrashNeedsRace
<1>1. ASSUME IInv, Next, up, ~up'
      PROVE  raced \/ (cb.at = "call" /\ pending)
  <2>1. CASE CallUndefined
    BY <2>1, Zenon DEF CallUndefined
  <2>2. CASE KillSend
    <3>1. killer.at = "send" /\ (killer.pid \notin nativeList \/ mutex # "free")
      BY <1>1, <2>2 DEF KillSend
    <3>2. killer # NoKill
      BY <3>1 DEF NoKill
    <3>3. raced
      BY <1>1, <3>1, <3>2, Zenon DEF IInv, MutexInv
    <3>q. QED
      BY <3>3, Zenon
  <2>3. ASSUME up' = up
        PROVE  FALSE
    BY <1>1, <2>3, Zenon
  <2>4. Next => CallUndefined \/ KillSend \/ up' = up
    BY DEF Next, StartStep, LoopStep, Begin, UvSpawn, SpawnFails, ReadStart, Lock, Insert, Put, Assign, Write,
       DieOrEnd, Reap, Report, TimerCb, Deliver, JniFound, JniMissing, Callback, Return, Throw,
       Remove, LoopLock, Erase, SetListeners, Kill, KillCount, Done, vars
  <2>q. QED
    BY <1>1, <2>1, <2>2, <2>3, <2>4, Zenon
<1>2. IInv /\ [Next]_vars => [up /\ ~up' => raced \/ (cb.at = "call" /\ pending)]_vars
  BY <1>1, Zenon
<1>q. QED
  BY <1>2, Invariant, PTL DEF Spec, CrashNeedsRace

\* While isRunning() says so, the pid of a kill() is that of an own child.
LEMMA RunningIsOwn ==
  ASSUME IInv, killer # NoKill, Running(killer.puppy), ~pending
  PROVE  \E p \in Procs :
           /\ puppy[p] = killer.puppy
           /\ Reachable(p, killer.pid) \/ (Clash(p) /\ pid[p] = killer.pid)
<1>1. PICK p \in Procs : Own(p, killer.puppy, killer.pid)
  BY DEF IInv, KillInv
<1>2. phase[p] \in {"live", "dead", "reported"}
  BY <1>1 DEF IInv, TypeOK, ChildInv, Own
<1>3. CASE phase[p] = "live"
  BY <1>1, <1>3 DEF IInv, ChildInv, Own, Reachable
<1>4. CASE phase[p] = "dead"
  BY <1>1, <1>4 DEF Own, Reachable, ExitPending
<1>5. CASE phase[p] = "reported"
  <2>1. AtCall(p) \/ p \in overtaken \/ Clash(p) \/ exitOf[puppy[p]] # Nobody
    BY <1>5 DEF IInv, StampInv
  <2>q. QED
    BY <1>1, <2>1 DEF Own, Reachable, ExitPending, AtCall, Exiting, Running
<1>q. QED
  BY <1>2, <1>3, <1>4, <1>5

\* kill() meets the right child, except as KillOnTarget says.
THEOREM KillOnTargetHolds == Spec => KillOnTarget
<1>1. ASSUME IInv, Next, killer.at = "send", killer' = NoKill, up'
      PROVE  /\ killer # NoKill
             /\ \E p \in Procs : Reachable(p, killer.pid)
  <2>1. killer # NoKill
    BY <1>1 DEF NoKill
  <2>2. KillSend
    BY ZenonT(30), <1>1, <2>1
    DEF Next, StartStep, LoopStep, Begin, UvSpawn, SpawnFails, ReadStart, Lock, Insert, Put,
       Assign, Write, DieOrEnd, Reap, Report, TimerCb, Deliver, JniFound, JniMissing, Callback,
       CallUndefined, Return, Throw, Remove, LoopLock, Erase, SetListeners, Kill, KillCount,
       Done, vars
  <2>3. killer.pid \in nativeList
    BY <1>1, <2>2, Zenon DEF KillSend, Contract!Crash
  <2>4. PICK p \in Procs : pid[p] = killer.pid /\ (Open(p) \/ p \in overtaken)
    BY <1>1, <2>3 DEF IInv, NativeEntryInv
  <2>5. Open(p) => p \notin reaped \/ ExitPending(p)
    BY <1>1 DEF IInv, ChildInv, Open, Exiting, ExitPending
  <2>q. QED
    BY <2>1, <2>4, <2>5 DEF Reachable
<1>2. ASSUME IInv, UNCHANGED vars
      PROVE  ~(killer.at = "send" /\ killer' = NoKill)
  BY <1>2 DEF vars, NoKill
<1>3. IInv /\ [Next]_vars =>
        [killer.at = "send" /\ killer' = NoKill /\ up' =>
           /\ \E p \in Procs : Reachable(p, killer.pid)
           /\ Running(killer.puppy) /\ ~pending =>
                \E p \in Procs :
                  /\ puppy[p] = killer.puppy
                  /\ Reachable(p, killer.pid) \/ (Clash(p) /\ pid[p] = killer.pid)]_vars
  BY <1>1, <1>2, RunningIsOwn
<1>q. QED
  BY <1>3, Invariant, PTL DEF Spec, KillOnTarget

=============================================================================
