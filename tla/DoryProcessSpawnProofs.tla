----------------------- MODULE DoryProcessSpawnProofs -----------------------
(***************************************************************************)
(* Theorems about DoryProcessSpawn, for every number of objects, pids and  *)
(* chunks a pipe can hold, and the proof that it implements ExitReport.    *)
(***************************************************************************)
EXTENDS DoryProcessSpawn, TLAPS

-----------------------------------------------------------------------------
(* The inductive invariant: what spawn() and the callbacks keep true. *)

\* A child exists once uv_spawn succeeded; exit_cb follows the reaping.
ChildInv(p) ==
  /\ procPid[p] = NoPid <=> child[p] = "none"
  /\ pc[p] \in {"construct", "timer", "uv_spawn"} => child[p] = "none"
  /\ pc[p] \in {"list", "pid", "readOut", "readErr", "ok"} => child[p] # "none"
  /\ exited[p] => child[p] = "reaped"

\* Two children that were not reaped have different pids.
UniquePids ==
  \A p, q \in Procs : Alive(p) /\ Alive(q) /\ procPid[p] = procPid[q] => p = q

\* pid is assigned before the first pipe is read, and stderr is read last.
PidInv(p) ==
  /\ pc[p] \in {"readOut", "readErr", "ok"} \/ pipeOut[p] # "init"
       => child[p] # "none" /\ pid[p] = procPid[p]
  /\ pipeErr[p] # "init" => pc[p] = "ok"

\* The timer is started at most once and does not outlive exit_cb.
TimerInv(p) ==
  /\ pc[p] \in {"construct", "timer"} => timer[p] = "raw"
  /\ exited[p] => timer[p] # "active"

\* The callback that closes stderr sets stderrFlushed, and the two halves of the
\* exit condition make one report.
ReportInv(p) ==
  /\ stderrFlushed[p] <=> pipeErr[p] = "closed"
  /\ stderrFlushed[p] => (errUnread[p] = 0 /\ ~errOpen[p]) \/ p \in broken
  /\ exitEvents[p] = IF exited[p] /\ stderrFlushed[p] THEN 1 ELSE 0

\* While the timer callback runs, its child was not reaped.
CbInv ==
  cb.ev \in {"timeout", "sigkill"} =>
    timer[cb.proc] = "closed" /\ ~exited[cb.proc] /\ child[cb.proc] # "reaped"

\* A deadline that passed has been, is being, or can never be enforced.
DeadlineInv(p) ==
  timer[p] = "closed" /\ child[p] \in {"none", "running"} =>
    \/ doomed[p]
    \/ cb.proc = p /\ cb.ev \in {"timeout", "sigkill"}
    \/ FiredTooEarly(p)

IInv ==
  /\ TypeOK
  /\ \A p \in Procs : ChildInv(p) /\ PidInv(p) /\ TimerInv(p) /\ ReportInv(p) /\ DeadlineInv(p)
  /\ UniquePids
  /\ CbInv
  /\ EventsCarryPid
  /\ TimerKillOnTarget
  /\ OnlyOwnChildKilled
  /\ AbortOnlyByRawTimer

-----------------------------------------------------------------------------
USE DEF pidVars, pipeVars, flagVars, objectVars, openVars, unreadVars,
        streamVars, lifeVars, childVars, historyVars, loopVars, At, Goto

(***************************************************************************)
(* A SIGKILL dooms the child that owns the pid, and records a stray when   *)
(* that is not the object's own child.                                     *)
(***************************************************************************)
LEMMA SigKillEffect ==
  ASSUME TypeOK, NEW p \in Procs, NEW site \in Sites, SigKill(p, site)
  PROVE  /\ doomed' \in [Procs -> BOOLEAN]
         /\ app' \in {app, "killed"}
         /\ strays' = strays \cup Stray(p, site)
         /\ Stray(p, site) \in SUBSET Strays
         /\ \A q \in Procs : doomed[q] => doomed'[q]
         /\ ProcessPid(p) # NoPid => app' = app
         /\ ProcessPid(p) # NoPid =>
              \A q \in Procs :
                doomed'[q] <=> \/ doomed[q]
                               \/ child[q] = "running" /\ procPid[q] = ProcessPid(p)
<1>1. strays' = strays \cup Stray(p, site) /\ Stray(p, site) \in SUBSET Strays
  BY DEF SigKill, Stray, Strays
<1>2. CASE ProcessPid(p) = NoPid
  <2>1. CASE app' = "killed" /\ doomed' = doomed
    BY <1>1, <1>2, <2>1 DEF TypeOK
  <2>2. CASE \E hit \in WildReceivers :
               doomed' = [q \in Procs |-> doomed[q] \/ q \in hit] /\ app' = app
    BY <1>1, <1>2, <2>2 DEF TypeOK
  <2>q. QED
    BY <1>2, <2>1, <2>2 DEF SigKill
<1>3. CASE ProcessPid(p) # NoPid
  <2>1. /\ app' = app
        /\ doomed' = [q \in Procs |->
             doomed[q] \/ q \in {r \in Procs : child[r] = "running" /\ procPid[r] = ProcessPid(p)}]
    BY <1>3 DEF SigKill, Receivers
  <2>q. QED
    BY <1>1, <1>3, <2>1 DEF TypeOK
<1>q. QED
  BY <1>2, <1>3

-----------------------------------------------------------------------------
LEMMA TypeInit == Init => TypeOK
<1> SUFFICES ASSUME Init
             PROVE  TypeOK
  OBVIOUS
<1>1. sigchld \in BOOLEAN
  BY Zenon DEF Init
<1>q. QED
  BY <1>1, PidAssumption, PipeAssumption DEF Init, TypeOK, Statements, Callbacks, Strays

\* Every step keeps every variable in its type.
LEMMA TypeStep == TypeOK /\ [Next]_vars => TypeOK'
<1> SUFFICES ASSUME TypeOK, Next
             PROVE  TypeOK'
  BY DEF vars, TypeOK
<1>1. ASSUME NEW p \in Procs, Construct(p)
      PROVE  TypeOK'
  BY <1>1 DEF TypeOK, Construct, Statements
<1>2. ASSUME NEW p \in Procs, StartTimer(p)
      PROVE  TypeOK'
  BY <1>2 DEF TypeOK, StartTimer, Statements
<1>3. ASSUME NEW p \in Procs, Fork(p)
      PROVE  TypeOK'
  BY <1>3 DEF TypeOK, Fork, Free, Statements
<1>0. ASSUME NEW p \in Procs, List(p)
      PROVE  TypeOK'
  BY <1>0 DEF TypeOK, List, Statements
<1>4. ASSUME NEW p \in Procs, UvSpawnFails(p)
      PROVE  TypeOK'
  BY <1>4 DEF TypeOK, UvSpawnFails, Statements
<1>5. ASSUME NEW p \in Procs, SetPid(p)
      PROVE  TypeOK'
  BY <1>5 DEF TypeOK, SetPid, Statements
<1>6. ASSUME NEW p \in Procs, ReadStartOut(p)
      PROVE  TypeOK'
  BY <1>6 DEF TypeOK, ReadStartOut, Statements
<1>7. ASSUME NEW p \in Procs, ReadStartErr(p)
      PROVE  TypeOK'
  BY <1>7 DEF TypeOK, ReadStartErr, Statements
<1>8. ASSUME NEW p \in Procs, ReadStartFails(p)
      PROVE  TypeOK'
  <2>1. "spawn" \in Sites /\ SigKill(p, "spawn")
    BY <1>8 DEF Sites, ReadStartFails
  <2>q. QED
    BY <1>8, <2>1, SigKillEffect DEF TypeOK, ReadStartFails, Statements
<1>9. ASSUME NEW p \in Procs, TimerCb(p)
      PROVE  TypeOK'
  BY <1>9 DEF TypeOK, TimerCb, ClearTimer, UvClose, Emit, Callbacks, Events
<1>10. ASSUME NEW p \in Procs, TimerKill(p)
       PROVE  TypeOK'
  <2>1. "timer" \in Sites /\ SigKill(p, "timer")
    BY <1>10 DEF Sites, TimerKill
  <2>q. QED
    BY <1>10, <2>1, SigKillEffect DEF TypeOK, TimerKill, Callbacks
<1>11. ASSUME NEW p \in Procs, ExitCb(p)
       PROVE  TypeOK'
  <2>1. timer' \in [Procs -> {"raw", "active", "closed"}] /\ app' \in {app, "aborted"}
    BY <1>11 DEF TypeOK, ExitCb, ClearTimer, UvClose
  <2>2. exited' \in [Procs -> BOOLEAN]
    BY <1>11 DEF TypeOK, ExitCb
  <2>3. cb' \in Callbacks /\ exitEvents' \in [Procs -> Nat]
    BY <1>11 DEF TypeOK, ExitCb, EmitExitIf, Emit, Callbacks, Events
  <2>q. QED
    BY <1>11, <2>1, <2>2, <2>3 DEF TypeOK, ExitCb
<1>13. ASSUME NEW p \in Procs, StdoutData(p)
       PROVE  TypeOK'
  BY <1>13, PipeAssumption DEF TypeOK, StdoutData, Emit, Callbacks, Events
<1>14. ASSUME NEW p \in Procs, StdoutEof(p)
       PROVE  TypeOK'
  BY <1>14 DEF TypeOK, StdoutEof
<1>15. ASSUME NEW p \in Procs, StdoutError(p)
       PROVE  TypeOK'
  BY <1>15 DEF TypeOK, StdoutError, SigTerm, Stray, Strays, Sites
<1>16. ASSUME NEW p \in Procs, StderrData(p)
       PROVE  TypeOK'
  BY <1>16, PipeAssumption DEF TypeOK, StderrData, Emit, Callbacks, Events
<1>17. ASSUME NEW p \in Procs, StderrEof(p)
       PROVE  TypeOK'
  BY <1>17 DEF TypeOK, StderrEof, CloseStderr, EmitExitIf, Emit, Callbacks,
     Events
<1>18. ASSUME NEW p \in Procs, StderrError(p)
       PROVE  TypeOK'
  BY <1>18 DEF TypeOK, StderrError, CloseStderr, EmitExitIf, Emit, Callbacks,
     Events, SigTerm, Stray, Strays, Sites
<1>19. ASSUME NEW p \in Procs, Write(p)
       PROVE  TypeOK'
  BY <1>19, PipeAssumption DEF TypeOK, Write
<1>20. ASSUME NEW p \in Procs, CloseStream(p)
       PROVE  TypeOK'
  BY ZenonT(30), <1>20 DEF TypeOK, CloseStream
<1>21. ASSUME NEW p \in Procs, Die(p)
       PROVE  TypeOK'
  BY <1>21 DEF TypeOK, Die
<1>22. CASE Return
  BY <1>22 DEF TypeOK, Return, Callbacks, Events, Idle
<1>23. CASE Sigchld
  BY <1>23 DEF TypeOK, Sigchld
<1>24. CASE Done
  BY <1>24 DEF TypeOK, Done, vars
<1>q. QED
  BY <1>1, <1>2, <1>3, <1>4, <1>5, <1>6, <1>7, <1>8, <1>9, <1>10, <1>11, <1>0,
     <1>13, <1>14, <1>15, <1>16, <1>17, <1>18, <1>19, <1>20, <1>21, <1>22,
     <1>23, <1>24 DEF Next, SpawnStep, LoopStep, ChildStep

THEOREM TypeCorrect == Spec => []TypeOK
<1>1. Init => TypeOK
  BY TypeInit
<1>2. TypeOK /\ [Next]_vars => TypeOK'
  BY TypeStep
<1>q. QED
  BY <1>1, <1>2, PTL DEF Spec

-----------------------------------------------------------------------------
LEMMA IInvInit == Init => IInv
<1> SUFFICES ASSUME Init
             PROVE  IInv
  OBVIOUS
<1>1. TypeOK
  BY TypeInit
<1>2. ASSUME NEW p \in Procs
      PROVE  ChildInv(p) /\ PidInv(p) /\ TimerInv(p) /\ ReportInv(p) /\ DeadlineInv(p)
  BY <1>2 DEF Init, ChildInv, PidInv, TimerInv, ReportInv, DeadlineInv
<1>3. UniquePids /\ CbInv /\ EventsCarryPid
  BY DEF Init, UniquePids, Alive, CbInv, EventsCarryPid, Idle
<1>4. TimerKillOnTarget /\ OnlyOwnChildKilled /\ AbortOnlyByRawTimer
  BY DEF Init, TimerKillOnTarget, OnlyOwnChildKilled, AbortOnlyByRawTimer
<1>q. QED
  BY <1>1, <1>2, <1>3, <1>4 DEF IInv

\* Every step keeps the inductive invariant.
LEMMA IInvStep == IInv /\ [Next]_vars => IInv'
<1> SUFFICES ASSUME IInv, Next
             PROVE  IInv'
  BY DEF vars, IInv, TypeOK, KillWentAstray, ChildInv, PidInv, TimerInv,
     ReportInv, DeadlineInv, UniquePids, CbInv, EventsCarryPid,
     TimerKillOnTarget, OnlyOwnChildKilled, AbortOnlyByRawTimer, FiredTooEarly,
     Reaped, Alive
<1> USE DEF IInv
<1>t. TypeOK'
  BY TypeStep
<1>1. ASSUME NEW p \in Procs, app = "up", Construct(p)
      PROVE  IInv'
  BY <1>1, <1>t, PidAssumption DEF Construct, TypeOK, Idle, KillWentAstray,
     ChildInv, PidInv, TimerInv, ReportInv, DeadlineInv, UniquePids, CbInv,
     EventsCarryPid, TimerKillOnTarget, OnlyOwnChildKilled, AbortOnlyByRawTimer,
     FiredTooEarly, Reaped, Alive
<1>2. ASSUME NEW p \in Procs, app = "up", StartTimer(p)
      PROVE  IInv'
  <2>1. ASSUME NEW q \in Procs PROVE ChildInv(q)'
    BY <1>2, PidAssumption DEF StartTimer, ChildInv, Reaped, TypeOK, Idle
  <2>2. ASSUME NEW q \in Procs PROVE PidInv(q)'
    BY <1>2, PidAssumption DEF StartTimer, PidInv, ChildInv, TypeOK, Idle
  <2>3. ASSUME NEW q \in Procs PROVE TimerInv(q)'
    BY <1>2, PidAssumption DEF StartTimer, TimerInv, ChildInv, Reaped, TypeOK,
       Idle
  <2>4. ASSUME NEW q \in Procs PROVE ReportInv(q)'
    BY <1>2, PidAssumption DEF StartTimer, ReportInv, TimerInv, ChildInv,
       PidInv, Reaped, TypeOK, Idle
  <2>5. ASSUME NEW q \in Procs PROVE DeadlineInv(q)'
    BY <1>2, PidAssumption DEF StartTimer, DeadlineInv, ChildInv, TimerInv,
       FiredTooEarly, Reaped, TypeOK, Idle
  <2>6. UniquePids'
    BY <1>2, PidAssumption DEF StartTimer, UniquePids, Alive, ChildInv, TypeOK,
       Idle
  <2>7. CbInv'
    BY <1>2, PidAssumption DEF StartTimer, CbInv, ChildInv, TimerInv, Reaped,
       TypeOK, Idle
  <2>8. EventsCarryPid'
    BY <1>2, PidAssumption DEF StartTimer, EventsCarryPid, PidInv, ChildInv,
       ReportInv, TypeOK, Idle
  <2>9. TimerKillOnTarget'
    BY <1>2, PidAssumption DEF StartTimer, TimerKillOnTarget, ChildInv, TypeOK,
       Idle
  <2>10. OnlyOwnChildKilled'
    BY <1>2, PidAssumption DEF StartTimer, OnlyOwnChildKilled, TimerInv,
       KillWentAstray, TypeOK, Idle
  <2>11. AbortOnlyByRawTimer'
    BY <1>2, PidAssumption DEF StartTimer, AbortOnlyByRawTimer, Reaped, TypeOK,
       Idle
  <2>q. QED
    BY <1>t, <2>1, <2>2, <2>3, <2>4, <2>5, <2>6, <2>7, <2>8, <2>9, <2>10, <2>11
<1>3. ASSUME NEW p \in Procs, app = "up", Fork(p)
      PROVE  IInv'
  <2>1. ASSUME NEW q \in Procs PROVE ChildInv(q)'
    BY <1>3, PidAssumption DEF Fork, Free, ChildInv, Reaped, TypeOK, Idle
  <2>2. ASSUME NEW q \in Procs PROVE PidInv(q)'
    BY <1>3, PidAssumption DEF Fork, Free, PidInv, ChildInv, TypeOK, Idle
  <2>3. ASSUME NEW q \in Procs PROVE TimerInv(q)'
    BY <1>3, PidAssumption DEF Fork, Free, TimerInv, ChildInv, Reaped,
       TypeOK, Idle
  <2>4. ASSUME NEW q \in Procs PROVE ReportInv(q)'
    BY <1>3, PidAssumption DEF Fork, Free, ReportInv, TimerInv, ChildInv,
       PidInv, Reaped, TypeOK, Idle
  <2>5. ASSUME NEW q \in Procs PROVE DeadlineInv(q)'
    BY <1>3, PidAssumption DEF Fork, Free, DeadlineInv, ChildInv, TimerInv,
       FiredTooEarly, Reaped, TypeOK, Idle
  <2>6. UniquePids'
    BY <1>3, PidAssumption DEF Fork, Free, UniquePids, Alive, ChildInv,
       TypeOK, Idle
  <2>7. CbInv'
    BY <1>3, PidAssumption DEF Fork, Free, CbInv, ChildInv, TimerInv, Reaped,
       TypeOK, Idle
  <2>8. EventsCarryPid'
    BY <1>3, PidAssumption DEF Fork, Free, EventsCarryPid, PidInv, ChildInv,
       ReportInv, TypeOK, Idle
  <2>9. TimerKillOnTarget'
    BY <1>3, PidAssumption DEF Fork, Free, TimerKillOnTarget, ChildInv,
       TypeOK, Idle
  <2>10. OnlyOwnChildKilled'
    BY <1>3, PidAssumption DEF Fork, Free, OnlyOwnChildKilled, TimerInv,
       KillWentAstray, TypeOK, Idle
  <2>11. AbortOnlyByRawTimer'
    BY <1>3, PidAssumption DEF Fork, Free, AbortOnlyByRawTimer, Reaped,
       TypeOK, Idle
  <2>q. QED
    BY <1>t, <2>1, <2>2, <2>3, <2>4, <2>5, <2>6, <2>7, <2>8, <2>9, <2>10, <2>11
<1>0. ASSUME NEW p \in Procs, app = "up", List(p)
      PROVE  IInv'
  BY <1>0, <1>t, PidAssumption DEF List, TypeOK, Idle, KillWentAstray,
     ChildInv, PidInv, TimerInv, ReportInv, DeadlineInv, UniquePids, CbInv,
     EventsCarryPid, TimerKillOnTarget, OnlyOwnChildKilled, AbortOnlyByRawTimer,
     FiredTooEarly, Reaped, Alive
<1>4. ASSUME NEW p \in Procs, app = "up", UvSpawnFails(p)
      PROVE  IInv'
  BY <1>4, <1>t, PidAssumption DEF UvSpawnFails, TypeOK, Idle, KillWentAstray,
     ChildInv, PidInv, TimerInv, ReportInv, DeadlineInv, UniquePids, CbInv,
     EventsCarryPid, TimerKillOnTarget, OnlyOwnChildKilled, AbortOnlyByRawTimer,
     FiredTooEarly, Reaped, Alive
<1>5. ASSUME NEW p \in Procs, app = "up", SetPid(p)
      PROVE  IInv'
  <2>1. ASSUME NEW q \in Procs PROVE ChildInv(q)'
    BY <1>5, PidAssumption DEF SetPid, ChildInv, Reaped, TypeOK, Idle
  <2>2. ASSUME NEW q \in Procs PROVE PidInv(q)'
    BY <1>5, PidAssumption DEF SetPid, PidInv, ChildInv, TypeOK, Idle
  <2>3. ASSUME NEW q \in Procs PROVE TimerInv(q)'
    BY <1>5, PidAssumption DEF SetPid, TimerInv, ChildInv, Reaped, TypeOK, Idle
  <2>4. ASSUME NEW q \in Procs PROVE ReportInv(q)'
    BY <1>5, PidAssumption DEF SetPid, ReportInv, TimerInv, ChildInv, PidInv,
       Reaped, TypeOK, Idle
  <2>5. ASSUME NEW q \in Procs PROVE DeadlineInv(q)'
    BY <1>5, PidAssumption DEF SetPid, DeadlineInv, ChildInv, TimerInv,
       FiredTooEarly, Reaped, TypeOK, Idle
  <2>6. UniquePids'
    BY <1>5, PidAssumption DEF SetPid, UniquePids, Alive, ChildInv, TypeOK, Idle
  <2>7. CbInv'
    BY <1>5, PidAssumption DEF SetPid, CbInv, ChildInv, TimerInv, Reaped,
       TypeOK, Idle
  <2>8. EventsCarryPid'
    BY <1>5, PidAssumption DEF SetPid, EventsCarryPid, PidInv, ChildInv,
       ReportInv, TypeOK, Idle
  <2>9. TimerKillOnTarget'
    BY <1>5, PidAssumption DEF SetPid, TimerKillOnTarget, ChildInv, TypeOK, Idle
  <2>10. OnlyOwnChildKilled'
    BY <1>5, PidAssumption DEF SetPid, OnlyOwnChildKilled, TimerInv,
       KillWentAstray, TypeOK, Idle
  <2>11. AbortOnlyByRawTimer'
    BY <1>5, PidAssumption DEF SetPid, AbortOnlyByRawTimer, Reaped, TypeOK, Idle
  <2>q. QED
    BY <1>t, <2>1, <2>2, <2>3, <2>4, <2>5, <2>6, <2>7, <2>8, <2>9, <2>10, <2>11
<1>6. ASSUME NEW p \in Procs, app = "up", ReadStartOut(p)
      PROVE  IInv'
  BY <1>6, <1>t, PidAssumption DEF ReadStartOut, TypeOK, Idle, KillWentAstray,
     ChildInv, PidInv, TimerInv, ReportInv, DeadlineInv, UniquePids, CbInv,
     EventsCarryPid, TimerKillOnTarget, OnlyOwnChildKilled, AbortOnlyByRawTimer,
     FiredTooEarly, Reaped, Alive
<1>7. ASSUME NEW p \in Procs, app = "up", ReadStartErr(p)
      PROVE  IInv'
  <2>1. ASSUME NEW q \in Procs PROVE ChildInv(q)'
    BY <1>7, PidAssumption DEF ReadStartErr, ChildInv, Reaped, TypeOK, Idle
  <2>2. ASSUME NEW q \in Procs PROVE PidInv(q)'
    BY <1>7, PidAssumption DEF ReadStartErr, PidInv, ChildInv, TypeOK, Idle
  <2>3. ASSUME NEW q \in Procs PROVE TimerInv(q)'
    BY <1>7, PidAssumption DEF ReadStartErr, TimerInv, ChildInv, Reaped, TypeOK,
       Idle
  <2>4. ASSUME NEW q \in Procs PROVE ReportInv(q)'
    BY <1>7, PidAssumption DEF ReadStartErr, ReportInv, TimerInv, ChildInv,
       PidInv, Reaped, TypeOK, Idle
  <2>5. ASSUME NEW q \in Procs PROVE DeadlineInv(q)'
    BY <1>7, PidAssumption DEF ReadStartErr, DeadlineInv, ChildInv, TimerInv,
       FiredTooEarly, Reaped, TypeOK, Idle
  <2>6. UniquePids'
    BY <1>7, PidAssumption DEF ReadStartErr, UniquePids, Alive, ChildInv,
       TypeOK, Idle
  <2>7. CbInv'
    BY <1>7, PidAssumption DEF ReadStartErr, CbInv, ChildInv, TimerInv, Reaped,
       TypeOK, Idle
  <2>8. EventsCarryPid'
    BY <1>7, PidAssumption DEF ReadStartErr, EventsCarryPid, PidInv, ChildInv,
       ReportInv, TypeOK, Idle
  <2>9. TimerKillOnTarget'
    BY <1>7, PidAssumption DEF ReadStartErr, TimerKillOnTarget, ChildInv,
       TypeOK, Idle
  <2>10. OnlyOwnChildKilled'
    BY <1>7, PidAssumption DEF ReadStartErr, OnlyOwnChildKilled, TimerInv,
       KillWentAstray, TypeOK, Idle
  <2>11. AbortOnlyByRawTimer'
    BY <1>7, PidAssumption DEF ReadStartErr, AbortOnlyByRawTimer, Reaped,
       TypeOK, Idle
  <2>q. QED
    BY <1>t, <2>1, <2>2, <2>3, <2>4, <2>5, <2>6, <2>7, <2>8, <2>9, <2>10, <2>11
<1>8. ASSUME NEW p \in Procs, app = "up", ReadStartFails(p)
      PROVE  IInv'
  <2> DEFINE stray(why) == [site |-> "spawn", why |-> why, proc |-> p]
  <2>1. /\ "spawn" \in Sites /\ SigKill(p, "spawn")
        /\ ProcessPid(p) = procPid[p]
    BY <1>8 DEF Sites, ReadStartFails, ProcessPid
  <2>2. /\ app' \in {app, "killed"}
        /\ \A q \in Procs : doomed[q] => doomed'[q]
        /\ procPid[p] # NoPid =>
             \A q \in Procs :
               doomed'[q] <=> \/ doomed[q]
                              \/ child[q] = "running" /\ procPid[q] = procPid[p]
    BY <2>1, SigKillEffect
  <2>3. strays' = strays \cup IF procPid[p] = NoPid THEN {stray("unset")}
                             ELSE IF child[p] \notin {"running", "zombie"}
                                  THEN {stray("reaped")} ELSE {}
    BY <2>1 DEF SigKill, Stray, Alive
  <2>4. ASSUME NEW q \in Procs PROVE ChildInv(q)'
    BY <1>8, <2>2, <2>3, PidAssumption DEF ReadStartFails, ChildInv, Reaped,
       TypeOK, Idle
  <2>5. ASSUME NEW q \in Procs PROVE PidInv(q)'
    BY <1>8, <2>2, <2>3, PidAssumption DEF ReadStartFails, PidInv, ChildInv,
       TypeOK, Idle
  <2>6. ASSUME NEW q \in Procs PROVE TimerInv(q)'
    BY <1>8, <2>2, <2>3, PidAssumption DEF ReadStartFails, TimerInv, ChildInv,
       Reaped, TypeOK, Idle
  <2>7. ASSUME NEW q \in Procs PROVE ReportInv(q)'
    BY <1>8, <2>2, <2>3, PidAssumption DEF ReadStartFails, ReportInv, TimerInv,
       ChildInv, PidInv, Reaped, TypeOK, Idle
  <2>8. ASSUME NEW q \in Procs PROVE DeadlineInv(q)'
    BY <1>8, <2>2, <2>3, PidAssumption DEF ReadStartFails, DeadlineInv,
       ChildInv, TimerInv, FiredTooEarly, Reaped, TypeOK, Idle
  <2>9. UniquePids'
    BY <1>8, <2>2, <2>3, PidAssumption DEF ReadStartFails, UniquePids, Alive,
       ChildInv, TypeOK, Idle
  <2>10. CbInv'
    BY <1>8, <2>2, <2>3, PidAssumption DEF ReadStartFails, CbInv, ChildInv,
       TimerInv, Reaped, TypeOK, Idle
  <2>11. EventsCarryPid'
    BY <1>8, <2>2, <2>3, PidAssumption DEF ReadStartFails, EventsCarryPid,
       PidInv, ChildInv, ReportInv, TypeOK, Idle
  <2>12. TimerKillOnTarget'
    BY <1>8, <2>2, <2>3, PidAssumption DEF ReadStartFails, TimerKillOnTarget,
       ChildInv, TypeOK, Idle
  <2>13. OnlyOwnChildKilled'
    <3>1. KillWentAstray => KillWentAstray'
      BY <2>3 DEF KillWentAstray
    <3>2. ASSUME NEW q \in Procs, doomed[q]
          PROVE  timer'[q] = "closed" \/ pc'[q] = "error" \/ KillWentAstray'
      BY <1>8, <3>1, <3>2 DEF OnlyOwnChildKilled, ReadStartFails, TypeOK
    <3>3. ASSUME NEW q \in Procs, doomed'[q], ~doomed[q]
          PROVE  timer'[q] = "closed" \/ pc'[q] = "error" \/ KillWentAstray'
      <4>1. CASE procPid[p] = NoPid \/ child[p] \notin {"running", "zombie"}
        <5>1. stray("reaped") \in strays'
          BY <1>8, <2>2, <2>3, <4>1 DEF ReadStartFails, ChildInv, TypeOK
        <5>q. QED
          BY <5>1 DEF KillWentAstray
      <4>2. CASE procPid[p] # NoPid /\ child[p] \in {"running", "zombie"}
        <5>1. q = p
          BY <2>2, <3>3, <4>2 DEF UniquePids, Alive
        <5>q. QED
          BY <1>8, <2>2, <2>3, <5>1 DEF ReadStartFails, TypeOK
      <4>q. QED
        BY <4>1, <4>2
    <3>q. QED
      BY <3>2, <3>3 DEF OnlyOwnChildKilled
  <2>14. AbortOnlyByRawTimer'
    BY <1>8, <2>2, <2>3, PidAssumption DEF ReadStartFails, AbortOnlyByRawTimer,
       Reaped, TypeOK, Idle
  <2>q. QED
    BY <1>t, <2>4, <2>5, <2>6, <2>7, <2>8, <2>9, <2>10, <2>11, <2>12, <2>13,
       <2>14
<1>9. ASSUME NEW p \in Procs, app = "up", TimerCb(p)
      PROVE  IInv'
  <2>1. ASSUME NEW q \in Procs PROVE ChildInv(q)'
    BY <1>9, PidAssumption DEF TimerCb, LoopIdle, ClearTimer, UvClose, Emit, ChildInv,
       Reaped, TypeOK, Idle
  <2>2. ASSUME NEW q \in Procs PROVE PidInv(q)'
    BY <1>9, PidAssumption DEF TimerCb, LoopIdle, ClearTimer, UvClose, Emit, PidInv,
       ChildInv, TypeOK, Idle
  <2>3. ASSUME NEW q \in Procs PROVE TimerInv(q)'
    BY <1>9, PidAssumption DEF TimerCb, LoopIdle, ClearTimer, UvClose, Emit, TimerInv,
       ChildInv, Reaped, TypeOK, Idle
  <2>4. ASSUME NEW q \in Procs PROVE ReportInv(q)'
    BY <1>9, PidAssumption DEF TimerCb, LoopIdle, ClearTimer, UvClose, Emit, ReportInv,
       TimerInv, ChildInv, PidInv, Reaped, TypeOK, Idle
  <2>5. ASSUME NEW q \in Procs PROVE DeadlineInv(q)'
    BY <1>9, PidAssumption DEF TimerCb, LoopIdle, ClearTimer, UvClose, Emit, DeadlineInv,
       ChildInv, TimerInv, FiredTooEarly, Reaped, TypeOK, Idle
  <2>6. UniquePids'
    BY <1>9, PidAssumption DEF TimerCb, LoopIdle, ClearTimer, UvClose, Emit, UniquePids,
       Alive, ChildInv, TypeOK, Idle
  <2>7. CbInv'
    BY <1>9, PidAssumption DEF TimerCb, LoopIdle, ClearTimer, UvClose, Emit, CbInv,
       ChildInv, TimerInv, Reaped, TypeOK, Idle
  <2>8. EventsCarryPid'
    BY <1>9, PidAssumption DEF TimerCb, LoopIdle, ClearTimer, UvClose, Emit,
       EventsCarryPid, PidInv, ChildInv, ReportInv, TypeOK, Idle
  <2>9. TimerKillOnTarget'
    BY <1>9, PidAssumption DEF TimerCb, LoopIdle, ClearTimer, UvClose, Emit,
       TimerKillOnTarget, ChildInv, TypeOK, Idle
  <2>10. OnlyOwnChildKilled'
    BY <1>9, PidAssumption DEF TimerCb, LoopIdle, ClearTimer, UvClose, Emit,
       OnlyOwnChildKilled, TimerInv, KillWentAstray, TypeOK, Idle
  <2>11. AbortOnlyByRawTimer'
    BY <1>9, PidAssumption DEF TimerCb, LoopIdle, ClearTimer, UvClose, Emit,
       AbortOnlyByRawTimer, Reaped, TypeOK, Idle
  <2>q. QED
    BY <1>t, <2>1, <2>2, <2>3, <2>4, <2>5, <2>6, <2>7, <2>8, <2>9, <2>10, <2>11
<1>10. ASSUME NEW p \in Procs, app = "up", TimerKill(p)
       PROVE  IInv'
  <2> DEFINE stray(why) == [site |-> "timer", why |-> why, proc |-> p]
  <2>1. /\ "timer" \in Sites /\ SigKill(p, "timer")
        /\ procPid[p] = NoPid => ProcessPid(p) = NoPid
        /\ ProcessPid(p) # NoPid => ProcessPid(p) = procPid[p]
    BY <1>10 DEF Sites, TimerKill, ProcessPid
  <2>2. /\ app' \in {app, "killed"}
        /\ \A q \in Procs : doomed[q] => doomed'[q]
        /\ ProcessPid(p) # NoPid =>
             \A q \in Procs :
               doomed'[q] <=> \/ doomed[q]
                              \/ child[q] = "running" /\ procPid[q] = procPid[p]
    BY <2>1, SigKillEffect
  <2>3. strays' = strays \cup IF ProcessPid(p) = NoPid THEN {stray("unset")}
                             ELSE IF child[p] \notin {"running", "zombie"}
                                  THEN {stray("reaped")} ELSE {}
    BY <2>1 DEF SigKill, Stray, Alive
  <2>4. timer[p] = "closed" /\ ~exited[p] /\ child[p] # "reaped"
    BY <1>10 DEF TimerKill, CbInv
  <2>5. ASSUME NEW q \in Procs PROVE ChildInv(q)'
    BY <1>10, <2>1, <2>2, <2>3, <2>4, PidAssumption DEF TimerKill, ChildInv, Reaped,
       TypeOK, Idle
  <2>6. ASSUME NEW q \in Procs PROVE PidInv(q)'
    BY <1>10, <2>1, <2>2, <2>3, <2>4, PidAssumption DEF TimerKill, PidInv, ChildInv,
       TypeOK, Idle
  <2>7. ASSUME NEW q \in Procs PROVE TimerInv(q)'
    BY <1>10, <2>1, <2>2, <2>3, <2>4, PidAssumption DEF TimerKill, TimerInv, ChildInv,
       Reaped, TypeOK, Idle
  <2>8. ASSUME NEW q \in Procs PROVE ReportInv(q)'
    BY <1>10, <2>1, <2>2, <2>3, <2>4, PidAssumption DEF TimerKill, ReportInv,
       TimerInv, ChildInv, PidInv, Reaped, TypeOK, Idle
  <2>9. ASSUME NEW q \in Procs PROVE DeadlineInv(q)'
    BY <1>10, <2>1, <2>2, <2>3, <2>4, PidAssumption DEF TimerKill, DeadlineInv,
       ChildInv, TimerInv, FiredTooEarly, Reaped, TypeOK, Idle
  <2>10. UniquePids'
    BY <1>10, <2>1, <2>2, <2>3, <2>4, PidAssumption DEF TimerKill, UniquePids, Alive,
       ChildInv, TypeOK, Idle
  <2>11. CbInv'
    BY <1>10, <2>1, <2>2, <2>3, <2>4, PidAssumption DEF TimerKill, CbInv, ChildInv,
       TimerInv, Reaped, TypeOK, Idle
  <2>12. EventsCarryPid'
    BY <1>10, <2>1, <2>2, <2>3, <2>4, PidAssumption DEF TimerKill, EventsCarryPid,
       PidInv, ChildInv, ReportInv, TypeOK, Idle
  <2>13. TimerKillOnTarget'
    BY <1>10, <2>1, <2>2, <2>3, <2>4, PidAssumption DEF TimerKill, TimerKillOnTarget,
       ChildInv, TypeOK, Idle
  <2>14. OnlyOwnChildKilled'
    <3>1. KillWentAstray => KillWentAstray'
      BY <2>3 DEF KillWentAstray
    <3>2. ASSUME NEW q \in Procs, doomed[q]
          PROVE  timer'[q] = "closed" \/ pc'[q] = "error" \/ KillWentAstray'
      BY <1>10, <3>1, <3>2 DEF OnlyOwnChildKilled, TimerKill, TypeOK
    <3>3. ASSUME NEW q \in Procs, doomed'[q], ~doomed[q]
          PROVE  timer'[q] = "closed" \/ pc'[q] = "error" \/ KillWentAstray'
      <4>1. CASE ProcessPid(p) = NoPid \/ child[p] \notin {"running", "zombie"}
        <5>1. stray("unset") \in strays'
          BY <1>10, <2>1, <2>2, <2>3, <2>4, <4>1 DEF TimerKill, ChildInv, TypeOK
        <5>q. QED
          BY <5>1 DEF KillWentAstray
      <4>2. CASE ProcessPid(p) # NoPid /\ child[p] \in {"running", "zombie"}
        <5>1. q = p
          BY <2>2, <3>3, <4>2 DEF UniquePids, Alive
        <5>q. QED
          BY <1>10, <2>1, <2>2, <2>3, <2>4, <5>1 DEF TimerKill, TypeOK
      <4>q. QED
        BY <4>1, <4>2
    <3>q. QED
      BY <3>2, <3>3 DEF OnlyOwnChildKilled
  <2>15. AbortOnlyByRawTimer'
    BY <1>10, <2>1, <2>2, <2>3, <2>4, PidAssumption DEF TimerKill,
       AbortOnlyByRawTimer, Reaped, TypeOK, Idle
  <2>q. QED
    BY <1>t, <2>5, <2>6, <2>7, <2>8, <2>9, <2>10, <2>11, <2>12, <2>13, <2>14,
       <2>15
<1>11. ASSUME NEW p \in Procs, app = "up", ExitCb(p)
       PROVE  IInv'
  <2>1. ASSUME NEW q \in Procs PROVE ChildInv(q)'
    BY <1>11, PidAssumption DEF ExitCb, ClearTimer, UvClose, EmitExitIf, Emit, ChildInv,
       Reaped, TypeOK, Idle
  <2>2. ASSUME NEW q \in Procs PROVE PidInv(q)'
    BY <1>11, PidAssumption DEF ExitCb, ClearTimer, UvClose, EmitExitIf, Emit, PidInv,
       ChildInv, TypeOK, Idle
  <2>3. ASSUME NEW q \in Procs PROVE TimerInv(q)'
    BY <1>11, PidAssumption DEF ExitCb, ClearTimer, UvClose, EmitExitIf, Emit, TimerInv,
       ChildInv, Reaped, TypeOK, Idle
  <2>4. ASSUME NEW q \in Procs PROVE ReportInv(q)'
    BY <1>11, PidAssumption DEF ExitCb, ClearTimer, UvClose, EmitExitIf, Emit, ReportInv,
       TimerInv, ChildInv, PidInv, Reaped, TypeOK, Idle
  <2>5. ASSUME NEW q \in Procs PROVE DeadlineInv(q)'
    BY <1>11, PidAssumption DEF ExitCb, ClearTimer, UvClose, EmitExitIf, Emit,
       DeadlineInv, ChildInv, TimerInv, FiredTooEarly, Reaped, TypeOK, Idle
  <2>6. UniquePids'
    BY <1>11, PidAssumption DEF ExitCb, ClearTimer, UvClose, EmitExitIf, Emit,
       UniquePids, Alive, ChildInv, TypeOK, Idle
  <2>7. CbInv'
    BY <1>11, PidAssumption DEF ExitCb, ClearTimer, UvClose, EmitExitIf, Emit, CbInv,
       ChildInv, TimerInv, Reaped, TypeOK, Idle
  <2>8. EventsCarryPid'
    BY <1>11, PidAssumption DEF ExitCb, ClearTimer, UvClose, EmitExitIf, Emit,
       EventsCarryPid, PidInv, ChildInv, ReportInv, TypeOK, Idle
  <2>9. TimerKillOnTarget'
    BY <1>11, PidAssumption DEF ExitCb, ClearTimer, UvClose, EmitExitIf, Emit,
       TimerKillOnTarget, ChildInv, TypeOK, Idle
  <2>10. OnlyOwnChildKilled'
    BY <1>11, PidAssumption DEF ExitCb, ClearTimer, UvClose, EmitExitIf, Emit,
       OnlyOwnChildKilled, TimerInv, KillWentAstray, TypeOK, Idle
  <2>11. AbortOnlyByRawTimer'
    BY <1>11, PidAssumption DEF ExitCb, ClearTimer, UvClose, EmitExitIf, Emit,
       AbortOnlyByRawTimer, Reaped, TypeOK, Idle
  <2>q. QED
    BY <1>t, <2>1, <2>2, <2>3, <2>4, <2>5, <2>6, <2>7, <2>8, <2>9, <2>10, <2>11
<1>13. ASSUME NEW p \in Procs, app = "up", StdoutData(p)
       PROVE  IInv'
  <2>1. ASSUME NEW q \in Procs PROVE ChildInv(q)'
    BY <1>13, PidAssumption DEF StdoutData, LoopIdle, Emit, ChildInv, Reaped,
       TypeOK, Idle
  <2>2. ASSUME NEW q \in Procs PROVE PidInv(q)'
    BY <1>13, PidAssumption DEF StdoutData, LoopIdle, Emit, PidInv, ChildInv,
       TypeOK, Idle
  <2>3. ASSUME NEW q \in Procs PROVE TimerInv(q)'
    BY <1>13, PidAssumption DEF StdoutData, LoopIdle, Emit, TimerInv, ChildInv,
       Reaped, TypeOK, Idle
  <2>4. ASSUME NEW q \in Procs PROVE ReportInv(q)'
    BY <1>13, PidAssumption DEF StdoutData, LoopIdle, Emit, ReportInv, TimerInv,
       ChildInv, PidInv, Reaped, TypeOK, Idle
  <2>5. ASSUME NEW q \in Procs PROVE DeadlineInv(q)'
    BY <1>13, PidAssumption DEF StdoutData, LoopIdle, Emit, DeadlineInv,
       ChildInv, TimerInv, FiredTooEarly, Reaped, TypeOK, Idle
  <2>6. UniquePids'
    BY <1>13, PidAssumption DEF StdoutData, LoopIdle, Emit, UniquePids, Alive,
       ChildInv, TypeOK, Idle
  <2>7. CbInv'
    BY <1>13, PidAssumption DEF StdoutData, LoopIdle, Emit, CbInv, ChildInv,
       TimerInv, Reaped, TypeOK, Idle
  <2>8. EventsCarryPid'
    BY <1>13, PidAssumption DEF StdoutData, LoopIdle, Emit, EventsCarryPid,
       PidInv, ChildInv, ReportInv, TypeOK, Idle
  <2>9. TimerKillOnTarget'
    BY <1>13, PidAssumption DEF StdoutData, LoopIdle, Emit, TimerKillOnTarget,
       ChildInv, TypeOK, Idle
  <2>10. OnlyOwnChildKilled'
    BY <1>13, PidAssumption DEF StdoutData, LoopIdle, Emit, OnlyOwnChildKilled,
       TimerInv, KillWentAstray, TypeOK, Idle
  <2>11. AbortOnlyByRawTimer'
    BY <1>13, PidAssumption DEF StdoutData, LoopIdle, Emit, AbortOnlyByRawTimer,
       Reaped, TypeOK, Idle
  <2>q. QED
    BY <1>t, <2>1, <2>2, <2>3, <2>4, <2>5, <2>6, <2>7, <2>8, <2>9, <2>10, <2>11
<1>14. ASSUME NEW p \in Procs, app = "up", StdoutEof(p)
       PROVE  IInv'
  BY <1>14, <1>t, PidAssumption DEF StdoutEof, TypeOK, Idle, KillWentAstray,
     ChildInv, PidInv, TimerInv, ReportInv, DeadlineInv, UniquePids, CbInv,
     EventsCarryPid, TimerKillOnTarget, OnlyOwnChildKilled, AbortOnlyByRawTimer,
     FiredTooEarly, Reaped, Alive
<1>15. ASSUME NEW p \in Procs, app = "up", StdoutError(p)
       PROVE  IInv'
  BY <1>15, <1>t, PidAssumption DEF StdoutError, SigTerm, Stray, TypeOK, Idle,
     KillWentAstray, ChildInv, PidInv, TimerInv, ReportInv, DeadlineInv,
     UniquePids, CbInv, EventsCarryPid, TimerKillOnTarget, OnlyOwnChildKilled,
     AbortOnlyByRawTimer, FiredTooEarly, Reaped, Alive
<1>16. ASSUME NEW p \in Procs, app = "up", StderrData(p)
       PROVE  IInv'
  <2>1. ASSUME NEW q \in Procs PROVE ChildInv(q)'
    BY <1>16, PidAssumption DEF StderrData, LoopIdle, Emit, ChildInv, Reaped,
       TypeOK, Idle
  <2>2. ASSUME NEW q \in Procs PROVE PidInv(q)'
    BY <1>16, PidAssumption DEF StderrData, LoopIdle, Emit, PidInv, ChildInv,
       TypeOK, Idle
  <2>3. ASSUME NEW q \in Procs PROVE TimerInv(q)'
    BY <1>16, PidAssumption DEF StderrData, LoopIdle, Emit, TimerInv, ChildInv,
       Reaped, TypeOK, Idle
  <2>4. ASSUME NEW q \in Procs PROVE ReportInv(q)'
    BY <1>16, PidAssumption DEF StderrData, LoopIdle, Emit, ReportInv, TimerInv,
       ChildInv, PidInv, Reaped, TypeOK, Idle
  <2>5. ASSUME NEW q \in Procs PROVE DeadlineInv(q)'
    BY <1>16, PidAssumption DEF StderrData, LoopIdle, Emit, DeadlineInv,
       ChildInv, TimerInv, FiredTooEarly, Reaped, TypeOK, Idle
  <2>6. UniquePids'
    BY <1>16, PidAssumption DEF StderrData, LoopIdle, Emit, UniquePids, Alive,
       ChildInv, TypeOK, Idle
  <2>7. CbInv'
    BY <1>16, PidAssumption DEF StderrData, LoopIdle, Emit, CbInv, ChildInv,
       TimerInv, Reaped, TypeOK, Idle
  <2>8. EventsCarryPid'
    BY <1>16, PidAssumption DEF StderrData, LoopIdle, Emit, EventsCarryPid,
       PidInv, ChildInv, ReportInv, TypeOK, Idle
  <2>9. TimerKillOnTarget'
    BY <1>16, PidAssumption DEF StderrData, LoopIdle, Emit, TimerKillOnTarget,
       ChildInv, TypeOK, Idle
  <2>10. OnlyOwnChildKilled'
    BY <1>16, PidAssumption DEF StderrData, LoopIdle, Emit, OnlyOwnChildKilled,
       TimerInv, KillWentAstray, TypeOK, Idle
  <2>11. AbortOnlyByRawTimer'
    BY <1>16, PidAssumption DEF StderrData, LoopIdle, Emit, AbortOnlyByRawTimer,
       Reaped, TypeOK, Idle
  <2>q. QED
    BY <1>t, <2>1, <2>2, <2>3, <2>4, <2>5, <2>6, <2>7, <2>8, <2>9, <2>10, <2>11
<1>17. ASSUME NEW p \in Procs, app = "up", StderrEof(p)
       PROVE  IInv'
  <2>1. ASSUME NEW q \in Procs PROVE ChildInv(q)'
    BY <1>17, PidAssumption DEF StderrEof, LoopIdle, CloseStderr, EmitExitIf,
       Emit, ChildInv, Reaped, TypeOK, Idle
  <2>2. ASSUME NEW q \in Procs PROVE PidInv(q)'
    BY <1>17, PidAssumption DEF StderrEof, LoopIdle, CloseStderr, EmitExitIf,
       Emit, PidInv, ChildInv, TypeOK, Idle
  <2>3. ASSUME NEW q \in Procs PROVE TimerInv(q)'
    BY <1>17, PidAssumption DEF StderrEof, LoopIdle, CloseStderr, EmitExitIf,
       Emit, TimerInv, ChildInv, Reaped, TypeOK, Idle
  <2>4. ASSUME NEW q \in Procs PROVE ReportInv(q)'
    BY <1>17, PidAssumption DEF StderrEof, LoopIdle, CloseStderr, EmitExitIf,
       Emit, ReportInv, TimerInv, ChildInv, PidInv, Reaped, TypeOK, Idle
  <2>5. ASSUME NEW q \in Procs PROVE DeadlineInv(q)'
    BY <1>17, PidAssumption DEF StderrEof, LoopIdle, CloseStderr, EmitExitIf,
       Emit, DeadlineInv, ChildInv, TimerInv, FiredTooEarly, Reaped, TypeOK,
       Idle
  <2>6. UniquePids'
    BY <1>17, PidAssumption DEF StderrEof, LoopIdle, CloseStderr, EmitExitIf,
       Emit, UniquePids, Alive, ChildInv, TypeOK, Idle
  <2>7. CbInv'
    BY <1>17, PidAssumption DEF StderrEof, LoopIdle, CloseStderr, EmitExitIf,
       Emit, CbInv, ChildInv, TimerInv, Reaped, TypeOK, Idle
  <2>8. EventsCarryPid'
    BY <1>17, PidAssumption DEF StderrEof, LoopIdle, CloseStderr, EmitExitIf,
       Emit, EventsCarryPid, PidInv, ChildInv, ReportInv, TypeOK, Idle
  <2>9. TimerKillOnTarget'
    BY <1>17, PidAssumption DEF StderrEof, LoopIdle, CloseStderr, EmitExitIf,
       Emit, TimerKillOnTarget, ChildInv, TypeOK, Idle
  <2>10. OnlyOwnChildKilled'
    BY <1>17, PidAssumption DEF StderrEof, LoopIdle, CloseStderr, EmitExitIf,
       Emit, OnlyOwnChildKilled, TimerInv, KillWentAstray, TypeOK, Idle
  <2>11. AbortOnlyByRawTimer'
    BY <1>17, PidAssumption DEF StderrEof, LoopIdle, CloseStderr, EmitExitIf,
       Emit, AbortOnlyByRawTimer, Reaped, TypeOK, Idle
  <2>q. QED
    BY <1>t, <2>1, <2>2, <2>3, <2>4, <2>5, <2>6, <2>7, <2>8, <2>9, <2>10, <2>11
<1>18. ASSUME NEW p \in Procs, app = "up", StderrError(p)
       PROVE  IInv'
  <2>1. ASSUME NEW q \in Procs PROVE ChildInv(q)'
    BY <1>18, PidAssumption DEF StderrError, LoopIdle, SigTerm, Stray,
       CloseStderr, EmitExitIf, Emit, ChildInv, Reaped, TypeOK, Idle
  <2>2. ASSUME NEW q \in Procs PROVE PidInv(q)'
    BY <1>18, PidAssumption DEF StderrError, LoopIdle, SigTerm, Stray,
       CloseStderr, EmitExitIf, Emit, PidInv, ChildInv, TypeOK, Idle
  <2>3. ASSUME NEW q \in Procs PROVE TimerInv(q)'
    BY <1>18, PidAssumption DEF StderrError, LoopIdle, SigTerm, Stray,
       CloseStderr, EmitExitIf, Emit, TimerInv, ChildInv, Reaped, TypeOK, Idle
  <2>4. ASSUME NEW q \in Procs PROVE ReportInv(q)'
    BY <1>18, PidAssumption DEF StderrError, LoopIdle, SigTerm, Stray,
       CloseStderr, EmitExitIf, Emit, ReportInv, TimerInv, ChildInv, PidInv,
       Reaped, TypeOK, Idle
  <2>5. ASSUME NEW q \in Procs PROVE DeadlineInv(q)'
    BY <1>18, PidAssumption DEF StderrError, LoopIdle, SigTerm, Stray,
       CloseStderr, EmitExitIf, Emit, DeadlineInv, ChildInv, TimerInv,
       FiredTooEarly, Reaped, TypeOK, Idle
  <2>6. UniquePids'
    BY <1>18, PidAssumption DEF StderrError, LoopIdle, SigTerm, Stray,
       CloseStderr, EmitExitIf, Emit, UniquePids, Alive, ChildInv, TypeOK, Idle
  <2>7. CbInv'
    BY <1>18, PidAssumption DEF StderrError, LoopIdle, SigTerm, Stray,
       CloseStderr, EmitExitIf, Emit, CbInv, ChildInv, TimerInv, Reaped, TypeOK,
       Idle
  <2>8. EventsCarryPid'
    BY <1>18, PidAssumption DEF StderrError, LoopIdle, SigTerm, Stray,
       CloseStderr, EmitExitIf, Emit, EventsCarryPid, PidInv, ChildInv,
       ReportInv, TypeOK, Idle
  <2>9. TimerKillOnTarget'
    BY <1>18, PidAssumption DEF StderrError, LoopIdle, SigTerm, Stray,
       CloseStderr, EmitExitIf, Emit, TimerKillOnTarget, ChildInv, TypeOK, Idle
  <2>10. OnlyOwnChildKilled'
    BY <1>18, PidAssumption DEF StderrError, LoopIdle, SigTerm, Stray,
       CloseStderr, EmitExitIf, Emit, OnlyOwnChildKilled, TimerInv,
       KillWentAstray, TypeOK, Idle
  <2>11. AbortOnlyByRawTimer'
    BY <1>18, PidAssumption DEF StderrError, LoopIdle, SigTerm, Stray,
       CloseStderr, EmitExitIf, Emit, AbortOnlyByRawTimer, Reaped, TypeOK, Idle
  <2>q. QED
    BY <1>t, <2>1, <2>2, <2>3, <2>4, <2>5, <2>6, <2>7, <2>8, <2>9, <2>10, <2>11
<1>19. ASSUME NEW p \in Procs, app = "up", Write(p)
       PROVE  IInv'
  BY <1>19, <1>t, PidAssumption DEF Write, TypeOK, Idle, KillWentAstray,
     ChildInv, PidInv, TimerInv, ReportInv, DeadlineInv, UniquePids, CbInv,
     EventsCarryPid, TimerKillOnTarget, OnlyOwnChildKilled, AbortOnlyByRawTimer,
     FiredTooEarly, Reaped, Alive
<1>20. ASSUME NEW p \in Procs, app = "up", CloseStream(p)
       PROVE  IInv'
  BY <1>20, <1>t, PidAssumption DEF CloseStream, TypeOK, Idle, KillWentAstray,
     ChildInv, PidInv, TimerInv, ReportInv, DeadlineInv, UniquePids, CbInv,
     EventsCarryPid, TimerKillOnTarget, OnlyOwnChildKilled, AbortOnlyByRawTimer,
     FiredTooEarly, Reaped, Alive
<1>21. ASSUME NEW p \in Procs, app = "up", Die(p)
       PROVE  IInv'
  BY <1>21, <1>t, PidAssumption DEF Die, TypeOK, Idle, KillWentAstray, ChildInv,
     PidInv, TimerInv, ReportInv, DeadlineInv, UniquePids, CbInv,
     EventsCarryPid, TimerKillOnTarget, OnlyOwnChildKilled, AbortOnlyByRawTimer,
     FiredTooEarly, Reaped, Alive
<1>22. CASE Return
  BY <1>22, <1>t, PidAssumption DEF Return, TypeOK, Callbacks, Events, Idle,
     KillWentAstray, ChildInv, PidInv, TimerInv, ReportInv, DeadlineInv,
     UniquePids, CbInv, EventsCarryPid, TimerKillOnTarget, OnlyOwnChildKilled,
     AbortOnlyByRawTimer, FiredTooEarly, Reaped, Alive
<1>23. CASE Sigchld /\ app = "up"
  BY <1>23, <1>t DEF Sigchld, LoopIdle, TypeOK, Idle, KillWentAstray, ChildInv,
     PidInv, TimerInv, ReportInv, DeadlineInv, UniquePids, CbInv,
     EventsCarryPid, TimerKillOnTarget, OnlyOwnChildKilled, AbortOnlyByRawTimer,
     FiredTooEarly, Reaped, Alive
<1>24. CASE Done
  BY <1>24 DEF Done, vars, TypeOK, KillWentAstray, ChildInv, PidInv, TimerInv,
     ReportInv, DeadlineInv, UniquePids, CbInv, EventsCarryPid,
     TimerKillOnTarget, OnlyOwnChildKilled, AbortOnlyByRawTimer, FiredTooEarly,
     Reaped, Alive
<1>q. QED
  BY <1>1, <1>2, <1>3, <1>4, <1>5, <1>6, <1>7, <1>8, <1>9, <1>10, <1>11, <1>0,
     <1>13, <1>14, <1>15, <1>16, <1>17, <1>18, <1>19, <1>20, <1>21, <1>22,
     <1>23, <1>24 DEF Next, SpawnStep, LoopStep, ChildStep

THEOREM Invariant == Spec => []IInv
<1>1. Init => IInv
  BY IInvInit
<1>2. IInv /\ [Next]_vars => IInv'
  BY IInvStep
<1>q. QED
  BY <1>1, <1>2, PTL DEF Spec

\* The exit report is complete: see ExitComplete.
THEOREM ExitCompleteHolds == Spec => []ExitComplete
<1>1. IInv => ExitComplete
  BY DEF IInv, ReportInv, ExitComplete
<1>q. QED
  BY <1>1, Invariant, PTL

\* The timer's SIGKILL never goes to a pid that was given back to the kernel.
THEOREM TimerKillOnTargetHolds == Spec => []TimerKillOnTarget
<1>1. IInv => TimerKillOnTarget
  BY DEF IInv
<1>q. QED
  BY <1>1, Invariant, PTL

\* A child is killed by its own object only, unless the pid was still unset.
THEOREM OnlyOwnChildKilledHolds == Spec => []OnlyOwnChildKilled
<1>1. IInv => OnlyOwnChildKilled
  BY DEF IInv
<1>q. QED
  BY <1>1, Invariant, PTL

\* A deadline that passes is enforced, unless it passes before there is a pid.
THEOREM DeadlineEnforcedHolds == Spec => []DeadlineEnforced
<1>1. IInv => DeadlineEnforced
  BY DEF IInv, DeadlineInv, DeadlineEnforced
<1>q. QED
  BY <1>1, Invariant, PTL

\* Listeners are called with the pid of the child.
THEOREM EventsCarryPidHolds == Spec => []EventsCarryPid
<1>1. IInv => EventsCarryPid
  BY DEF IInv
<1>q. QED
  BY <1>1, Invariant, PTL

\* libuv's assertions hold unless exit_cb closes a timer that was never initialised.
THEOREM AbortOnlyByRawTimerHolds == Spec => []AbortOnlyByRawTimer
<1>1. IInv => AbortOnlyByRawTimer
  BY DEF IInv
<1>q. QED
  BY <1>1, Invariant, PTL

-----------------------------------------------------------------------------
\* After the exit report only stdout follows: see ExitIsLast.  An exit report
\* needs both halves of its condition, and the callback that makes it is the last
\* one of exit_cb, the timer callback and the stderr callback that can run.
THEOREM ExitIsLastHolds == Spec => ExitIsLast
<1> DEFINE Last(p) == exitEvents[p] > 0 /\ cb' # cb /\ cb'.proc = p => cb'.ev = "stdout"
<1>1. ASSUME IInv, Next, NEW p \in Procs
      PROVE  Last(p)
  <2>1. exitEvents[p] > 0 => exited[p] /\ stderrFlushed[p] /\ pipeErr[p] = "closed"
    BY <1>1 DEF IInv, ReportInv
  <2>2. p # NoPid
    BY PidAssumption
  <2>3. CASE Return
    BY <1>1, <2>1, <2>2, <2>3 DEF Return, Idle, IInv, CbInv, TypeOK, Callbacks, Events
  <2>4. ASSUME NEW q \in Procs, TimerCb(q)
        PROVE  Last(p)
    BY <1>1, <2>1, <2>4 DEF TimerCb, Emit, IInv, TimerInv
  <2>5. ASSUME NEW q \in Procs, TimerKill(q)
        PROVE  Last(p)
    BY <2>2, <2>5 DEF TimerKill, Idle
  <2>6. ASSUME NEW q \in Procs, ExitCb(q)
        PROVE  Last(p)
    BY <2>1, <2>6 DEF ExitCb, EmitExitIf, Emit, Reaped
  <2>7. ASSUME NEW q \in Procs, StdoutData(q)
        PROVE  Last(p)
    BY <2>7 DEF StdoutData, Emit
  <2>8. ASSUME NEW q \in Procs, StderrData(q)
        PROVE  Last(p)
    BY <2>1, <2>8 DEF StderrData, Emit
  <2>9. ASSUME NEW q \in Procs, StderrEof(q) \/ StderrError(q)
        PROVE  Last(p)
    BY <2>1, <2>9 DEF StderrEof, StderrError, CloseStderr, EmitExitIf, Emit
  <2>10. ASSUME NEW q \in Procs,
                StdoutEof(q) \/ StdoutError(q) \/ Construct(q)
                  \/ SpawnStep(q) \/ ChildStep(q)
         PROVE  cb' = cb
    BY <2>10 DEF StdoutEof, StdoutError, Construct, SpawnStep, StartTimer,
                 Fork, List, UvSpawnFails, SetPid, ReadStartOut, ReadStartErr,
                 ReadStartFails, ChildStep, Write, CloseStream, Die
  <2>11. CASE Sigchld \/ Done
    BY <2>11 DEF Sigchld, Done, vars
  <2>q. QED
    BY <1>1, <2>3, <2>4, <2>5, <2>6, <2>7, <2>8, <2>9, <2>10, <2>11 DEF Next, LoopStep
<1>2. IInv /\ [Next]_vars => [\A p \in Procs : Last(p)]_vars
  BY <1>1
<1>q. QED
  BY <1>2, Invariant, PTL DEF Spec, ExitIsLast

-----------------------------------------------------------------------------
(* DoryProcessSpawn implements ExitReport: every step of spawn(), of a callback or of a
   child is a step of the contract or leaves its variables alone. *)

\* The variables of the contract, as functions of the state of the program.
phaseBar == [p \in Procs |-> Phase(p)]
endedBar == broken \cup {p \in Procs : child[p] # "none" /\ errUnread[p] = 0 /\ ~errOpen[p]}
upBar == app = "up"

USE DEF pidVars, pipeVars, flagVars, objectVars, openVars, unreadVars,
        streamVars, lifeVars, childVars, historyVars, loopVars, At, Goto

Stutter == UNCHANGED <<phaseBar, endedBar, upBar>>

\* What the steps change: the phase of one object ...
LEMMA PhaseStep ==
  ASSUME NEW p \in Procs, NEW to, Phase(p)' = to,
         \A q \in Procs \ {p} : Phase(q)' = Phase(q)
  PROVE  phaseBar' = [phaseBar EXCEPT ![p] = to]
  BY DEF phaseBar

\* ... or none ...
LEMMA PhaseKept ==
  ASSUME \A q \in Procs : Phase(q)' = Phase(q)
  PROVE  phaseBar' = phaseBar
  BY DEF phaseBar

\* ... and at most whether the stderr of one object has ended.
LEMMA EndedStep ==
  ASSUME NEW p \in Procs,
         broken' \in {broken, broken \cup {p}},
         UNCHANGED <<child, errUnread, errOpen>>
  PROVE  endedBar' = IF broken' = broken THEN endedBar ELSE endedBar \cup {p}
  BY DEF endedBar

-----------------------------------------------------------------------------
LEMMA InitImplements == Init => Contract!Init
<1> SUFFICES ASSUME Init
             PROVE  Contract!Init
  OBVIOUS
<1>1. \A p \in Procs : Phase(p) = "idle"
  BY DEF Init, Phase
<1>2. endedBar = {}
  BY DEF Init, endedBar
<1>q. QED
  BY <1>1, <1>2 DEF Init, Contract!Init, endedBar

\* The callbacks report for objects whose start succeeded and whose child is dead.
LEMMA ReportStep ==
  ASSUME IInv, NEW p \in Procs, child[p] = "reaped", pc[p] = "ok", app = "up", app' = app,
         exitEvents[p] = 0, exitEvents' = [exitEvents EXCEPT ![p] = @ + 1],
         UNCHANGED <<pc, child, errUnread, errOpen>>,
         broken' \in {broken, broken \cup {p}}, p \in endedBar'
  PROVE  Contract!Next
<1>1. Phase(p) = "dead" /\ Phase(p)' = "reported"
  BY DEF IInv, TypeOK, Phase
<1>2. \A q \in Procs \ {p} : Phase(q)' = Phase(q)
  BY DEF IInv, TypeOK, Phase
<1>3. phaseBar' = [phaseBar EXCEPT ![p] = "reported"]
  BY <1>1, <1>2, PhaseStep
<1>4. endedBar' = endedBar \cup {p}
  BY EndedStep
<1>q. QED
  BY <1>1, <1>3, <1>4 DEF Contract!Next, Contract!Report, Contract!Become, phaseBar, endedBar

-----------------------------------------------------------------------------
\* Every step of the program implements a step of the contract, or none.
LEMMA StepImplements == IInv /\ [Next]_vars => [Contract!Next]_(Contract!vars)
<1> SUFFICES ASSUME IInv, Next
             PROVE  Contract!Next \/ Stutter
  <2>1. UNCHANGED vars => Stutter
    BY DEF vars, Stutter, phaseBar, endedBar, upBar, Phase
  <2>q. QED
    BY <2>1 DEF Stutter, Contract!vars, phaseBar, endedBar, upBar
<1>t. TypeOK /\ TypeOK'
  BY TypeStep DEF IInv
<1>1. ASSUME NEW p \in Procs,
             \/ Construct(p) \/ StartTimer(p) \/ List(p) \/ SetPid(p)
             \/ ReadStartOut(p) \/ ReadStartErr(p)
      PROVE  Stutter
  BY <1>1, <1>t DEF Construct, StartTimer, List, SetPid, ReadStartOut, ReadStartErr,
                    Stutter, phaseBar, endedBar, upBar, Phase, TypeOK
<1>2. ASSUME NEW p \in Procs, app = "up", Fork(p)
      PROVE  Contract!Next
  <2>1. child[p] = "none" /\ exitEvents[p] = 0
    BY <1>2 DEF Fork, IInv, ChildInv, ReportInv
  <2>2. Phase(p) = "idle" /\ Phase(p)' = "live"
    BY <1>2, <2>1, <1>t DEF Fork, Phase, TypeOK
  <2>3. \A q \in Procs \ {p} : Phase(q)' = Phase(q)
    BY <1>2, <1>t DEF Fork, Phase, TypeOK
  <2>4. phaseBar' = [phaseBar EXCEPT ![p] = "live"]
    BY <2>2, <2>3, PhaseStep
  <2>5. endedBar' = endedBar
    BY <1>2, <2>1, <1>t DEF Fork, endedBar, TypeOK
  <2>q. QED
    BY <1>2, <2>2, <2>4, <2>5
       DEF Contract!Next, Contract!Start, Contract!Become, phaseBar, endedBar, Fork
<1>3. ASSUME NEW p \in Procs, app = "up", UvSpawnFails(p) \/ ReadStartFails(p)
      PROVE  Contract!Next
  <2>1. exitEvents[p] = 0 /\ exitEvents' = exitEvents
    BY <1>3 DEF UvSpawnFails, ReadStartFails, IInv, ChildInv, PidInv, ReportInv
  <2>2. app' = app
    <3>1. CASE UvSpawnFails(p)
      BY <3>1 DEF UvSpawnFails
    <3>2. CASE ReadStartFails(p)
      <4>1. "spawn" \in Sites /\ SigKill(p, "spawn") /\ ProcessPid(p) # NoPid
        BY <3>2 DEF Sites, ReadStartFails, IInv, ChildInv, ProcessPid
      <4>q. QED
        BY <4>1, <1>t, SigKillEffect
    <3>q. QED
      BY <1>3, <3>1, <3>2
  <2>3. Phase(p) \in {"idle", "live", "dead"} /\ Phase(p)' = "failed"
    BY <1>3, <2>1, <1>t DEF UvSpawnFails, ReadStartFails, Phase, TypeOK
  <2>4. \A q \in Procs \ {p} : Phase(q)' = Phase(q)
    BY <1>3, <1>t DEF UvSpawnFails, ReadStartFails, Phase, TypeOK
  <2>5. phaseBar' = [phaseBar EXCEPT ![p] = "failed"]
    BY <2>3, <2>4, PhaseStep
  <2>6. endedBar' = endedBar
    BY <1>3 DEF UvSpawnFails, ReadStartFails, endedBar
  <2>q. QED
    BY <1>3, <2>2, <2>3, <2>5, <2>6
       DEF Contract!Next, Contract!Fail, Contract!Become, phaseBar, endedBar
<1>4. CASE app = "up" /\ (Return \/ Sigchld)
  <2>1. \A q \in Procs : Phase(q)' = Phase(q)
    BY <1>4, <1>t DEF Return, Sigchld, Phase, TypeOK
  <2>2. UNCHANGED <<endedBar, upBar>>
    BY <1>4, <1>t DEF Return, Sigchld, endedBar, upBar, TypeOK
  <2>q. QED
    BY <2>1, <2>2, PhaseKept DEF Stutter
<1>5. ASSUME NEW p \in Procs, app = "up",
             \/ TimerCb(p) \/ TimerKill(p)
             \/ StdoutData(p) \/ StdoutEof(p) \/ StdoutError(p)
      PROVE  Contract!Next \/ Stutter
  <2>1. UNCHANGED <<phaseBar, endedBar>>
    BY <1>5 DEF TimerCb, TimerKill, StdoutData, StdoutEof, StdoutError,
                phaseBar, endedBar, Phase
  <2>2. app' \in {"up", "aborted", "killed"}
    BY <1>t DEF TypeOK
  <2>q. QED
    BY <1>5, <2>1, <2>2
       DEF Contract!Next, Contract!Crash, Stutter, phaseBar, endedBar, upBar
<1>6. ASSUME NEW p \in Procs, app = "up", ExitCb(p)
      PROVE  Contract!Next \/ Stutter
  <2>1. child[p] = "reaped" /\ exitEvents[p] = 0
    BY <1>6 DEF ExitCb, Reaped, IInv, ReportInv
  <2>4. CASE app' # app
    <3>1. app' = "aborted"
      BY <1>6, <2>4 DEF ExitCb, ClearTimer, UvClose
    <3>2. UNCHANGED <<phaseBar, endedBar>>
      BY <1>6, <2>4 DEF ExitCb, phaseBar, endedBar, Phase
    <3>q. QED
      BY <1>6, <3>1, <3>2 DEF Contract!Next, Contract!Crash, phaseBar, endedBar
  <2>2. CASE app' = app /\ stderrFlushed[p]
    <3>1. pc[p] = "ok" /\ p \in endedBar'
      BY <1>6, <2>1, <2>2 DEF ExitCb, IInv, ReportInv, PidInv, endedBar
    <3>q. QED
      BY <1>6, <2>1, <2>2, <3>1, ReportStep DEF ExitCb, EmitExitIf
  <2>3. CASE app' = app /\ ~stderrFlushed[p]
    BY <1>6, <2>1, <2>3
       DEF ExitCb, EmitExitIf, Stutter, phaseBar, endedBar, upBar, Phase
  <2>q. QED
    BY <2>2, <2>3, <2>4
<1>7. ASSUME NEW p \in Procs, app = "up",
             StderrEof(p) \/ StderrError(p)
      PROVE  Contract!Next \/ Stutter
  <2>1. /\ pc[p] = "ok" /\ child[p] # "none" /\ ProcessPid(p) # NoPid
        /\ exitEvents[p] = 0 /\ ~stderrFlushed[p]
    BY <1>7 DEF StderrEof, StderrError, IInv, ReportInv, PidInv, ChildInv, ProcessPid
  <2>2. app' = app
    BY <1>7, <2>1 DEF StderrEof, StderrError, SigTerm
  <2>3. /\ UNCHANGED <<pc, child, errUnread, errOpen>>
        /\ broken' \in {broken, broken \cup {p}}
        /\ p \in endedBar'
    BY <1>7, <2>1 DEF StderrEof, StderrError, CloseStderr, endedBar
  <2>4. CASE exited[p]
    <3>1. child[p] = "reaped"
      BY <2>4 DEF IInv, ChildInv
    <3>q. QED
      BY <1>7, <2>1, <2>2, <2>3, <2>4, <3>1, ReportStep
         DEF StderrEof, StderrError, CloseStderr, EmitExitIf
  <2>5. CASE ~exited[p]
    <3>1. exitEvents' = exitEvents
      BY <1>7, <2>5 DEF StderrEof, StderrError, CloseStderr, EmitExitIf
    <3>2. phaseBar' = phaseBar
      BY <2>3, <3>1 DEF phaseBar, Phase
    <3>3. endedBar' = endedBar \cup {p}
      BY <2>3, EndedStep
    <3>4. phaseBar[p] # "idle"
      BY <2>1 DEF phaseBar, Phase
    <3>q. QED
      BY <1>7, <2>2, <3>2, <3>3, <3>4 DEF Contract!Next, Contract!End, phaseBar, endedBar
  <2>q. QED
    BY <2>4, <2>5
<1>8. ASSUME NEW p \in Procs, app = "up",
             StderrData(p) \/ Write(p) \/ CloseStream(p)
      PROVE  Contract!Next \/ Stutter
  <2>1. phaseBar' = phaseBar /\ app' = app
    BY <1>8 DEF StderrData, Write, CloseStream, phaseBar, Phase
  <2>2. endedBar' \in {endedBar, endedBar \cup {p}}
    BY <1>8, <1>t DEF StderrData, Write, CloseStream, endedBar, TypeOK
  <2>3. CASE child[p] = "none"
    BY <1>8, <2>1, <2>3, <1>t DEF StderrData, Write, CloseStream, endedBar, Stutter, upBar, TypeOK
  <2>4. CASE child[p] # "none"
    <3>1. phaseBar[p] # "idle"
      BY <2>4 DEF phaseBar, Phase
    <3>q. QED
      BY <1>8, <2>1, <2>2, <3>1
         DEF Contract!Next, Contract!End, Stutter, phaseBar, endedBar, upBar
  <2>q. QED
    BY <2>3, <2>4
<1>9. ASSUME NEW p \in Procs, app = "up", Die(p)
      PROVE  Contract!Next \/ Stutter
  <2>1. child[p] = "running" /\ exitEvents[p] = 0 /\ app' = app
    BY <1>9 DEF Die, IInv, ReportInv, ChildInv
  <2>2. endedBar' \in {endedBar, endedBar \cup {p}}
    BY <1>9, <1>t DEF Die, endedBar, TypeOK
  <2>3. \A q \in Procs \ {p} : Phase(q)' = Phase(q)
    BY <1>9, <1>t DEF Die, Phase, TypeOK
  <2>4. CASE pc[p] = "error"
    <3>1. Phase(p) = "failed" /\ Phase(p)' = "failed"
      BY <1>9, <2>1, <2>4 DEF Die, Phase
    <3>2. phaseBar' = phaseBar /\ phaseBar[p] # "idle"
      BY <2>3, <3>1, PhaseKept DEF phaseBar
    <3>q. QED
      BY <1>9, <2>1, <2>2, <3>2
         DEF Contract!Next, Contract!End, Stutter, phaseBar, endedBar, upBar
  <2>5. CASE pc[p] # "error"
    <3>1. Phase(p) = "live" /\ Phase(p)' = "dead"
      BY <1>9, <2>1, <2>5, <1>t DEF Die, Phase, TypeOK
    <3>2. phaseBar' = [phaseBar EXCEPT ![p] = "dead"]
      BY <2>3, <3>1, PhaseStep
    <3>q. QED
      BY <1>9, <2>1, <2>2, <3>1, <3>2
         DEF Contract!Next, Contract!Die, Contract!Become, phaseBar, endedBar
  <2>q. QED
    BY <2>4, <2>5
<1>10. CASE Done
  BY <1>10 DEF Done, vars, Stutter, phaseBar, endedBar, upBar, Phase
<1>q. QED
  BY <1>1, <1>2, <1>3, <1>4, <1>5, <1>6, <1>7, <1>8, <1>9, <1>10
     DEF Next, LoopStep, SpawnStep, ChildStep

\* The class keeps the safety part of its contract: see ImplementsContract.
THEOREM Refinement == Spec => ImplementsContract
<1>1. Init => Contract!Init
  BY InitImplements
<1>2. IInv /\ [Next]_vars => [Contract!Next]_(Contract!vars)
  BY StepImplements
<1>q. QED
  BY <1>1, <1>2, Invariant, PTL DEF Spec, ImplementsContract, Contract!Spec
=============================================================================
