-------------------------- MODULE DoryProcessSpawn --------------------------
(***************************************************************************)
(* The C++ class of DoryProcessSpawn.hpp: one object supervises one child. *)
(*                                                                         *)
(* Two kinds of threads touch an object.  The thread that starts a child   *)
(* executes spawn() statement by statement (pc[p] is the next statement).  *)
(* The single loop thread runs every callback: exit_cb, the timer callback *)
(* and the two read callbacks.  The loop is already running while spawn()  *)
(* executes, and spawn() takes no lock, so callbacks interleave with its   *)
(* statements.                                                             *)
(*                                                                         *)
(* Every emit(...) runs the user's function on the loop thread: cb stays   *)
(* set until that function returns, while the other threads go on.         *)
(*                                                                         *)
(* libuv and the kernel are external: they are modelled by what the class  *)
(* relies on, one atomic step per libuv call.                              *)
(***************************************************************************)
EXTENDS Naturals, FiniteSets

CONSTANTS
  Procs,      \* the DoryProcessSpawn objects, each started at most once
  Pids,       \* process ids the kernel can hand out
  NoPid,      \* the value of a pid field nothing was assigned to yet
  PipeSize    \* bound: unread chunks a pipe holds before its writer blocks

ASSUME PidAssumption == NoPid \notin Pids \cup Procs
ASSUME PipeAssumption == PipeSize \in Nat

VARIABLES
  \* the object
  pc,             \* next statement of spawn(), see Statements
  timer,          \* uv_timer_t: "raw" (never initialised), "active", "closed"
  procPid,        \* the child's pid, in process.pid once uv_spawn returned
  pid,            \* this->pid
  pipeOut,        \* uv_pipe_t: "init", "reading", "closed"
  pipeErr,
  exited,
  stderrFlushed,
  \* the operating system
  child,          \* "none", "running", "zombie", "reaped"
  sigchld,        \* a SIGCHLD waits for the loop
  doomed,         \* SIGKILL is pending for the child
  outOpen,        \* someone still holds the write end of the child's stdout
  errOpen,
  outUnread,      \* chunks written and not yet read
  errUnread,
  \* the loop thread and the application
  cb,             \* the emit in progress: Idle or [ev |-> ..., proc |-> ...]
  app,            \* "up", "aborted" (assertion inside libuv), "killed"
  \* history
  exitEvents,     \* how often "exit" was emitted
  broken,         \* objects whose stderr ended with an error other than UV_EOF
  strays          \* signals sent to a pid that did not name the object's own child

pidVars == <<procPid, pid>>
pipeVars == <<pipeOut, pipeErr>>
flagVars == <<exited, stderrFlushed>>
objectVars == <<timer, pidVars, pipeVars, flagVars>>
openVars == <<outOpen, errOpen>>
unreadVars == <<outUnread, errUnread>>
streamVars == <<openVars, unreadVars>>
lifeVars == <<child, sigchld>>
childVars == <<lifeVars, doomed, streamVars>>
historyVars == <<exitEvents, broken, strays>>
loopVars == <<cb, app, historyVars>>
vars == <<pc, objectVars, childVars, loopVars>>

-----------------------------------------------------------------------------
(* Domains *)

Statements == {"construct", "timer", "uv_spawn", "list", "pid", "readOut", "readErr",
               "ok", "error"}
Events == {"stdout", "stderr", "exit", "timeout", "sigkill"}
Idle == [ev |-> "none", proc |-> NoPid]
Callbacks == {Idle} \cup [ev : Events, proc : Procs]
Sites == {"timer", "read", "spawn"}
Strays == [site : Sites, why : {"unset", "reaped"}, proc : Procs]

TypeOK ==
  /\ pc \in [Procs -> Statements]
  /\ timer \in [Procs -> {"raw", "active", "closed"}]
  /\ procPid \in [Procs -> Pids \cup {NoPid}]
  /\ pid \in [Procs -> Pids \cup {NoPid}]
  /\ pipeOut \in [Procs -> {"init", "reading", "closed"}]
  /\ pipeErr \in [Procs -> {"init", "reading", "closed"}]
  /\ exited \in [Procs -> BOOLEAN]
  /\ stderrFlushed \in [Procs -> BOOLEAN]
  /\ child \in [Procs -> {"none", "running", "zombie", "reaped"}]
  /\ sigchld \in BOOLEAN
  /\ doomed \in [Procs -> BOOLEAN]
  /\ outOpen \in [Procs -> BOOLEAN]
  /\ errOpen \in [Procs -> BOOLEAN]
  /\ outUnread \in [Procs -> 0..PipeSize]
  /\ errUnread \in [Procs -> 0..PipeSize]
  /\ cb \in Callbacks
  /\ app \in {"up", "aborted", "killed"}
  /\ exitEvents \in [Procs -> Nat]
  /\ broken \in SUBSET Procs
  /\ strays \in SUBSET Strays

Init ==
  /\ pc = [p \in Procs |-> "construct"]
  /\ timer = [p \in Procs |-> "raw"]
  /\ procPid = [p \in Procs |-> NoPid]
  /\ pid = [p \in Procs |-> NoPid]
  /\ pipeOut = [p \in Procs |-> "init"]
  /\ pipeErr = [p \in Procs |-> "init"]
  /\ exited = [p \in Procs |-> FALSE]
  /\ stderrFlushed = [p \in Procs |-> FALSE]
  /\ child = [p \in Procs |-> "none"]
  /\ sigchld = FALSE
  /\ doomed = [p \in Procs |-> FALSE]
  /\ outOpen = [p \in Procs |-> FALSE]
  /\ errOpen = [p \in Procs |-> FALSE]
  /\ outUnread = [p \in Procs |-> 0]
  /\ errUnread = [p \in Procs |-> 0]
  /\ cb = Idle
  /\ app = "up"
  /\ exitEvents = [p \in Procs |-> 0]
  /\ broken = {}
  /\ strays = {}

-----------------------------------------------------------------------------
(* Signals *)

Alive(p) == child[p] \in {"running", "zombie"}    \* still owns its pid
Free == {n \in Pids : \A q \in Procs : Alive(q) => procPid[q] # n}

\* process.pid, which uv_spawn assigns at its end.
ProcessPid(p) == IF pc[p] = "list" THEN NoPid ELSE procPid[p]

(***************************************************************************)
(* uv_process_kill(&process, signum) is kill(process.pid, signum).  The    *)
(* signal reaches the child that owns that pid now, if any.  A pid field   *)
(* nothing was assigned to can hold anything: the signal then reaches      *)
(* nobody, any one of the running children, or (0, -1) the application.    *)
(***************************************************************************)
Receivers(p) ==
  {{q \in Procs : child[q] = "running" /\ procPid[q] = ProcessPid(p)}}
WildReceivers ==
  {{}} \cup {{q} : q \in {r \in Procs : child[r] = "running"}}

Stray(p, site) ==
  IF ProcessPid(p) = NoPid THEN {[site |-> site, why |-> "unset", proc |-> p]}
  ELSE IF ~Alive(p)        THEN {[site |-> site, why |-> "reaped", proc |-> p]}
  ELSE {}

\* A SIGTERM may be ignored, and a child may exit at any time (Die).
SigTerm(p, site) ==
  /\ strays' = strays \cup Stray(p, site)
  /\ UNCHANGED doomed
  /\ app' \in IF ProcessPid(p) = NoPid THEN {app, "killed"} ELSE {app}

\* A SIGKILL cannot be ignored: a child that receives it is doomed.
SigKill(p, site) ==
  /\ strays' = strays \cup Stray(p, site)
  /\ \/ \E hit \in IF ProcessPid(p) = NoPid THEN WildReceivers ELSE Receivers(p) :
          /\ doomed' = [q \in Procs |-> doomed[q] \/ q \in hit]
          /\ app' = app
     \/ /\ ProcessPid(p) = NoPid
        /\ app' = "killed"
        /\ doomed' = doomed

-----------------------------------------------------------------------------
(* The thread that starts p *)

At(p, statement) == pc[p] = statement
Goto(p, statement) == pc' = [pc EXCEPT ![p] = statement]

\* The constructor (with uv_pipe_init of both pipes), the on(...) calls of the
\* caller, and the caller's choice of timeout.  Nothing initialises timer.
Construct(p) ==
  /\ At(p, "construct")
  /\ \/ Goto(p, "timer")         \* timeout > 0
     \/ Goto(p, "uv_spawn")
  /\ UNCHANGED <<objectVars, childVars, loopVars>>

\* uv_timer_init and uv_timer_start, before there is a child.
StartTimer(p) ==
  /\ At(p, "timer")
  /\ timer' = [timer EXCEPT ![p] = "active"]
  /\ Goto(p, "uv_spawn")
  /\ UNCHANGED <<pidVars, pipeVars, flagVars, childVars, loopVars>>

\* uv_spawn succeeds: the child runs, its pid is any pid no unreaped child owns ...
Fork(p) ==
  /\ At(p, "uv_spawn")
  /\ \E n \in Free : procPid' = [procPid EXCEPT ![p] = n]
  /\ child' = [child EXCEPT ![p] = "running"]
  /\ outOpen' = [outOpen EXCEPT ![p] = TRUE]
  /\ errOpen' = [errOpen EXCEPT ![p] = TRUE]
  /\ Goto(p, "list")
  /\ UNCHANGED <<timer, pid, pipeVars, flagVars, sigchld, doomed, unreadVars, loopVars>>

\* ... and only then, after exec, enters the loop's list of children to wait for,
\* and sets process.pid.
List(p) ==
  /\ At(p, "list")
  /\ Goto(p, "pid")
  /\ UNCHANGED <<objectVars, childVars, loopVars>>

\* uv_spawn fails: return r.  The timer started before keeps running.
UvSpawnFails(p) ==
  /\ At(p, "uv_spawn")
  /\ Goto(p, "error")
  /\ UNCHANGED <<objectVars, childVars, loopVars>>

\* pid = process.pid
SetPid(p) ==
  /\ At(p, "pid")
  /\ pid' = [pid EXCEPT ![p] = procPid[p]]
  /\ Goto(p, "readOut")
  /\ UNCHANGED <<timer, procPid, pipeVars, flagVars, childVars, loopVars>>

\* uv_read_start on the stdout pipe, then on the stderr pipe, then return 0.
ReadStartOut(p) ==
  /\ At(p, "readOut")
  /\ pipeOut' = [pipeOut EXCEPT ![p] = "reading"]
  /\ Goto(p, "readErr")
  /\ UNCHANGED <<timer, pidVars, pipeErr, flagVars, childVars, loopVars>>

ReadStartErr(p) ==
  /\ At(p, "readErr")
  /\ pipeErr' = [pipeErr EXCEPT ![p] = "reading"]
  /\ Goto(p, "ok")
  /\ UNCHANGED <<timer, pidVars, pipeOut, flagVars, childVars, loopVars>>

\* uv_read_start fails on either pipe: kill(); return r.
ReadStartFails(p) ==
  /\ pc[p] \in {"readOut", "readErr"}
  /\ SigKill(p, "spawn")
  /\ Goto(p, "error")
  /\ UNCHANGED <<objectVars, lifeVars, streamVars, cb, exitEvents, broken>>

\* One statement of spawn().
SpawnStep(p) ==
  \/ StartTimer(p)
  \/ Fork(p)
  \/ List(p)
  \/ UvSpawnFails(p)
  \/ SetPid(p)
  \/ ReadStartOut(p)
  \/ ReadStartErr(p)
  \/ ReadStartFails(p)

-----------------------------------------------------------------------------
(* The loop thread *)

\* Children reaped by the SIGCHLD being served whose exit_cb has not run yet.
Reaped == {p \in Procs : child[p] = "reaped" /\ ~exited[p]}
LoopIdle == cb = Idle /\ Reaped = {}
Emit(event, p) == cb' = [ev |-> event, proc |-> p]

\* The user's function returns.  After "timeout" the timer callback goes on.
Return ==
  /\ cb.ev \in {"stdout", "stderr", "exit", "timeout"}
  /\ cb' = IF cb.ev = "timeout" THEN [cb EXCEPT !.ev = "sigkill"] ELSE Idle
  /\ UNCHANGED <<pc, objectVars, childVars, app, historyVars>>

\* uv_close(&timer): asserts that the handle is of a known type and not closing yet.
UvClose(p) ==
  IF timer[p] = "active"
    THEN timer' = [timer EXCEPT ![p] = "closed"] /\ app' = app
    ELSE app' = "aborted" /\ timer' = timer

\* Faulty variants: no test of uv_is_closing, and the test inverted, so that nothing is
\* ever closed.
ClearTimerTwice(p) ==
  \/ UvClose(p)
  \/ timer[p] = "raw" /\ UNCHANGED <<timer, app>>
ClearTimerNever(p) == UNCHANGED <<timer, app>>

\* _clearTimer(): uv_close unless uv_is_closing.  The memory of a timer that was
\* never initialised may look like a handle that is closing, or not.
ClearTimer(p) ==
  \/ timer[p] # "active" /\ UNCHANGED <<timer, app>>
  \/ timer[p] # "closed" /\ UvClose(p)

\* The timer fires (not repeating): clear it and emit "timeout" ...
TimerCb(p) ==
  /\ LoopIdle
  /\ timer[p] = "active"
  /\ ClearTimer(p)
  /\ Emit("timeout", p)
  /\ UNCHANGED <<pc, pidVars, pipeVars, flagVars, childVars, historyVars>>

\* ... and then uv_process_kill(&child->process, SIGKILL).
TimerKill(p) ==
  /\ cb = [ev |-> "sigkill", proc |-> p]
  /\ SigKill(p, "timer")
  /\ cb' = Idle
  /\ UNCHANGED <<pc, objectVars, lifeVars, streamVars, exitEvents, broken>>

\* SIGCHLD: libuv reaps every zombie in its list, and only then calls their exit_cb
\* one after the other.  A child that uv_spawn has not listed yet is overlooked.
Sigchld ==
  /\ LoopIdle
  /\ sigchld
  /\ sigchld' = FALSE
  /\ child' = [p \in Procs |->
                IF child[p] = "zombie" /\ pc[p] # "list" THEN "reaped" ELSE child[p]]
  /\ UNCHANGED <<pc, objectVars, doomed, streamVars, loopVars>>

\* Faulty variant: each callback reports without waiting for the other one.
EmitExitAlways(condition, p) ==
  /\ Emit("exit", p)
  /\ exitEvents' = [exitEvents EXCEPT ![p] = @ + 1]

\* emit("exit", ...) if the other half of the exit condition already holds.
EmitExitIf(condition, p) ==
  IF condition
    THEN /\ Emit("exit", p)
         /\ exitEvents' = [exitEvents EXCEPT ![p] = @ + 1]
    ELSE UNCHANGED <<cb, exitEvents>>

\* exit_cb: the timer is cleared if timer.loop is the loop.  An initialised timer passes
\* that test, the memory of any other may pass or not.  Nothing follows an abort.
ExitCb(p) ==
  /\ cb = Idle
  /\ p \in Reaped
  /\ ClearTimer(p) \/ (timer[p] = "raw" /\ UNCHANGED <<timer, app>>)
  /\ IF app' = app
       THEN exited' = [exited EXCEPT ![p] = TRUE] /\ EmitExitIf(stderrFlushed[p], p)
       ELSE UNCHANGED <<exited, cb, exitEvents>>
  /\ UNCHANGED <<pc, pidVars, pipeVars, stderrFlushed, childVars, broken, strays>>

\* Faulty variant: nread >= 0 taken for data.
StdoutDataOrNone(p) ==
  /\ LoopIdle
  /\ pipeOut[p] = "reading"
  /\ outUnread' = [outUnread EXCEPT ![p] = @ - 1]
  /\ Emit("stdout", p)
  /\ UNCHANGED <<pc, objectVars, lifeVars, doomed, openVars, errUnread, app,
                 historyVars>>

\* The stdout read callback: data ...
StdoutData(p) ==
  /\ LoopIdle
  /\ pipeOut[p] = "reading"
  /\ outUnread[p] > 0
  /\ outUnread' = [outUnread EXCEPT ![p] = @ - 1]
  /\ Emit("stdout", p)
  /\ UNCHANGED <<pc, objectVars, lifeVars, doomed, openVars, errUnread, app,
                 historyVars>>

\* ... or the end of the stream: close the pipe.
StdoutEof(p) ==
  /\ LoopIdle
  /\ pipeOut[p] = "reading"
  /\ outUnread[p] = 0 /\ ~outOpen[p]
  /\ pipeOut' = [pipeOut EXCEPT ![p] = "closed"]
  /\ UNCHANGED <<pc, timer, pidVars, pipeErr, flagVars, childVars, loopVars>>

\* Any other error: kill(SIGTERM), then close the pipe.
StdoutError(p) ==
  /\ LoopIdle
  /\ pipeOut[p] = "reading"
  /\ SigTerm(p, "read")
  /\ pipeOut' = [pipeOut EXCEPT ![p] = "closed"]
  /\ UNCHANGED <<pc, timer, pidVars, pipeErr, flagVars, lifeVars, streamVars, cb,
                 exitEvents, broken>>

StderrData(p) ==
  /\ LoopIdle
  /\ pipeErr[p] = "reading"
  /\ errUnread[p] > 0
  /\ errUnread' = [errUnread EXCEPT ![p] = @ - 1]
  /\ Emit("stderr", p)
  /\ UNCHANGED <<pc, objectVars, lifeVars, doomed, openVars, outUnread, app,
                 historyVars>>

\* Faulty variant: stderrFlushed is not set.
CloseStderrUnflagged(p) ==
  /\ pipeErr' = [pipeErr EXCEPT ![p] = "closed"]
  /\ EmitExitIf(exited[p], p)
  /\ UNCHANGED <<pc, timer, pidVars, pipeOut, flagVars, lifeVars, streamVars>>

\* End or failure of stderr: close the pipe, set stderrFlushed and emit "exit"
\* if exit_cb has already run.
CloseStderr(p) ==
  /\ pipeErr' = [pipeErr EXCEPT ![p] = "closed"]
  /\ stderrFlushed' = [stderrFlushed EXCEPT ![p] = TRUE]
  /\ EmitExitIf(exited[p], p)
  /\ UNCHANGED <<pc, timer, pidVars, pipeOut, exited, lifeVars, streamVars>>

StderrEof(p) ==
  /\ LoopIdle
  /\ pipeErr[p] = "reading"
  /\ errUnread[p] = 0 /\ ~errOpen[p]
  /\ CloseStderr(p)
  /\ UNCHANGED <<doomed, app, broken, strays>>

StderrError(p) ==
  /\ LoopIdle
  /\ pipeErr[p] = "reading"
  /\ SigTerm(p, "read")
  /\ broken' = broken \cup {p}
  /\ CloseStderr(p)

LoopStep ==
  \/ Return
  \/ Sigchld
  \/ \E p \in Procs :
       \/ TimerCb(p) \/ TimerKill(p) \/ ExitCb(p)
       \/ StdoutData(p) \/ StdoutEof(p) \/ StdoutError(p)
       \/ StderrData(p) \/ StderrEof(p) \/ StderrError(p)

-----------------------------------------------------------------------------
(* The children *)

\* The child, or a descendant that inherited the stream, writes a chunk.
Write(p) ==
  /\ \/ /\ outOpen[p] /\ outUnread[p] < PipeSize /\ pipeOut[p] # "closed"
        /\ outUnread' = [outUnread EXCEPT ![p] = @ + 1]
        /\ errUnread' = errUnread
     \/ /\ errOpen[p] /\ errUnread[p] < PipeSize /\ pipeErr[p] # "closed"
        /\ errUnread' = [errUnread EXCEPT ![p] = @ + 1]
        /\ outUnread' = outUnread
  /\ UNCHANGED <<pc, objectVars, lifeVars, doomed, openVars, loopVars>>

\* The last holder of a write end closes it (the child need not have exited).
CloseStream(p) ==
  /\ \/ outOpen[p] /\ outOpen' = [outOpen EXCEPT ![p] = FALSE] /\ errOpen' = errOpen
     \/ errOpen[p] /\ errOpen' = [errOpen EXCEPT ![p] = FALSE] /\ outOpen' = outOpen
  /\ UNCHANGED <<pc, objectVars, lifeVars, doomed, unreadVars, loopVars>>

\* The child exits or is killed.  Its write ends close unless a descendant
\* holds them as well.
Die(p) ==
  /\ child[p] = "running"
  /\ child' = [child EXCEPT ![p] = "zombie"]
  /\ sigchld' = TRUE
  /\ \E inherited \in SUBSET {"out", "err"} :
       /\ outOpen' = [outOpen EXCEPT ![p] = @ /\ "out" \in inherited]
       /\ errOpen' = [errOpen EXCEPT ![p] = @ /\ "err" \in inherited]
  /\ UNCHANGED <<pc, objectVars, doomed, unreadVars, loopVars>>

DieOfSigKill(p) == doomed[p] /\ Die(p)

ChildStep(p) == Write(p) \/ CloseStream(p) \/ Die(p)

-----------------------------------------------------------------------------
(* The specification *)

\* The child died, and the SIGCHLD of its death came before it was listed: it is not
\* reaped until another child dies.
Overlooked(p) == child[p] = "zombie" /\ ~sigchld

\* Every object was started, every child reaped or overlooked, every stream closed and
\* no timer runs: only the watchdog timer of the loop is left.
Quiet(p) ==
  /\ pc[p] \in {"ok", "error"}
  /\ child[p] \in {"none", "reaped"} \/ Overlooked(p)
  /\ timer[p] # "active"
  /\ pipeOut[p] # "reading" /\ pipeErr[p] # "reading"
  /\ ~outOpen[p] /\ ~errOpen[p]

Done ==
  /\ app # "up" \/ (LoopIdle /\ \A p \in Procs : Quiet(p))
  /\ UNCHANGED vars

Next ==
  \/ /\ app = "up"
     /\ \/ LoopStep
        \/ \E p \in Procs : Construct(p) \/ SpawnStep(p) \/ ChildStep(p)
  \/ Done

Up(A) == app = "up" /\ A

(***************************************************************************)
(* Fairness.  The starting thread runs on; a listener returns; a signal    *)
(* that cannot be ignored kills.  The loop thread serves every ready       *)
(* source once per iteration, but other callbacks disable a source in      *)
(* between, hence the strong fairness of its sources.  A SIGCHLD is such a *)
(* source, a zombie is not: it is reaped only if it was listed in time.    *)
(***************************************************************************)
Fairness ==
  /\ WF_vars(Up(Return))
  /\ SF_vars(Up(Sigchld))
  /\ \A p \in Procs :
       /\ WF_vars(Up(SpawnStep(p)))
       /\ WF_vars(Up(DieOfSigKill(p)))
       /\ WF_vars(Up(TimerKill(p)))
       /\ SF_vars(Up(TimerCb(p)))
       /\ SF_vars(Up(ExitCb(p)))
       /\ SF_vars(Up(StdoutData(p) \/ StdoutEof(p)))
       /\ SF_vars(Up(StderrData(p) \/ StderrEof(p)))

Spec == Init /\ [][Next]_vars
FairSpec == Spec /\ Fairness

-----------------------------------------------------------------------------
(* Properties *)

\* The object's part of the contract: what the starting program can know.
Phase(p) ==
  IF exitEvents[p] > 0 THEN "reported"
  ELSE IF pc[p] = "error" THEN "failed"
  ELSE CASE child[p] = "none"    -> "idle"
         [] child[p] = "running" -> "live"
         [] OTHER                -> "dead"

Contract == INSTANCE ExitReport WITH
  phase <- [p \in Procs |-> Phase(p)],
  ended <- broken \cup
             {p \in Procs : child[p] # "none" /\ errUnread[p] = 0 /\ ~errOpen[p]},
  up <- (app = "up")

\* Whatever the order of the callbacks, the starting thread and the children:
\* "exit" is reported at most once, only for a child that died after a start
\* that succeeded, and not before the end of its stderr was read (exit_cb and
\* the stderr callback each report if the other one came first).
ImplementsContract == Contract!Spec

\* And it is reported eventually once the child is dead and no descendant holds
\* its stderr any more, unless the child stays overlooked for ever.
ExitReported ==
  \A p \in Procs : Contract!Due(p) ~> (Contract!Answered(p) \/ []Overlooked(p))

\* "exit" was emitted exactly once if exit_cb ran and stderr ended, and never
\* before; then no stderr output is left behind unless reading it failed.
ExitComplete ==
  \A p \in Procs :
    /\ exitEvents[p] = IF exited[p] /\ stderrFlushed[p] THEN 1 ELSE 0
    /\ exitEvents[p] > 0 => (errUnread[p] = 0 /\ ~errOpen[p]) \/ p \in broken

\* Once "exit" was reported for an object nothing but stdout is reported for it:
\* no stderr output, no timeout, no second exit.
ExitIsLast ==
  [][\A p \in Procs :
       exitEvents[p] > 0 /\ cb' # cb /\ cb'.proc = p => cb'.ev = "stdout"]_vars

\* The listeners for output and exit never see a pid nobody assigned: spawn()
\* sets pid before it reads a pipe, and exit waits for stderr.
EventsCarryPid ==
  cb.ev \in {"stdout", "stderr", "exit"} =>
    pid[cb.proc] = procPid[cb.proc] /\ pid[cb.proc] # NoPid

\* The SIGKILL of the timer callback never goes to a pid that was already given
\* back to the kernel: exit_cb clears the timer, and nothing is reaped between
\* the timer callback's clearing of the timer and its kill.
TimerKillOnTarget ==
  \A s \in strays : s.site = "timer" => s.why # "reaped"

\* A SIGKILL went to a pid that nobody had assigned yet, because the deadline
\* passed before uv_spawn had returned, or to the pid of a child reaped before
\* spawn() came to its error path.
KillWentAstray ==
  \E s \in strays :
    \/ s.site = "timer" /\ s.why = "unset"
    \/ s.site = "spawn" /\ s.why = "reaped"

\* A child is sent SIGKILL by its own deadline or by its own failed start, unless
\* a kill went astray.
OnlyOwnChildKilled ==
  \A p \in Procs :
    doomed[p] => timer[p] = "closed" \/ pc[p] = "error" \/ KillWentAstray

\* The timer fired before uv_spawn had set the pid its SIGKILL goes to.
FiredTooEarly(p) == [site |-> "timer", why |-> "unset", proc |-> p] \in strays

\* A child that outlives its deadline was sent SIGKILL, or is about to be, or
\* the deadline passed before there was a pid to kill.
DeadlineEnforced ==
  \A p \in Procs :
    timer[p] = "closed" /\ child[p] = "running" =>
      \/ doomed[p]
      \/ cb.proc = p /\ cb.ev \in {"timeout", "sigkill"}
      \/ FiredTooEarly(p)

\* libuv's assertions hold: the timer callback and exit_cb, in either order, never
\* close a timer twice.  Only exit_cb may mistake a timer that was never initialised
\* for one that was.
AbortOnlyByRawTimer ==
  app = "aborted" => \E p \in Reaped : timer[p] = "raw"

\* A child started with a timeout does not run forever, unless the deadline
\* passed before there was a pid to kill.
TimeoutEndsChild ==
  \A p \in Procs :
    (timer[p] # "raw" /\ child[p] = "running")
      ~> (child[p] # "running" \/ FiredTooEarly(p) \/ app # "up")

\* What the code's comments and callers say, and the code does not keep.

\* "if (child->timer.loop == child->uv_loop) // which is initialized": exit_cb
\* passes only initialised timers to uv_close.
ClosesInitialisedTimers == app # "aborted"

\* "to test timeout : /system/bin/top with p.start(1000*5)": a timeout ends the
\* child.
TimeoutAlwaysEndsChild ==
  \A p \in Procs :
    (timer[p] # "raw" /\ child[p] = "running") ~> (child[p] # "running" \/ app # "up")
=============================================================================
