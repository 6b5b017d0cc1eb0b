------------------------------ MODULE LoopTime ------------------------------
(***************************************************************************)
(* The event loop of the library and its time: the thread of loop() in     *)
(* dorypuppy.cpp, the watchdog timer that keeps it alive, and the timers,  *)
(* children and pipes that spawn() registers from other threads.           *)
(*                                                                         *)
(* The loop waits in poll() until its next timer is due.  A registration   *)
(* made by another thread meanwhile does not wake it: timers and pipes are *)
(* seen when the loop wakes for another reason, at the latest for the      *)
(* watchdog.  SIGCHLD does wake it, but only children that uv_spawn has    *)
(* already entered into its list are looked for then.  A timer counts from *)
(* the time the loop read last, not from the present one; so does the      *)
(* length of a poll(), which begins only when the callbacks are done.      *)
(*                                                                         *)
(* One iteration of libuv's uv_run is modelled as far as it matters here:  *)
(* read the clock, run the timers that are due, wait, read the clock, run  *)
(* the callbacks of the pipes and of SIGCHLD.  The class's own callbacks   *)
(* are in DoryProcessSpawn; here they only take time.                      *)
(***************************************************************************)
EXTENDS Integers, FiniteSets

CONSTANTS
  Procs,      \* the DoryProcessSpawn objects
  Timeouts,   \* bound: the timeouts start() is called with
  Period,     \* repeat of the watchdog timer (1000 ms in the code)
  Busy,       \* bound: how long the callbacks of one iteration take
  Width,      \* bound: number of values of the unsigned time (2^64 in the code)
  MaxTime,    \* bound: the clock stops here
  None

ASSUME PeriodAssumption == Period \in Nat \ {0}
ASSUME BusyAssumption == Busy \in Nat
\* A timeout is a jlong, as wide as the time but signed; the clock stays in its lower half.
ASSUME TimeoutsAssumption == Timeouts \subseteq {t \in Int : -Width <= 2 * t /\ 2 * t < Width}
ASSUME WidthAssumption == Width \in Nat /\ MaxTime \in Nat /\ 2 * MaxTime < Width - 2
ASSUME NoneAssumption == None \notin Int \cup Procs

Time == 0..(Width - 1)
Forever == Width - 1          \* the largest unsigned value

\* The three things spawn() registers with the loop.
Parts == {"timer", "child", "pipes"}

VARIABLES
  now,        \* the clock
  time,       \* loop->time, the clock as the loop read it last
  loop,       \* what the loop thread does, see LoopSteps
  since,      \* when the callbacks of this iteration began
  wake,       \* when the present poll() ends at the latest
  watchdog,   \* when the watchdog timer is due, None before loop() started it
  pc,         \* the next call of spawn() for each object
  timeout,    \* the timeout it was given
  due,        \* when its timer is due, None if it has none
  queued,     \* objects whose pipes were registered since the last poll() began
  polled,     \* objects whose pipes poll() watches
  readyAt,    \* since when there is something to read and, if it was, the pipe registered;
              \* None if there is nothing
  sigchld,    \* a SIGCHLD was not served yet
  children,   \* the objects in the loop's list of children
  exitAt,     \* when the child exited, None if it has not
  reaped,     \* objects whose exit_cb was called
  up,         \* the application lives
  startedAt,  \* history: when a timer was started
  firedAt,    \* history: when it fired
  torn,       \* history: what was registered while the loop thread used the same list
  missed      \* history: objects whose SIGCHLD was served before uv_spawn had listed them

clockVars == <<now, time>>
loopVars == <<loop, since, wake, watchdog>>
timerVars == <<timeout, due>>
pipeVars == <<queued, polled, readyAt>>
childVars == <<sigchld, children, exitAt, reaped>>
historyVars == <<startedAt, firedAt, torn, missed>>
vars == <<clockVars, loopVars, pc, timerVars, pipeVars, childVars, up, historyVars>>

LoopSteps == {"start", "update", "timers", "enter", "poll", "events"}

TypeOK ==
  /\ now \in 0..MaxTime
  /\ time \in 0..MaxTime
  /\ loop \in LoopSteps
  /\ since \in 0..MaxTime
  /\ wake \in Nat
  /\ watchdog \in Time \cup {None}
  /\ pc \in [Procs -> {"timer", "fork", "list", "read", "done"}]
  /\ timeout \in [Procs -> Timeouts \cup {None}]
  /\ due \in [Procs -> Time \cup {None}]
  /\ queued \in SUBSET Procs
  /\ polled \in SUBSET Procs
  /\ readyAt \in [Procs -> 0..MaxTime \cup {None}]
  /\ sigchld \in BOOLEAN
  /\ children \in SUBSET Procs
  /\ exitAt \in [Procs -> 0..MaxTime \cup {None}]
  /\ reaped \in SUBSET Procs
  /\ up \in BOOLEAN
  /\ startedAt \in [Procs -> 0..MaxTime \cup {None}]
  /\ firedAt \in [Procs -> 0..MaxTime \cup {None}]
  /\ torn \in SUBSET (Procs \X Parts)
  /\ missed \in SUBSET Procs

Init ==
  /\ now = 0
  /\ time = 0
  /\ loop = "start"
  /\ since = 0
  /\ wake = 0
  /\ watchdog = None
  /\ pc = [p \in Procs |-> "timer"]
  /\ timeout = [p \in Procs |-> None]
  /\ due = [p \in Procs |-> None]
  /\ queued = {}
  /\ polled = {}
  /\ readyAt = [p \in Procs |-> None]
  /\ sigchld = FALSE
  /\ children = {}
  /\ exitAt = [p \in Procs |-> None]
  /\ reaped = {}
  /\ up = TRUE
  /\ startedAt = [p \in Procs |-> None]
  /\ firedAt = [p \in Procs |-> None]
  /\ torn = {}
  /\ missed = {}

-----------------------------------------------------------------------------
(* Unsigned time *)

\* The jlong that start() was given, as the uint64_t timeout of the object.
UnsignedNarrow(t) == t % (Width \div 8)   \* faulty variant: a narrower type

Unsigned(t) == t % Width

\* uv_timer_start: loop->time + timeout; a sum that overflows becomes the largest value.
DueUnclamped(t) == time + Unsigned(t)   \* faulty variant: no regard to overflow

Due(t) ==
  LET sum == (time + Unsigned(t)) % Width
  IN IF sum < Unsigned(t) THEN Forever ELSE sum

-----------------------------------------------------------------------------
(* spawn(), on any thread *)

Goto(p, step) == pc' = [pc EXCEPT ![p] = step]

\* spawn() changes a list of the loop without a lock.  If the loop thread works on the
\* same list at that moment this is a data race: the change may be lost, and what the
\* race leaves behind may end the application.  Among the callbacks of "events" it is
\* exit_cb that takes a child and its timer out, and the read callbacks that close pipes.
Readable == {p \in polled : readyAt[p] # None}

InUse(part) ==
  CASE part = "timer" -> loop \in {"start", "timers", "enter"} \/ (loop = "events" /\ sigchld)
    [] part = "child" -> loop = "events" /\ sigchld
    [] part = "pipes" -> loop = "enter" \/ (loop = "events" /\ Readable # {})

Change(p, part, list, changed) ==
  /\ torn' = IF InUse(part) THEN torn \cup {<<p, part>>} ELSE torn
  /\ \/ list' = changed /\ up' = up
     \/ InUse(part) /\ list' = list /\ up' \in BOOLEAN

\* timeout > 0 of an unsigned number: the timer counts from the loop's idea of the time.
StartTimer(p, t) ==
  /\ pc[p] = "timer"
  /\ timeout' = [timeout EXCEPT ![p] = t]
  /\ Goto(p, "fork")
  /\ IF Unsigned(t) = 0 THEN UNCHANGED <<due, up, startedAt, torn>>
     ELSE /\ startedAt' = [startedAt EXCEPT ![p] = now]
          /\ Change(p, "timer", due, [due EXCEPT ![p] = Due(t)])
  /\ UNCHANGED <<clockVars, loopVars, pipeVars, childVars, firedAt, missed>>

\* uv_spawn: the child runs, and then it is entered into the list of children.
Fork(p) ==
  /\ pc[p] = "fork"
  /\ Goto(p, "list")
  /\ UNCHANGED <<clockVars, loopVars, timerVars, pipeVars, childVars, up, historyVars>>

List(p) ==
  /\ pc[p] = "list"
  /\ Change(p, "child", children, children \cup {p})
  /\ Goto(p, "read")
  /\ UNCHANGED <<clockVars, loopVars, timerVars, pipeVars, sigchld, exitAt, reaped, startedAt,
                 firedAt, missed>>

\* uv_read_start: the pipes are queued, for the next poll() to watch them.
ReadStart(p) ==
  /\ pc[p] = "read"
  /\ Change(p, "pipes", queued, queued \cup {p})
  /\ readyAt' = [readyAt EXCEPT ![p] = IF @ = None THEN None ELSE now]
  /\ Goto(p, "done")
  /\ UNCHANGED <<clockVars, loopVars, timerVars, polled, childVars, startedAt, firedAt, missed>>

-----------------------------------------------------------------------------
(* The world *)

Forked(p) == pc[p] \in {"list", "read", "done"}

\* There is something to read, output or the end of a stream.
Ready(p) ==
  /\ Forked(p)
  /\ readyAt[p] = None
  /\ readyAt' = [readyAt EXCEPT ![p] = now]
  /\ UNCHANGED <<clockVars, loopVars, pc, timerVars, queued, polled, childVars, up, historyVars>>

Exit(p) ==
  /\ Forked(p)
  /\ exitAt[p] = None
  /\ exitAt' = [exitAt EXCEPT ![p] = now]
  /\ sigchld' = TRUE
  /\ UNCHANGED <<clockVars, loopVars, pc, timerVars, pipeVars, children, reaped, up, historyVars>>

MayWakeUnsignalled == now >= wake \/ Readable # {}   \* faulty variant: not for SIGCHLD

MayWake == now >= wake \/ sigchld \/ Readable # {}

\* Time passes: poll() ends as soon as it may, and callbacks take at most Busy.
Tick ==
  /\ now < MaxTime
  /\ IF loop = "poll" THEN ~MayWake ELSE now < since + Busy
  /\ now' = now + 1
  /\ UNCHANGED <<time, loopVars, pc, timerVars, pipeVars, childVars, up, historyVars>>

-----------------------------------------------------------------------------
(* The loop thread *)

\* loop() starts the watchdog timer with timeout 0, and uv_run begins.
StartLoop ==
  /\ loop = "start"
  /\ watchdog' = Due(0)
  /\ loop' = "update"
  /\ UNCHANGED <<clockVars, since, wake, pc, timerVars, pipeVars, childVars, up, historyVars>>

UpdateTime ==
  /\ loop = "update"
  /\ time' = now
  /\ loop' = "timers"
  /\ UNCHANGED <<now, since, wake, watchdog, pc, timerVars, pipeVars, childVars, up, historyVars>>

\* The first timer of the loop.
Dues == ({due[p] : p \in Procs} \cup {watchdog, Forever}) \ {None}
NextDue == CHOOSE d \in Dues : \A e \in Dues : d <= e

\* A timer that is due, earliest first, is stopped and its callback called.
Fire(p) ==
  /\ loop = "timers"
  /\ due[p] = NextDue /\ due[p] <= time
  /\ due' = [due EXCEPT ![p] = None]
  /\ firedAt' = [firedAt EXCEPT ![p] = now]
  /\ UNCHANGED <<clockVars, loopVars, pc, timeout, pipeVars, childVars, up, startedAt, torn, missed>>

\* The watchdog timer repeats.
WatchdogOnce ==   \* faulty variant: it does not
  /\ loop = "timers"
  /\ watchdog = NextDue /\ watchdog <= time
  /\ watchdog' = None
  /\ UNCHANGED <<clockVars, loop, since, wake, pc, timerVars, pipeVars, childVars, up, historyVars>>

WatchdogSlow ==   \* faulty variant: with twice the period
  /\ loop = "timers"
  /\ watchdog = NextDue /\ watchdog <= time
  /\ watchdog' = Due(2 * Period)
  /\ UNCHANGED <<clockVars, loop, since, wake, pc, timerVars, pipeVars, childVars, up, historyVars>>

Watchdog ==
  /\ loop = "timers"
  /\ watchdog = NextDue /\ watchdog <= time
  /\ watchdog' = Due(Period)
  /\ UNCHANGED <<clockVars, loop, since, wake, pc, timerVars, pipeVars, childVars, up, historyVars>>

\* No timer is due: wait for the next one; the handles of the queue are watched.
BeginPoll ==
  /\ loop = "timers"
  /\ NextDue > time
  /\ loop' = "enter"
  /\ UNCHANGED <<clockVars, since, wake, watchdog, pc, timerVars, pipeVars, childVars, up, historyVars>>

\* uv__next_timeout counts from the loop's idea of the time, and poll() from its beginning.
Remaining == IF NextDue <= time THEN 0 ELSE NextDue - time

Poll ==
  /\ loop = "enter"
  /\ wake' = now + Remaining
  /\ polled' = polled \cup queued
  /\ queued' = {}
  /\ loop' = "poll"
  /\ UNCHANGED <<clockVars, since, watchdog, pc, timerVars, readyAt, childVars, up, historyVars>>

Wake ==
  /\ loop = "poll"
  /\ MayWake
  /\ time' = now
  /\ since' = now
  /\ loop' = "events"
  /\ UNCHANGED <<now, wake, watchdog, pc, timerVars, pipeVars, childVars, up, historyVars>>

\* A read callback.
Read(p) ==
  /\ loop = "events"
  /\ p \in Readable
  /\ readyAt' = [readyAt EXCEPT ![p] = None]
  /\ UNCHANGED <<clockVars, loopVars, pc, timerVars, queued, polled, childVars, up, historyVars>>

\* SIGCHLD: each child of the list that exited is reaped; its exit_cb clears its timer.
Sigchld ==
  LET exited == {p \in Procs : exitAt[p] # None /\ p \notin reaped} IN
  /\ loop = "events"
  /\ sigchld
  /\ sigchld' = FALSE
  /\ reaped' = reaped \cup (exited \cap children)
  /\ due' = [p \in Procs |-> IF p \in reaped' THEN None ELSE due[p]]
  /\ missed' = missed \cup (exited \ children)
  /\ UNCHANGED <<clockVars, loopVars, pc, timeout, pipeVars, children, exitAt, up, startedAt,
                 firedAt, torn>>

EndIteration ==
  /\ loop = "events"
  /\ Readable = {} /\ ~sigchld
  /\ loop' = "update"
  /\ UNCHANGED <<clockVars, since, wake, watchdog, pc, timerVars, pipeVars, childVars, up, historyVars>>

LoopStep ==
  \/ StartLoop \/ UpdateTime \/ Watchdog \/ BeginPoll \/ Poll \/ Wake \/ Sigchld \/ EndIteration
  \/ \E p \in Procs : Fire(p) \/ Read(p)

\* The end of the bounded clock, or of the application.
Done == (now = MaxTime \/ ~up) /\ UNCHANGED vars

Next ==
  \/ /\ up
     /\ \/ Tick \/ LoopStep
        \/ \E p \in Procs :
             \/ \E t \in Timeouts : StartTimer(p, t)
             \/ Fork(p) \/ List(p) \/ ReadStart(p) \/ Ready(p) \/ Exit(p)
  \/ Done

Spec == Init /\ [][Next]_vars

-----------------------------------------------------------------------------
(* Properties *)

\* The time of the loop lags behind by the callbacks that ran before a poll() and by the
\* poll() itself.
Lag == Period + Busy

\* A deadline passes at most that much too early: the timer counts from the last time the
\* loop read the clock.
FiresNotEarly ==
  \A p \in Procs :
    firedAt[p] # None => startedAt[p] + timeout[p] <= firedAt[p] + Lag

\* How late the loop looks at its timers: after a poll() that began before the timer did,
\* or the callbacks by which a poll() that began with it was late.
Late == IF Period < Busy THEN Busy ELSE Period

\* A timer fires at most that late and the callbacks of an iteration after its deadline,
\* unless two threads changed the timers at once.
FiresInTime ==
  \A p \in Procs :
    startedAt[p] # None /\ timeout[p] > 0 /\ p \notin reaped /\ now > startedAt[p] + timeout[p] + Late + Busy =>
      firedAt[p] # None \/ <<p, "timer">> \in torn

\* A negative timeout is a very large one: the timer runs and never fires.
NegativeNeverFires ==
  \A p \in Procs : firedAt[p] # None => timeout[p] > 0

\* Output is seen within a period and the callbacks of two iterations once its pipe was
\* registered: the watchdog wakes the loop that nothing else wakes.
OutputSeenInTime ==
  \A p \in Procs :
    pc[p] = "done" /\ readyAt[p] # None =>
      now <= readyAt[p] + Period + 2 * Busy \/ <<p, "pipes">> \in torn

\* An exit is seen within the callbacks of two iterations, unless its SIGCHLD was served
\* before uv_spawn, on the other thread, had listed the child, or could not list it.
ExitSeenInTime ==
  \A p \in Procs :
    exitAt[p] # None /\ p \notin reaped =>
      now <= exitAt[p] + 2 * Busy \/ p \in missed
=============================================================================
