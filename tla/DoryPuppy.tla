------------------------------ MODULE DoryPuppy ------------------------------
(***************************************************************************)
(* The two registries of the Android library and the threads that share    *)
(* them: processList of dorypuppy.cpp (pid -> DoryProcessSpawn, guarded    *)
(* by uvMutex, except in kill) and processList of DoryPuppy.java           *)
(* (pid -> DoryProcess, a Hashtable).                                      *)
(*                                                                         *)
(* DoryProcess.start() runs on the caller's thread: native spawn(), insert *)
(* into the native list, put into the Java list, assignment of this.pid.   *)
(* The loop thread delivers the events of the child meanwhile; each looks  *)
(* its DoryProcess up by pid.  A listener may itself start a process: that *)
(* start() then runs on the loop thread.                                   *)
(*                                                                         *)
(* What DoryProcessSpawn does in between is taken from its contract,       *)
(* ExitReport, which the class implements: phase, ended and up are that    *)
(* module's variables.                                                     *)
(***************************************************************************)
EXTENDS Naturals, FiniteSets

CONSTANTS
  Procs,      \* native DoryProcessSpawn objects, one for each start()
  Puppies,    \* Java DoryProcess objects; one may be started more than once
  Pids,
  NoPid,      \* 0 in Java, nothing assigned yet in C++
  Nobody,     \* no DoryProcess, no object
  Writers,    \* bound: the objects whose children write ...
  Streams,    \* bound: ... and the streams they write to, one chunk on each
  Timeouts,   \* bound: whether start() may be given a timeout
  Killable,   \* bound: the DoryProcesses whose kill() the application calls
  Late,       \* bound: DoryProcesses whose listeners are set only after start()
  Throws      \* bound: whether a listener may throw

ASSUME WritersAssumption == Writers \subseteq Procs
ASSUME StreamsAssumption == Streams \subseteq {"stdout", "stderr"}
ASSUME TimeoutsAssumption == Timeouts \subseteq BOOLEAN
ASSUME KillableAssumption == Killable \subseteq Puppies
ASSUME LateAssumption == Late \subseteq Puppies
ASSUME ThrowsAssumption == Throws \in BOOLEAN
ASSUME DistinctAssumption == NoPid \notin Pids /\ Nobody \notin Procs \cup Puppies

VARIABLES
  phase, ended, up,   \* the contract of the native objects
  pid,          \* process.pid of the native object
  reaped,       \* objects whose child's pid was given back to the kernel
  armed,        \* objects whose timer runs
  puppy,        \* the DoryProcess that a native object was made for
  pc,           \* next step of that start(), see Steps
  nested,       \* the start() that runs inside a listener on the loop thread
  mutex,        \* uvMutex: "free", or held by "start" or by "loop"
  nativeList,   \* pids in the native processList
  javaList,     \* the Java processList
  puppyPid,     \* DoryProcess.pid
  exitOf,       \* whose exit code, signal and exitedAt a DoryProcess holds
  deaf,         \* DoryProcesses whose listeners are still null
  cb,           \* the event the loop thread delivers: [at, ev, proc, pid]
  pending,      \* a Java exception is pending in the loop thread
  killer,       \* a thread in the kill() of a DoryProcess: [at, puppy, pid]
  raced,        \* the native list was changed since that kill() began
  fate,         \* what became of each event: see Fates
  overtaken,    \* objects whose exit was delivered before their start() had put them
  hasty         \* objects given the pid of another one whose exit was still to be handled

contractVars == <<phase, ended, up>>
childVars == <<pid, reaped, armed>>
startVars == <<puppy, pc, nested>>
listVars == <<mutex, nativeList, javaList>>
puppyVars == <<puppyPid, exitOf, deaf>>
loopVars == <<cb, pending>>
killVars == <<killer, raced>>
historyVars == <<fate, overtaken, hasty>>
vars == <<contractVars, childVars, startVars, listVars, puppyVars, loopVars, killVars, historyVars>>

Contract == INSTANCE ExitReport

Steps == {"idle", "spawn", "read", "lock", "insert", "put", "assign", "started", "threw"}
Events == {"stdout", "stderr", "exit", "timeout"}
Fates == {"none", "pending", "own", "other", "nobody"}
Idle == [at |-> "idle", ev |-> "none", proc |-> Nobody, pid |-> NoPid]
NoKill == [at |-> "idle", puppy |-> Nobody, pid |-> NoPid]

TypeOK ==
  /\ phase \in [Procs -> {"idle", "live", "dead", "failed", "reported"}]
  /\ ended \in SUBSET Procs
  /\ up \in BOOLEAN
  /\ pid \in [Procs -> Pids \cup {NoPid}]
  /\ reaped \in SUBSET Procs
  /\ armed \in SUBSET Procs
  /\ puppy \in [Procs -> Puppies \cup {Nobody}]
  /\ pc \in [Procs -> Steps]
  /\ nested \in Procs \cup {Nobody}
  /\ mutex \in {"free", "start", "loop"}
  /\ nativeList \in SUBSET Pids
  /\ javaList \in [Pids -> Puppies \cup {Nobody}]
  /\ puppyPid \in [Puppies -> Pids \cup {NoPid}]
  /\ exitOf \in [Puppies -> Procs \cup {Nobody}]
  /\ deaf \in SUBSET Late
  /\ cb \in {Idle} \cup
       [at : {"call", "callback", "listener", "remove", "lock", "erase"}, ev : Events,
        proc : Procs, pid : Pids \cup {NoPid}]
  /\ pending \in BOOLEAN
  /\ killer \in {NoKill} \cup [at : {"count", "send"}, puppy : Puppies, pid : Pids]
  /\ fate \in [Procs -> [Events -> Fates]]
  /\ overtaken \in SUBSET Procs
  /\ hasty \in SUBSET Procs
  /\ raced \in BOOLEAN

Init ==
  /\ Contract!Init
  /\ pid = [p \in Procs |-> NoPid]
  /\ reaped = {}
  /\ armed = {}
  /\ puppy = [p \in Procs |-> Nobody]
  /\ pc = [p \in Procs |-> "idle"]
  /\ nested = Nobody
  /\ mutex = "free"
  /\ nativeList = {}
  /\ javaList = [n \in Pids |-> Nobody]
  /\ puppyPid = [u \in Puppies |-> NoPid]
  /\ exitOf = [u \in Puppies |-> Nobody]
  /\ deaf = Late
  /\ cb = Idle
  /\ pending = FALSE
  /\ killer = NoKill
  /\ raced = FALSE
  /\ fate = [p \in Procs |-> [e \in Events |-> "none"]]
  /\ overtaken = {}
  /\ hasty = {}

-----------------------------------------------------------------------------
(* start(): the caller's thread, or the loop thread inside a listener *)

Goto(p, step) == pc' = [pc EXCEPT ![p] = step]

\* Pids no unreaped child owns.
Free == {n \in Pids : \A p \in Procs : pid[p] = n => p \in reaped}

\* The child of p is gone, but its exit is still to be reported or handled.
ExitPending(p) == phase[p] = "dead" \/ (cb.ev = "exit" /\ cb.proc = p)

\* The loop thread comes out of a start() that it ran inside a listener.
Leave(p) == nested' = IF nested = p THEN Nobody ELSE nested

\* DoryProcess.start -> puppySpawn -> native spawn: the object is made, its
\* listeners are set, and its timer may be started.
Begin(p, u) ==
  /\ pc[p] = "idle"
  /\ \A q \in Procs : puppy[q] = u => pc[q] \in {"started", "threw"}
  /\ puppy' = [puppy EXCEPT ![p] = u]
  /\ \E t \in Timeouts : armed' = IF t THEN armed \cup {p} ELSE armed
  /\ nested' \in IF cb.at = "listener" /\ nested = Nobody THEN {p, nested} ELSE {nested}
  /\ Goto(p, "spawn")
  /\ UNCHANGED <<contractVars, pid, reaped, listVars, puppyVars, loopVars, killVars, historyVars>>

\* uv_spawn, inside DoryProcessSpawn::spawn().
UvSpawn(p) ==
  /\ pc[p] = "spawn"
  /\ Contract!Start(p)
  /\ \E n \in Free :
       /\ pid' = [pid EXCEPT ![p] = n]
       /\ hasty' = IF \E q \in Procs : pid[q] = n /\ ExitPending(q) THEN hasty \cup {p} ELSE hasty
  /\ Goto(p, "read")
  /\ UNCHANGED <<reaped, armed, puppy, nested, listVars, puppyVars, loopVars, killVars, fate, overtaken>>

\* Both pipes are read: DoryProcessSpawn::spawn() returns 0, and from here on the
\* start cannot fail any more.
ReadStart(p) ==
  /\ pc[p] = "read"
  /\ Goto(p, "lock")
  /\ UNCHANGED <<contractVars, childVars, puppy, nested, listVars, puppyVars, loopVars, killVars,
                 historyVars>>

\* uv_spawn fails, or uv_read_start does later and the child is killed: native
\* spawn returns r, puppySpawn throws an IOException.
SpawnFails(p) ==
  /\ pc[p] \in {"spawn", "read"}
  /\ Contract!Fail(p)
  /\ Goto(p, "threw")
  /\ Leave(p)
  /\ UNCHANGED <<childVars, puppy, listVars, puppyVars, loopVars, killVars, historyVars>>

Lock(p) ==
  /\ pc[p] = "lock"
  /\ mutex = "free"
  /\ mutex' = "start"
  /\ raced' = (killer # NoKill)
  /\ Goto(p, "insert")
  /\ UNCHANGED <<contractVars, childVars, puppy, nested, nativeList, javaList, puppyVars, loopVars,
                 killer, historyVars>>

\* processList[pid] = make_shared<DoryProcessSpawn>(*process), and unlock.
Insert(p) ==
  /\ pc[p] = "insert"
  /\ nativeList' = nativeList \cup {pid[p]}
  /\ mutex' = "free"
  /\ Goto(p, "put")
  /\ UNCHANGED <<contractVars, childVars, puppy, nested, javaList, puppyVars, loopVars, killVars,
                 historyVars>>

\* puppySpawn: processList.put(pid, puppy)
PutNothing(p) ==   \* faulty variant: put forgotten
  /\ pc[p] = "put"
  /\ Goto(p, "assign")
  /\ UNCHANGED <<contractVars, childVars, puppy, nested, listVars, puppyVars, loopVars, killVars,
                 historyVars>>

Put(p) ==
  /\ pc[p] = "put"
  /\ javaList' = [javaList EXCEPT ![pid[p]] = puppy[p]]
  /\ Goto(p, "assign")
  /\ UNCHANGED <<contractVars, childVars, puppy, nested, mutex, nativeList, puppyVars, loopVars,
                 killVars, historyVars>>

\* start: this.pid = ..., startedAt = ...  (code, signal and exitedAt keep their values.)
Assign(p) ==
  /\ pc[p] = "assign"
  /\ puppyPid' = [puppyPid EXCEPT ![puppy[p]] = pid[p]]
  /\ Goto(p, "started")
  /\ Leave(p)
  /\ UNCHANGED <<contractVars, childVars, puppy, listVars, exitOf, deaf, loopVars, killVars,
                 historyVars>>

StartStep(p) ==
  UvSpawn(p) \/ ReadStart(p) \/ SpawnFails(p) \/ Lock(p) \/ Insert(p) \/ Put(p) \/ Assign(p)

-----------------------------------------------------------------------------
(* The children *)

\* The child, or a descendant that holds the stream, writes.
Write(p) ==
  /\ p \in Writers
  /\ phase[p] \in {"live", "dead", "reported"}
  /\ \E s \in Streams :
       /\ fate[p][s] = "none"
       /\ s = "stderr" => p \notin ended
       /\ fate' = [fate EXCEPT ![p][s] = "pending"]
  /\ UNCHANGED <<contractVars, childVars, startVars, listVars, puppyVars, loopVars, killVars, overtaken, hasty>>

\* The child dies, or the last holder of its stderr closes it.
DieOrEnd(p) ==
  /\ Contract!Die(p) \/ (p \notin ended /\ Contract!End(p))
  /\ fate[p]["stderr"] = "pending" => p \notin ended'
  /\ UNCHANGED <<childVars, startVars, listVars, puppyVars, loopVars, killVars, historyVars>>

-----------------------------------------------------------------------------
(* The loop thread *)

LoopIdle == cb = Idle

\* A dead child is reaped; its exit_cb clears the timer.
Reap(p) ==
  /\ LoopIdle
  /\ phase[p] \in {"dead", "failed"} /\ pid[p] # NoPid /\ p \notin reaped
  /\ reaped' = reaped \cup {p}
  /\ armed' = armed \ {p}
  /\ UNCHANGED <<contractVars, pid, startVars, listVars, puppyVars, loopVars, killVars, historyVars>>

\* processList.get(pid) of DoryPuppy.java, null for a pid that is not in it.
Entry(n) == IF n \in Pids THEN javaList[n] ELSE Nobody

\* What the event of the callback becomes: the listener of u hears it, or nobody.
Hears(u) ==
  fate' = [fate EXCEPT ![cb.proc][cb.ev] =
             IF u = Nobody \/ u \in deaf THEN "nobody"
             ELSE IF u = puppy[cb.proc] THEN "own" ELSE "other"]

Calling(p, ev, n) == cb' = [at |-> "call", ev |-> ev, proc |-> p, pid |-> n]

\* The end of a callback: only the exit listener of dorypuppy.cpp goes on.
After(exitStep) == cb' = IF cb.ev = "exit" THEN [cb EXCEPT !.at = exitStep] ELSE Idle

\* A read callback with data: dorypuppy.cpp calls jniStdout or jniStderr.
Deliver(p, s) ==
  /\ LoopIdle
  /\ fate[p][s] = "pending"
  /\ phase[p] # "failed"
  /\ s = "stderr" => pc[p] # "read"
  /\ Calling(p, s, pid[p])
  /\ UNCHANGED <<contractVars, childVars, startVars, listVars, puppyVars, pending, killVars,
                 historyVars>>

\* The timer callback: jniTimeout with a pid that spawn() may not have set yet.
TimerCb(p) ==
  /\ LoopIdle
  /\ p \in armed
  /\ armed' = armed \ {p}
  /\ \E n \in (IF pc[p] \in {"spawn", "read", "threw"} THEN Pids \cup {NoPid} ELSE {pid[p]}) :
       Calling(p, "timeout", n)
  /\ UNCHANGED <<contractVars, pid, reaped, startVars, listVars, puppyVars, pending, killVars,
                 historyVars>>

\* emit("exit", ...), once stderr was read to its end: the exit listener of
\* dorypuppy.cpp calls jniExit.
ReportUnflushed(p) ==   \* faulty variant: does not wait for the end of stderr
  /\ LoopIdle
  /\ p \in reaped
  /\ pc[p] # "read"
  /\ phase[p] = "dead"
  /\ phase' = [phase EXCEPT ![p] = "reported"]
  /\ Calling(p, "exit", pid[p])
  /\ UNCHANGED <<ended, up, childVars, startVars, listVars, puppyVars, pending, killVars,
                 historyVars>>

Report(p) ==
  /\ LoopIdle
  /\ p \in reaped \cap ended
  /\ pc[p] # "read"
  /\ Contract!Report(p)
  /\ Calling(p, "exit", pid[p])
  /\ UNCHANGED <<childVars, startVars, listVars, puppyVars, pending, killVars, historyVars>>

\* From here on the exit of p is handled, whatever its start() has done so far.
Overtakes ==
  overtaken' = IF cb.ev = "exit" /\ pc[cb.proc] \notin {"assign", "started"}
                 THEN overtaken \cup {cb.proc} ELSE overtaken

\* containsKey(pid) is true; jniExit sets code, signal and exitedAt of the entry.
JniFoundUnstamped ==   \* faulty variant: exitedAt is not set
  /\ cb.at = "call"
  /\ Entry(cb.pid) # Nobody
  /\ cb' = [cb EXCEPT !.at = "callback"]
  /\ Overtakes
  /\ UNCHANGED <<contractVars, childVars, startVars, listVars, puppyVars, pending, killVars,
                 fate, hasty>>

JniFoundLocked ==   \* faulty variant: uvMutex is taken before Java is called
  /\ cb.at = "call"
  /\ Entry(cb.pid) # Nobody
  /\ IF cb.ev = "exit" THEN mutex = "free" /\ mutex' = "loop" ELSE mutex' = mutex
  /\ cb' = [cb EXCEPT !.at = "callback"]
  /\ Overtakes
  /\ UNCHANGED <<contractVars, childVars, startVars, nativeList, javaList, puppyVars, pending,
                 killVars, fate, hasty>>

JniFound ==
  /\ cb.at = "call"
  /\ Entry(cb.pid) # Nobody
  /\ exitOf' = IF cb.ev = "exit" THEN [exitOf EXCEPT ![Entry(cb.pid)] = cb.proc] ELSE exitOf
  /\ cb' = [cb EXCEPT !.at = "callback"]
  /\ Overtakes
  /\ UNCHANGED <<contractVars, childVars, startVars, listVars, puppyPid, deaf, pending, killVars,
                 fate, hasty>>

\* ... or it is false.
JniMissing ==
  /\ cb.at = "call"
  /\ Entry(cb.pid) = Nobody
  /\ Hears(Nobody)
  /\ After("remove")
  /\ Overtakes
  /\ UNCHANGED <<contractVars, childVars, startVars, listVars, puppyVars, pending, killVars, hasty>>

\* CallVoidMethod while an exception is pending is undefined: the method is executed
\* as ever, or it is not executed, or the virtual machine aborts.
CallUndefined ==
  /\ cb.at = "call"
  /\ pending
  /\ \/ /\ Hears(Nobody)
        /\ After("lock")
        /\ Overtakes
        /\ UNCHANGED contractVars
     \/ /\ Contract!Crash
        /\ UNCHANGED <<cb, fate, overtaken>>
  /\ UNCHANGED <<childVars, startVars, listVars, puppyVars, pending, killVars, hasty>>

\* get(pid).listener, of the entry that is there now: called unless it is null.
Callback ==
  LET u == Entry(cb.pid) IN
  /\ cb.at = "callback"
  /\ Hears(u)
  /\ IF u \in deaf THEN After("remove") ELSE cb' = [cb EXCEPT !.at = "listener"]
  /\ UNCHANGED <<contractVars, childVars, startVars, listVars, puppyVars, pending, killVars,
                 overtaken, hasty>>

\* A listener returns.
Return ==
  /\ cb.at = "listener"
  /\ nested = Nobody
  /\ After("remove")
  /\ UNCHANGED <<contractVars, childVars, startVars, listVars, puppyVars, pending, killVars,
                 historyVars>>

\* A listener throws: nothing catches the exception in Java, so that jniExit does not
\* come to remove(pid), and nothing clears it in dorypuppy.cpp, which goes on.
ThrowUnwinds ==   \* faulty variant: the exception also leaves the native exit listener
  /\ Throws
  /\ cb.at = "listener"
  /\ nested = Nobody
  /\ pending' = TRUE
  /\ cb' = Idle
  /\ UNCHANGED <<contractVars, childVars, startVars, listVars, puppyVars, killVars, historyVars>>

Throw ==
  /\ Throws
  /\ cb.at = "listener"
  /\ nested = Nobody
  /\ pending' = TRUE
  /\ After("lock")
  /\ UNCHANGED <<contractVars, childVars, startVars, listVars, puppyVars, killVars, historyVars>>

\* jniExit ends with processList.remove(pid).
RemoveNothing ==   \* faulty variant: the entry stays
  /\ cb.at = "remove"
  /\ cb' = [cb EXCEPT !.at = "lock"]
  /\ UNCHANGED <<contractVars, childVars, startVars, listVars, puppyVars, pending, killVars,
                 historyVars>>

Remove ==
  /\ cb.at = "remove"
  /\ javaList' = [javaList EXCEPT ![cb.pid] = Nobody]
  /\ cb' = [cb EXCEPT !.at = "lock"]
  /\ UNCHANGED <<contractVars, childVars, startVars, mutex, nativeList, puppyVars, pending,
                 killVars, historyVars>>

\* Back in dorypuppy.cpp: lock, erase(pid), unlock.
LoopLock ==
  /\ cb.at = "lock"
  /\ mutex = "free"
  /\ mutex' = "loop"
  /\ raced' = (killer # NoKill)
  /\ cb' = [cb EXCEPT !.at = "erase"]
  /\ UNCHANGED <<contractVars, childVars, startVars, nativeList, javaList, puppyVars, pending,
                 killer, historyVars>>

EraseNothing ==   \* faulty variant: the native entry stays
  /\ cb.at = "erase"
  /\ mutex' = "free"
  /\ cb' = Idle
  /\ UNCHANGED <<contractVars, childVars, startVars, nativeList, javaList, puppyVars, pending,
                 killVars, historyVars>>

Erase ==
  /\ cb.at = "erase"
  /\ nativeList' = nativeList \ {cb.pid}
  /\ mutex' = "free"
  /\ cb' = Idle
  /\ UNCHANGED <<contractVars, childVars, startVars, javaList, puppyVars, pending, killVars, historyVars>>

LoopStep ==
  \/ JniFound \/ JniMissing \/ CallUndefined \/ Callback \/ Return \/ Throw
  \/ Remove \/ LoopLock \/ Erase

-----------------------------------------------------------------------------
(* The application: any thread; kill() does not take uvMutex *)

\* The setters; a null argument is ignored.
SetListeners(u) ==
  /\ u \in deaf
  /\ deaf' = deaf \ {u}
  /\ UNCHANGED <<contractVars, childVars, startVars, listVars, puppyPid, exitOf, loopVars,
                 killVars, historyVars>>

\* DoryProcess.kill: nothing happens as long as pid is 0.
KillUnchecked(u) ==   \* faulty variant: no check of pid
  /\ killer = NoKill
  /\ killer' = [at |-> "count", puppy |-> u, pid |-> puppyPid[u]]
  /\ raced' = (mutex # "free")
  /\ UNCHANGED <<contractVars, childVars, startVars, listVars, puppyVars, loopVars, historyVars>>

KillForgets(u) ==   \* faulty variant: puppyKill takes the process off the list
  /\ killer = NoKill
  /\ puppyPid[u] # NoPid
  /\ killer' = [at |-> "count", puppy |-> u, pid |-> puppyPid[u]]
  /\ raced' = (mutex # "free")
  /\ javaList' = [javaList EXCEPT ![puppyPid[u]] = Nobody]
  /\ UNCHANGED <<contractVars, childVars, startVars, mutex, nativeList, puppyVars, loopVars,
                 historyVars>>

Kill(u) ==
  /\ killer = NoKill
  /\ puppyPid[u] # NoPid
  /\ killer' = [at |-> "count", puppy |-> u, pid |-> puppyPid[u]]
  /\ raced' = (mutex # "free")
  /\ UNCHANGED <<contractVars, childVars, startVars, listVars, puppyVars, loopVars, historyVars>>

\* processList.count(pid): while another thread changes the map the answer can be
\* either one.
KillCountAlways ==   \* faulty variant: operator[] without count
  /\ killer.at = "count"
  /\ killer' = [killer EXCEPT !.at = "send"]
  /\ UNCHANGED <<contractVars, childVars, startVars, listVars, puppyVars, loopVars, raced, historyVars>>

KillCount ==
  /\ killer.at = "count"
  /\ \/ /\ killer.pid \in nativeList \/ mutex # "free"
        /\ killer' = [killer EXCEPT !.at = "send"]
        /\ raced' = raced
     \/ /\ killer.pid \notin nativeList \/ mutex # "free"
        /\ killer' = NoKill
        /\ raced' = FALSE
  /\ UNCHANGED <<contractVars, childVars, startVars, listVars, puppyVars, loopVars, historyVars>>

\* processList[pid]->kill(signal): operator[] makes a null pointer of an entry that
\* is not there any more.  (A child that receives the signal may die at any time.)
KillSend ==
  /\ killer.at = "send"
  /\ killer' = NoKill
  /\ raced' = FALSE
  /\ \/ killer.pid \in nativeList /\ UNCHANGED contractVars
     \/ (killer.pid \notin nativeList \/ mutex # "free") /\ Contract!Crash
  /\ UNCHANGED <<childVars, startVars, listVars, puppyVars, loopVars, historyVars>>

-----------------------------------------------------------------------------
\* Everything that was started came to its end.
Done ==
  /\ ~up \/ ( /\ \A p \in Procs : pc[p] \in {"started", "threw"}
              /\ LoopIdle /\ killer = NoKill /\ mutex = "free")
  /\ UNCHANGED vars

Next ==
  \/ /\ up
     /\ \/ \E p \in Procs :
             \/ \E u \in Puppies : Begin(p, u)
             \/ StartStep(p) \/ Write(p) \/ DieOrEnd(p) \/ Reap(p) \/ Report(p) \/ TimerCb(p)
             \/ \E s \in Streams : Deliver(p, s)
        \/ LoopStep
        \/ \E u \in Late : SetListeners(u)
        \/ \E u \in Killable : Kill(u)
        \/ KillCount \/ KillSend
  \/ Done

Spec == Init /\ [][Next]_vars

\* Threads run on and listeners return; the loop serves a reaped child.
FairSpec ==
  /\ Spec
  /\ WF_vars(up /\ LoopStep)
  /\ \A p \in Procs : WF_vars(up /\ StartStep(p))

-----------------------------------------------------------------------------
(* Properties *)

\* Two objects with the pid of p are in each other's way: the pid was handed out
\* again before the exit of its first owner was handled, or before the start() of
\* an owner whose exit had overtaken it came to write its entries.
Clash(p) ==
  \/ \E q \in hasty : pid[q] = pid[p]
  \/ \E q \in overtaken \ {p} : pid[q] = pid[p]

\* No start() is between uv_spawn and its end, no exit between its report and the
\* end of its handling.
Settled == (\A p \in Procs : pc[p] \in {"idle", "spawn", "started", "threw"}) /\ cb.ev # "exit"

\* A process that runs and whose start() returned is in both lists, so that its
\* listeners are called and it can be killed, unless the exit of the process that
\* had its pid before was handled late.
LiveIsRegistered ==
  \A p \in Procs :
    pc[p] = "started" /\ p \notin reaped =>
      (pid[p] \in nativeList /\ Entry(pid[p]) = puppy[p]) \/ Clash(p)

\* An exit goes to the listener of its own DoryProcess, unless it was delivered
\* before start() had put the DoryProcess into the list, or the pid was reused, or
\* there was no listener yet, or an earlier listener threw.
ExitReachesOwner ==
  \A p \in Procs :
    fate[p]["exit"] \in {"nobody", "other"} =>
      p \in overtaken \/ Clash(p) \/ puppy[p] \in Late \/ pending

\* exitValue() and exitSignal() are those of a child the DoryProcess started itself,
\* unless the pid was reused, or an earlier listener threw and left its entry behind.
ExitValueIsOwn ==
  \A u \in Puppies :
    LET p == exitOf[u] IN p # Nobody => puppy[p] = u \/ Clash(p) \/ pending

\* The event of the callback is about to get lost or to be heard by another process.
Lost(p, e) == fate[p][e] \notin {"nobody", "other"} /\ fate'[p][e] \in {"nobody", "other"}

\* Output and timeouts get lost only before start() had put the process into the list,
\* before there was a listener, or after a listener threw; output on stdout also after
\* the exit was delivered, stderr and timeouts never.
EventsReachOwner ==
  [][\A p \in Procs, e \in {"stdout", "stderr", "timeout"} :
       Lost(p, e) =>
         \/ pc[p] \in {"spawn", "read", "lock", "insert", "put", "threw"} \/ cb.pid # pid[p]
         \/ e = "stdout" /\ fate[p]["exit"] # "none"
         \/ puppy[p] \in deaf \/ pending
         \/ Clash(p)]_vars

\* containsKey and get are two steps, but only the loop thread removes entries: the
\* entry that was found is still there, so that no callback meets null.
FoundEntryStays == cb.at = "callback" => Entry(cb.pid) # Nobody

\* Once things have settled an entry stands for a process whose exit was not yet
\* reported, unless an exit overtook start(): those entries are never removed.  A
\* listener that threw leaves entries in the Java list, never in the native one.
NoStaleEntries ==
  Settled =>
    \A n \in Pids :
      (javaList[n] # Nobody /\ ~pending) \/ n \in nativeList =>
        \E p \in Procs : pid[p] = n /\ (phase[p] \in {"live", "dead"} \/ p \in overtaken)

\* The two lists are changed in opposite order by start() and by exit, so that a
\* process that can be killed also has its listeners.
NativeImpliesJava ==
  Settled => \A n \in nativeList : javaList[n] # Nobody

\* isRunning()
Running(u) == puppyPid[u] # NoPid /\ exitOf[u] = Nobody

\* isRunning() tells whether the exit was handled, for a DoryProcess that is started
\* once, unless the exit overtook start(), the pid was reused or a listener threw.
RunningIsAccurate ==
  \A p \in Procs :
    /\ pc[p] = "started"
    /\ \A q \in Procs \ {p} : puppy[q] # puppy[p]
    /\ p \notin overtaken
    /\ ~Clash(p) /\ ~pending
    => (Running(puppy[p]) <=>
          phase[p] \in {"live", "dead"} \/ (cb.at = "call" /\ cb.ev = "exit" /\ cb.proc = p))

\* What a signal sent to pid n can reach: a child of p that was not reaped, except
\* between the reaping of the child and the end of its exit's handling, or if that
\* exit overtook start().
Reachable(p, n) == pid[p] = n /\ (p \notin reaped \/ ExitPending(p) \/ p \in overtaken)

\* kill() meets the right child.  A signal never goes to a pid the kernel may have
\* given to a stranger; and as long as isRunning() says so of the DoryProcess whose
\* kill() it is, it goes to a child which that DoryProcess started itself, unless the
\* pid was reused or a listener threw.  (A DoryProcess keeps its pid after its exit,
\* and its kill() may then meet the child of another one.)
KillOnTarget ==
  [][killer.at = "send" /\ killer' = NoKill /\ up' =>
       /\ \E p \in Procs : Reachable(p, killer.pid)
       /\ Running(killer.puppy) /\ ~pending =>
            \E p \in Procs :
              /\ puppy[p] = killer.puppy
              /\ Reachable(p, killer.pid) \/ (Clash(p) /\ pid[p] = killer.pid)]_vars

\* The null pointer: kill() looks the pid up twice without uvMutex.  It ends the
\* application only if another thread changed the map meanwhile.  (The other end of the
\* application is a call into Java after a listener threw.)
CrashNeedsRace == [][up /\ ~up' => raced \/ (cb.at = "call" /\ pending)]_vars

\* Every start() returns or throws, also inside a listener and while the exit of
\* another process is handled: uvMutex is not held while Java code runs.
StartReturns ==
  \A p \in Procs : pc[p] # "idle" ~> (pc[p] \in {"started", "threw"} \/ ~up)

\* What the README shows, and the code does not keep.

\* README: "p.setOnExitListener(...)": the exit listener is called for an exit.
ExitListenerCalled ==
  \A p \in Procs : fate[p]["exit"] = "nobody" => puppy[p] \in Late \/ pending

\* README: "p.setOnStdoutListener(...)": the stdout listener is called for output of a
\* process whose exit listener is called.
StdoutListenerCalled ==
  \A p \in Procs :
    fate[p]["stdout"] = "nobody" =>
      fate[p]["exit"] \in {"none", "nobody"} \/ puppy[p] \in Late \/ pending
=============================================================================
