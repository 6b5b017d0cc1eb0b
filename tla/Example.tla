------------------------------- MODULE Example -------------------------------
(***************************************************************************)
(* The command line program example.cpp: the main thread starts Limit      *)
(* children and lists them by pid, the loop thread takes them off the list *)
(* when they exit and prints the length of the list once a second.         *)
(*                                                                         *)
(* The objects keep the promise of ExitReport; spawn() and the SIGCHLD of  *)
(* the loop are modelled as far as the list and the mutex depend on them.  *)
(* A child (child.cpp) writes a line, sleeps, writes to stderr and exits.  *)
(***************************************************************************)
EXTENDS Integers, FiniteSets, UvErrno

CONSTANTS
  Limit,     \* bound: the number of children (10 in the program)
  Pids,      \* bound: the pids the kernel hands out
  NoPid,
  Systems,   \* the systems whose error codes are tried
  Errors     \* bound: names of the errors that uv_spawn may fail with

ASSUME LimitAssumption == Limit \in Nat
ASSUME PidAssumption == NoPid \notin Pids
ASSUME ErrorAssumption == Errors \subseteq Names
ASSUME SystemsAssumption == \A s \in Systems : SameSign(s) /\ Apart(s)

Procs == 1..Limit

VARIABLES
  phase, ended, up,   \* the objects: see ExitReport
  system,      \* the system the program runs on
  pid,         \* Procs -> pid
  exited,      \* children that exited
  sigchld,     \* a SIGCHLD was not served yet
  reaped,      \* children whose pid was given back
  i,           \* the child the main thread is at
  pc,          \* its next step: "spawn", "enter" and "read" in spawn(), "lock", "insert"
  r,           \* the last result of spawn()
  error,       \* history: the name of the error behind r
  mutex,       \* who holds it
  list,        \* processList: pid -> child, 0 for none
  cb,          \* the exit listener under way
  shown,       \* the length the watchdog printed last
  overtaken,   \* history: exits handled before main had listed the child
  hasty        \* history: children given a pid whose last exit was still to be handled

contractVars == <<phase, ended, up>>
childVars == <<pid, exited, sigchld, reaped>>
mainVars == <<i, pc, r, error>>
listVars == <<mutex, list>>
historyVars == <<overtaken, hasty>>
vars == <<contractVars, system, childVars, mainVars, listVars, cb, shown, historyVars>>

Contract == INSTANCE ExitReport

Idle == [at |-> "idle", proc |-> 0]
Listed == {n \in Pids : list[n] # 0}

Init ==
  /\ Contract!Init
  /\ system \in Systems
  /\ pid = [p \in Procs |-> NoPid]
  /\ exited = {} /\ sigchld = FALSE /\ reaped = {}
  /\ i = 1 /\ pc = "spawn" /\ r = 0 /\ error = "none"
  /\ mutex = "free"
  /\ list = [n \in Pids |-> 0]
  /\ cb = Idle
  /\ shown = 0
  /\ overtaken = {} /\ hasty = {}

-----------------------------------------------------------------------------
(* The main thread *)

Free == {n \in Pids : \A p \in Procs : pid[p] = n => p \in reaped}
ExitPending(p) == phase[p] = "dead" \/ cb.proc = p

\* The next turn of main's loop has an r of its own.  The object is made, its listeners
\* are set, and uv_spawn starts the child.
Fork ==
  /\ pc = "spawn" /\ i \in Procs
  /\ Contract!Start(i)
  /\ \E n \in Free :
       /\ pid' = [pid EXCEPT ![i] = n]
       /\ hasty' = IF \E q \in Procs : pid[q] = n /\ ExitPending(q) THEN hasty \cup {i} ELSE hasty
  /\ r' = 0 /\ error' = "none"
  /\ pc' = "enter"
  /\ UNCHANGED <<system, exited, sigchld, reaped, i, listVars, cb, shown, overtaken>>

\* ... and enters it in the list of those whose exit the loop looks for.
Enter ==
  /\ pc = "enter"
  /\ pc' = "read"
  /\ UNCHANGED <<contractVars, system, childVars, i, r, error, listVars, cb, shown, historyVars>>

\* uv_read_start succeeds for both pipes, and spawn() returns 0.
ReadStart ==
  /\ pc = "read"
  /\ r' = 0 /\ error' = "none"
  /\ pc' = "lock"
  /\ UNCHANGED <<contractVars, system, childVars, i, listVars, cb, shown, historyVars>>

\* spawn() returns an error, whose name is printed: of uv_spawn, or of uv_read_start
\* with the child already started and killed.
SpawnFails ==
  /\ pc \in {"spawn", "read"} /\ i \in Procs
  /\ Contract!Fail(i)
  /\ \E name \in Errors : error' = name /\ r' = Code(system, name)
  /\ i' = i + 1
  /\ pc' = "spawn"
  /\ UNCHANGED <<system, childVars, listVars, cb, shown, historyVars>>

Lock ==
  /\ pc = "lock"
  /\ mutex = "free"
  /\ mutex' = "main"
  /\ pc' = "insert"
  /\ UNCHANGED <<contractVars, system, childVars, i, r, error, list, cb, shown, historyVars>>

\* processList[pid] = make_shared<DoryProcessSpawn>(*process), and unlock.
InsertNothing ==   \* faulty variant: not listed
  /\ pc = "insert"
  /\ mutex' = "free"
  /\ i' = i + 1
  /\ pc' = "spawn"
  /\ UNCHANGED <<contractVars, system, childVars, r, error, list, cb, shown, historyVars>>

Insert ==
  /\ pc = "insert"
  /\ list' = [list EXCEPT ![pid[i]] = i]
  /\ mutex' = "free"
  /\ i' = i + 1
  /\ pc' = "spawn"
  /\ UNCHANGED <<contractVars, system, childVars, r, error, cb, shown, historyVars>>

-----------------------------------------------------------------------------
(* The children *)

\* It exits by itself after its sleep, or is killed, as it is when spawn() failed after
\* all; nobody else holds its stderr.
ChildExits(p) ==
  /\ pid[p] # NoPid /\ p \notin exited
  /\ exited' = exited \cup {p} /\ sigchld' = TRUE
  /\ IF phase[p] = "live" THEN Contract!Die(p) /\ ended' = ended \cup {p}
     ELSE UNCHANGED contractVars
  /\ UNCHANGED <<system, pid, reaped, mainVars, listVars, cb, shown, historyVars>>

-----------------------------------------------------------------------------
(* The loop thread *)

\* SIGCHLD: the children of the loop's list that exited are reaped; one that main has not
\* entered yet waits for the next SIGCHLD.  exit_cb: no timeout is set, so that it may take
\* the timer for initialised and abort.
Entered(p) == p < i \/ (p = i /\ pc \in {"read", "lock", "insert"})

Sigchld ==
  /\ cb = Idle
  /\ sigchld
  /\ sigchld' = FALSE
  /\ reaped' = reaped \cup {p \in exited : Entered(p)}
  /\ \/ UNCHANGED contractVars
     \/ reaped' # reaped /\ Contract!Crash
  /\ UNCHANGED <<system, pid, exited, mainVars, listVars, cb, shown, historyVars>>

\* The exit is emitted once stderr, which spawn() has to watch for that, ended.
Watched(p) == p < i \/ (p = i /\ pc \in {"lock", "insert"})

Report(p) ==
  /\ cb = Idle
  /\ p \in reaped /\ Watched(p)
  /\ Contract!Report(p)
  /\ cb' = [at |-> "lock", proc |-> p]
  /\ UNCHANGED <<system, childVars, mainVars, listVars, shown, historyVars>>

EraseLock ==
  /\ cb.at = "lock"
  /\ mutex = "free"
  /\ mutex' = "loop"
  /\ cb' = [cb EXCEPT !.at = "erase"]
  /\ UNCHANGED <<contractVars, system, childVars, mainVars, list, shown, historyVars>>

\* processList.erase(process->getPid()), and unlock.
EraseNothing ==   \* faulty variant: not taken off the list
  /\ cb.at = "erase"
  /\ mutex' = "free"
  /\ overtaken' = IF i = cb.proc THEN overtaken \cup {cb.proc} ELSE overtaken
  /\ cb' = Idle
  /\ UNCHANGED <<contractVars, system, childVars, mainVars, list, shown, hasty>>

EraseKeepsLock ==   \* faulty variant: the mutex is not given back
  /\ cb.at = "erase"
  /\ list' = [list EXCEPT ![pid[cb.proc]] = 0]
  /\ overtaken' = IF i = cb.proc THEN overtaken \cup {cb.proc} ELSE overtaken
  /\ cb' = Idle
  /\ UNCHANGED <<contractVars, system, childVars, mainVars, mutex, shown, hasty>>

Erase ==
  /\ cb.at = "erase"
  /\ list' = [list EXCEPT ![pid[cb.proc]] = 0]
  /\ mutex' = "free"
  /\ overtaken' = IF i = cb.proc THEN overtaken \cup {cb.proc} ELSE overtaken
  /\ cb' = Idle
  /\ UNCHANGED <<contractVars, system, childVars, mainVars, shown, hasty>>

\* Without the mutex: it may see the length before or after an insert under way.
Watchdog ==
  /\ cb = Idle
  /\ shown' \in IF mutex = "main" THEN {Cardinality(Listed), Cardinality(Listed \cup {pid[i]})}
                ELSE {Cardinality(Listed)}
  /\ UNCHANGED <<contractVars, system, childVars, mainVars, listVars, cb, historyVars>>

MainStep == Fork \/ Enter \/ ReadStart \/ SpawnFails \/ Lock \/ Insert
LoopStep == (\E p \in Procs : Report(p)) \/ Sigchld \/ EraseLock \/ Erase

Aborted == ~up /\ UNCHANGED vars

Next ==
  \/ up /\ (MainStep \/ LoopStep \/ Watchdog \/ \E p \in Procs : ChildExits(p))
  \/ Aborted

Spec == Init /\ [][Next]_vars

\* Threads run on, children exit.  Once main waits for the mutex it can do nothing else.
\* The loop thread serves every ready handle in turn, and a SIGCHLD while there is one.
FairSpec ==
  /\ Spec
  /\ WF_vars(up /\ MainStep)
  /\ WF_vars(up /\ (EraseLock \/ Erase))
  /\ SF_vars(up /\ Sigchld)
  /\ SF_vars(up /\ Watchdog)
  /\ WF_vars(up /\ \E p \in Procs : ChildExits(p))   \* each at most once
  /\ SF_vars(up /\ \E p \in Procs : Report(p))

-----------------------------------------------------------------------------
(* Properties *)

\* A child that runs and that main is done with is on the list, unless its pid came from
\* a child whose exit was still to be handled.
RunningIsListed ==
  \A p \in Procs : p < i /\ phase[p] = "live" /\ p \notin hasty => list[pid[p]] = p

\* A child whose exit listener is through is off the list, unless the listener came
\* before main had listed the child.
NoStaleListing ==
  \A n \in Listed : LET p == list[n] IN
    phase[p] = "reported" => cb.proc = p \/ p \in overtaken

\* A failed start is never taken for a success, and its error printed by its own name.
ErrorIsNamed == error # "none" => r < 0 /\ NamesOf(system, r) = {error}

\* The child exited and its SIGCHLD was served before main had entered it in the list.
Overlooked(p) == p \in exited \ reaped /\ ~sigchld

\* Main starts all its children, whatever the exit listeners do in between; when all
\* have exited, the watchdog shows nothing but the ones whose exit came too early for
\* main or, with no later exit to make up for it, for the loop.
CountSettles ==
  <>[](\/ ~up
       \/ /\ i > Limit
          /\ \A p \in Procs : phase[p] \in {"reported", "failed"} \/ Overlooked(p)
          /\ shown = Cardinality(Listed)
          /\ \A n \in Listed : list[n] \in overtaken \/ Overlooked(list[n]))
=============================================================================
