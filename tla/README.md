# dorypuppy: specifications, model checking and proofs

dorypuppy starts child processes from an Android application (or a C++ program) and
reports their output, exit and timeout to listeners. It consists of a C++ class on top
of libuv, a JNI library with one event loop thread, and two Java classes. This directory
holds TLA+ specifications of that program, the TLC configurations that check them on
small instances, and theorems with proofs checked by TLAPS.

Paths below are relative to the repository. `hpp` is `src/DoryProcessSpawn.hpp`, `cpp` is
`src/android/dorypuppy/src/main/cpp/dorypuppy.cpp`; the Java classes are under
`src/android/dorypuppy/src/main/java/io/tempage/dorypuppy/`.

## 1. Inventory

| Component | State | Operations | Interacts with |
|---|---|---|---|
| `DoryProcessSpawn` (hpp) | timer, process, two pipes, `exited`, `stderrFlushed`, `pid`, listeners | constructor, `on`, `spawn`, `kill`, `emit`, `_clearTimer`; callbacks `exit_cb`, timer, stdout, stderr | libuv, the kernel; the listeners it emits to |
| Native registry (cpp) | `processList` (pid -> object), `uvMutex`, `uv_loop`, `g_env` | `spawn`, `kill`, the four listeners, `loop`, `JNI_OnLoad` | class above by listeners; Java by JNI |
| `DoryPuppy` (Java) | `processList`, a Hashtable pid -> DoryProcess | `puppySpawn`, `puppyKill`, `jniStdout`, `jniStderr`, `jniExit`, `jniTimeout` | native registry; user's listeners |
| `DoryProcess` (Java) | `pid`, `code`, `signal`, `startedAt`, `exitedAt`, listeners | `start`, `kill`, `isRunning`, setters | `DoryPuppy` |
| Event loop and time (cpp `loop`) | cached loop time, watchdog timer of 1000 ms | `uv_run` | everything registered from other threads |
| `example.cpp`, `child.cpp` | list of processes | start and supervise some children | the class |
| Sample application | Messenger clients, one stress thread (not started) | user interface | the Java classes |
| Trees (`uv/tree.h`) | links and colors of a splay tree and of a red-black tree | the `SPLAY_` and `RB_` macros | a header of libuv, vendored with the others; no code in this repository instantiates it |
| Error codes (`uv/errno.h`, `UV_ERRNO_MAP` of `uv.h`) | none | `UV__ERR`, `uv_err_name` | results of `spawn()`, `uverror` |
| libuv 1.43.0, the rest | vendored headers and binary | | |

Who calls whom: `DoryProcess.start` -> `DoryPuppy.puppySpawn` -> native `spawn` ->
`DoryProcessSpawn::spawn`, all on the caller's thread. In the other direction the loop
thread runs the libuv callbacks, which emit to the listeners in cpp, which call
`jniStdout`, `jniStderr`, `jniExit` or `jniTimeout`, which look up the DoryProcess by pid
and call the user's listener, all on the loop thread.

What is hard here:

- the loop thread runs while `spawn()` is still executing on another thread, without a
  lock between the two: timer, exit and output may come between any two statements;
- exit is put together from two callbacks that come in either order;
- a pid names three things (an entry in each list and the target of a signal) and the
  kernel hands it out again while old uses of it are still under way;
- registration comes after the start, in two lists under two locks; removal goes through
  the lists in the opposite order;
- `kill` reads the native list without the lock;
- listeners run on the loop thread; they may start processes themselves, throw, or be set
  only after the events they are for;
- `spawn()` registers timers, children and pipes with a loop that another thread runs and
  that is not woken by it, and a timer counts from the time that loop read last;
- the trees rebalance over many iterations, each of which relies on what all earlier calls
  left behind.

Correctness, component by component:

- class: exit is reported exactly once, after death and after the end of stderr, as the
  last event but for stdout; a deadline kills its own child and nothing else; libuv's
  handles are used within their protocol;
- registries: a running process is in both lists; events go to the listeners of the
  process they come from; entries vanish after exit; the lists agree;
- threads: no start blocks for ever; `kill` fails only in its race, and that of a DoryProcess
  which runs meets a child it started itself;
- loop: deadlines, output and exits are seen within the period of the watchdog and the time
  callbacks take;
- trees: each call answers as a sorted set would, whatever came before;
- error codes: negative on every system, and different for different errors.

The full list of hazards, each at its line and with the properties that cover it, is the
"hazards" list of `PROJECT.json`.

## 2. Modules

| Module | What it is |
|---|---|
| `ExitReport` | abstract: what an object promises its program about the exit of a child |
| `DoryProcessSpawn` | the class, statement by statement and callback by callback |
| `DoryProcessSpawnProofs` | inductive invariant and theorems; proof that the class implements `ExitReport` |
| `DoryPuppy` | the two registries, `start()`, `kill()` and the loop thread, over `ExitReport` |
| `DoryPuppyProofs` | its inductive invariant and theorems |
| `LoopTime` | the event loop with its clock, its watchdog and what `spawn()` registers with it |
| `LoopTimeProofs` | its inductive invariant and theorems |
| `Example`, `UvErrno` | the command line program, over `ExitReport`; libuv's error codes |
| `ExampleProofs`, `UvErrnoProofs` | their theorems |
| `OrderedSet` | abstract: a set of keys with searches and walks |
| `SplayTree`, `RedBlackTree` | the two trees of `uv/tree.h`, each implementing `OrderedSet` |
| `TreeNodes` | what they have in common: NULL and the two sides of a node |
| `SplayTreeProofs` | the invariant, the theorems and the refinement of the splay tree |
| `RedBlackTreeLemmas`, `RedBlackTreeProofs` | lemmas about trees of keys; the invariant, the theorems and the refinement of the red-black tree |
| `MCDoryProcessSpawn`, `MCDoryPuppy`, `MCLoopTime`, `MCExample`, `MCTrees` | instances for TLC |

How they are composed: `DoryProcessSpawn` implements `ExitReport` (checked and proved);
`DoryPuppy` and `Example` take the actions of `ExitReport` for their native objects, so
that what holds of the class is used there and not modelled again. `Example` returns the
codes of `UvErrno` from a failed start. `MCTrees` extends `RedBlackTree` and `SplayTree`,
which have keys of their own, and lets a behaviour use one of them.

### DoryProcessSpawn

`pc[p]` is the next statement of `spawn()` of object `p`; each libuv call is one atomic
step but `uv_spawn`, which is two: `Fork`, from which on the child runs, and `List`, with
which it enters the list of children the loop waits for, and `process.pid` is set. The
actions `Construct`, `StartTimer`, `Fork`, `List`, `UvSpawnFails`, `SetPid`,
`ReadStartOut`, `ReadStartErr`, `ReadStartFails` are the statements in their order. The
callbacks are `TimerCb` with `TimerKill` (the code before and after its `emit`), `ExitCb`,
`StdoutData/Eof/Error`, `StderrData/Eof/Error`. `cb` is the emit in progress: the loop
thread does nothing else until the listener returns (`Return`), while other threads go on.

External parts, by what the class relies on:

- children run, die at any time, write to their pipes and may leave the pipes open with a
  descendant (`Write`, `CloseStream`, `Die`). A SIGKILL makes a child `doomed`: it dies
  eventually. A SIGTERM may be ignored;
- a death leaves a SIGCHLD to be served (`sigchld`). `Sigchld` reaps all zombies of the list
  in one step and only then are the `exit_cb`s called, as libuv does; a pid is free from
  then on (`Free`). A child that was not listed yet stays behind until another child dies
  (`Overlooked`);
- `uv_close` asserts that the handle is of a known type and not closing: `UvClose` of a
  timer that is not active aborts. `_clearTimer` tests `uv_is_closing` before
  (`ClearTimer`), and without that test the timer callback and `exit_cb` would close one
  timer twice, which is the faulty variant `AbortOnlyByRawTimer` finds;
- a signal goes to whoever has the pid now. `strays` records signals sent to a pid nobody
  had assigned (`unset`) or that was given back (`reaped`). `process.pid` is taken to be set
  only by a `uv_spawn` that succeeds.

Undefined behaviour is a choice. `timer` is `"raw"` until it is initialised: the test
`timer.loop == uv_loop` of `exit_cb` on a raw timer may go either way, and so may
`uv_is_closing` on it (`ExitCb`, `ClearTimer`). A `kill` with an unset `process.pid`
may reach nobody, any running child, or the application.

### ExitReport

Each object goes from `idle` through `live` and `dead` to `reported`, or to `failed`.
`ended` holds the objects whose stderr is over. A report needs death, and `End` never
comes later than the report. The refinement mapping is in `DoryProcessSpawn`
(`Contract`): `phase` is computed from `exitEvents`, `pc` and `child`; `ended` from the
write end and the unread chunks of stderr.

### DoryPuppy

Instead of repeating the class it uses the actions of `ExitReport` for what the native
objects do and adds the steps around them. `pc[p]` walks through `start()`: `Begin`,
`UvSpawn`, `ReadStart`, or `SpawnFails` at either of them, then `Lock`, `Insert`, `Put`,
`Assign`: a start that waits for `uvMutex` cannot fail any more. The loop thread begins a
callback with `Deliver` (output), `TimerCb` or `Report` (exit) and goes on with `cb.at`:
`JniFound` or `JniMissing` (the `containsKey` of the four jni methods), `Callback` (the
second lookup, with `get`, and the test for a null listener), `Return` or `Throw`; for an
exit then `Remove`, `LoopLock`, `Erase`. `nested` is a `start()` made by a listener: the
loop thread continues only after it. `kill()` is `Kill`, `KillCount`, `KillSend`, and
`killer` is whose it is and with which pid; a lookup that overlaps a change of the map may
answer either way. `KillOnTarget` says two things of the signal: its pid is not a
stranger's, and if the DoryProcess runs (`Running`) it is that of a child it started itself.
The code does not give the second for one that has ended: `kill()` tests `pid` and not
`exitedAt` (DoryProcess.java:91), so that its signal may meet the child of another
DoryProcess that got the pid.

A listener that throws (`Throws`) ends the jni method before `remove(pid)`; native code has
no `ExceptionCheck` and goes on to `LoopLock` and `Erase`, with the exception pending.
`CallUndefined` is any later call into Java in that state: undefined by JNI, so that the
call may be made, may be dropped, or may end the application. `Late` are DoryProcesses
whose listeners are set after `start()` (`SetListeners`).

`fate`, `overtaken`, `hasty` and `raced` are history: whose listener heard an event, which
exits came before their `put`, which pids were handed out again before the exit of the
first owner was handled, whether the map changed during a `kill`. They make the
guarantees precise: the code's guarantees hold except after an overtaken start or a hasty
reuse of the pid (`Clash`), and the properties say so instead of excluding these cases
from the model. What they say about the exceptions is sharp: the violation runs and the
faulty variants show each of them occur.

### LoopTime

Time is discrete; `now` is the clock and `time` the loop's copy of it. The loop thread goes
through one iteration of `uv_run` with `UpdateTime`, `Fire` and `Watchdog` for the timers
that are due, `BeginPoll`, `Poll`, `Wake`, then `Read` and `Sigchld`, `EndIteration`.
libuv's code is not in the repository: these steps are external and say what the class and
`loop()` rely on. `spawn()` is `StartTimer`, `Fork`, `List`, `ReadStart`; as in
`DoryProcessSpawn`, `uv_spawn` is two steps, since a child may exit, and its SIGCHLD be
served, before the child is in the loop's list.

- a registration does not end a `poll()` under way: `wake` was computed before, and a pipe
  is only `queued` until the next `poll()` begins;
- the length of a `poll()` is the time from the loop's cached time to the next timer
  (`Remaining`), and it counts from when the `poll()` begins. The callbacks of the iteration
  before come in between, so that `poll()` ends later by what they took, and the cached time
  may be a period and those callbacks old;
- a registration made while the loop thread works on the same list (`InUse`) is a data
  race: it may be lost, and the application may end (`Change`; recorded in `torn`). Besides
  the steps of `uv_run` itself these are the callbacks: `exit_cb` clears a timer (hpp:66) and
  takes a child off the list, the read callbacks close pipes (hpp:183, 202);
- the timeout is unsigned: `Unsigned` is the conversion of the `jlong`, `Due` the clamped
  sum of `uv_timer_start`.

`Tick` is what bounds the loop's laziness: time does not pass while `poll()` could return,
and at most `Busy` in the callbacks of one iteration. With it the liveness of the loop is
stated as bounds: `FiresNotEarly`, `FiresInTime`, `OutputSeenInTime`, `ExitSeenInTime`.
They show that deadlines may come a whole period of the watchdog and the callbacks early (a
one second deadline at once), or the longer of the two and the callbacks of an iteration
late. `ExitSeenInTime` names the one case in which an exit is not seen: `missed`, the
SIGCHLD that was served before the child was listed, which is `Overlooked` in
`DoryProcessSpawn` and `Example`.

### Trees

A node is its key. The branches of the source that mirror each other are one definition
with a side `"L"` or `"R"`. In `SplayTree` every iteration of `SPLAY` is a step
(`SplayLink`, `SplayEnd`), after which the operation goes on with the new root
(`InsertSplayed`, `RemoveSplayed`, ...). In `RedBlackTree` every iteration of
`RB_INSERT_COLOR` (`InsertRecolor`, `InsertRotate`, `InsertEnd`) and of `RB_REMOVE_COLOR`
(`RemoveUp`, `RemoveFill`, `RemoveEnd`) is a step; searches change nothing and are
functions. A `FOREACH` loop is a walk: the body of the `_SAFE` loops may remove the node
it is at. `RB_AUGMENT` is empty as in the source.

`OrderedSet` is what both implement. The refinement mapping of the red-black tree takes the
nodes that are linked; that of the splay tree takes the nodes of all parts the tree is
taken apart into (`SplayElements`), also in the middle of a splay: what is below the root,
below the two links of the header and below what `SPLAY_REMOVE` set aside. The link at which
the next node will be hung to a part is left out (`OpenLinks`), as it still leads to the
rest of the tree until it is overwritten. In both the answer of every call is compared with
that of the set. The balance of the red-black tree is checked
in the middle of the loops, with the one place that is short of a black node counted.

### UvErrno and Example

A system is a record of the numbers its `<errno.h>` defines, of the number of `EDOM` there
and of its kind. `Code` is `UV_<name>` on it, `NamesOf` the names `uv_err_name` may find for
a code. All numbers of `uv/errno.h` and all names of `UV_ERRNO_MAP` are there. `Err` is
`UV__ERR`: the sign of `EDOM` decides once for all numbers, so that a number of the other
sign gives a positive code. What the header takes for granted is written down in two
hypotheses about the numbers a system defines (`Given`), and not about the codes:
`SameSign(s)`, none is 0 and all have the sign of `EDOM`; `Apart(s)`, no two are the same, none
is with either sign one of libuv's own, and 64 is free where libuv takes it for EHOSTDOWN.
`Example` assumes both of its systems, and TLC evaluates them for the four of `MCExample`.

`Example` has the main thread (`Fork`, `Enter`, `ReadStart`, `SpawnFails`, `Lock`, `Insert`),
the loop thread (`Sigchld`, `Report`, `EraseLock`, `Erase`) and the watchdog, which reads the
length of the list without the mutex. `Fork` and `Enter` are the two steps of `uv_spawn`;
`SpawnFails` is possible before the child and after `Enter`, and not while main waits for the
mutex. `Sigchld` may abort: no timeout is set here, so that the raw timer of hpp:65 applies
to every child of this program.

## 3. Runs

| Run (cfg) | Bounds | Shows |
|---|---|---|
| `SpawnOne` | 1 object, 1 pid, 2 unread chunks, fairness | types; exit exactly once, complete, last, and eventually; deadline enforced; no timer closed twice; refinement of `ExitReport` |
| `SpawnPair` | 2 objects, 2 pids, empty pipes, symmetry | signals of deadlines go to their own child, with reused pids |
| `SpawnRawTimer` (violation) | 1 object | a timer that was never initialised is closed |
| `SpawnLostDeadline` (violation) | 1 object, fairness | a deadline that passes before `uv_spawn` is lost |
| `RegistryEvents` | 1 start, all events, late and throwing listeners | types; events are dropped only where stated |
| `RegistryReuse` | 3 starts, 2 DoryProcesses, 1 pid, `kill`, symmetry | the lists against each other and against the children; whose exit value; whose child `kill` meets |
| `RegistryLive` | 2 starts, 1 pid, stdout, throwing listeners, fairness | no start blocks for ever; no entry outlives its process |
| `RegistryExitLost` (violation) | 1 start | an exit overtakes the registration |
| `RegistryStdoutLost` (violation) | 1 start | stdout arrives after the entry is gone |
| `LoopTime` | 1 spawn, timeouts -1, 0 and 4, period 2, callbacks up to 1, time to 8 | bounds on early and late deadlines, output and exits |
| `Trees` | splay: 5 keys; red-black: 8 keys | both trees implement `OrderedSet`; balance; no NULL followed |
| `Example` | 3 children, 2 pids, 4 systems, fairness | its list; what the watchdog shows in the end; names of errors |

Why the bounds are enough.

- The properties of the class are about one object and its child, or about two objects that
  meet through a pid; one and two objects contain every such case, with at least one free
  pid for reuse. Two unread chunks distinguish data left in a pipe from none and from the
  last one; in `SpawnPair` the contents of pipes play no part, and the end of a pipe still
  occurs.
- In the registry three starts on one pid are what the longest interference needs: an
  overtaken start, the new owner of its pid, and the late entry that overwrites the new
  owner's. One chunk on each stream is enough to be dropped or misdelivered.
  `RegistryReuse` leaves timeouts and output out: they change neither list. Exceptions are
  in `RegistryEvents` and `RegistryLive`, where `NoStaleEntries` is checked with them.
- In `LoopTime` objects meet only in the loop's iteration, so that one `spawn()` at any time
  against the watchdog and the callbacks of an iteration (`Busy`, which stand for those of
  other objects) has every case. The timeout is longer than a period and the callbacks, so
  that a timer may fire early by all of that and still fire; the time is enough for a start
  after the first `poll()` and the latest end. A timeout is signed and as wide as the unsigned
  time (a `jlong` and a `uint64_t`), and the clock stays in the lower half of the time; the
  negative timeout is the one that overflows.
- A red-black tree needs eight nodes for a removal that has to go up two levels, and with
  eight every case of both loops on both sides occurs. Five nodes give the splay tree both
  rotations and links to both sides in one splay. `VIEW WithoutCall` leaves the last answer
  out of TLC's fingerprints: no action reads it, and every step, also one to a state that
  was seen before, is compared with the steps of `OrderedSet`.
- In `Example` three children and two pids let one pid be used twice while another child is
  listed. The systems are one of each kind `uv/errno.h` distinguishes: positive numbers,
  a BSD that hides EHOSTDOWN, Windows, and negative numbers.

`CHECK_DEADLOCK` is on in every run; `Done` (in `Example`, `Aborted`) is the only stuttering
and its guard says when everything has come to its end.

The bounded quantities: `PipeSize` (unread chunks); `Writers`, `Streams`, `Timeouts`,
`Killable`, `Late`, `Throws` (which events an instance of `DoryPuppy` has); `Timeouts`,
`Busy`, `Width`, `MaxTime` of `LoopTime`; `Limit` and `Errors` of `Example`; the keys of
the trees; and the sets of objects and pids. Each object is started once in all modules; a
DoryProcess that is started again is one `Puppies` element with two objects.

Fairness. `DoryProcessSpawn!Fairness`: the starting thread runs on, a listener returns, a
doomed child dies (weak fairness); each source of the loop, a timer, a pipe, SIGCHLD, is
served if it is ready again and again (strong fairness, since a callback in progress
disables the others and the loop polls all ready sources in every iteration). A SIGCHLD is
such a source; a zombie is not, and nothing makes the loop reap one that was not listed when
its SIGCHLD was served. `ExitReported` and `CountSettles` therefore have `Overlooked` as an
exception. The watchdog timer of cpp:42-47 keeps the loop running and wakes it at least
once a second, which is what makes handles added by other threads noticed; `LoopTime` shows
it. Writing, closing a stream and dying by itself are not fair: a child may run for ever.
`DoryPuppy!FairSpec` has weak fairness of the threads only, and no action lets a start out
of waiting for `uvMutex` but getting it: `StartReturns` finds the faulty variant that holds
the mutex while Java runs, in a start made by a listener. `Example!FairSpec` has weak
fairness of main and of an exit listener that began, strong fairness of the watchdog, of
SIGCHLD and of each report on the loop thread, and weak fairness of the exit of a child,
which ends after its sleep (child.cpp).

### What the code does not keep

The four violation runs are the "findings" of `PROJECT.json`:

1. hpp:65: `exit_cb` decides by indeterminate memory whether the timer "is initialized".
2. hpp:156: the timer starts before the child exists; if it fires first the child has no
   deadline any more and the SIGKILL goes to an unset pid.
3. cpp:172, DoryPuppy.java:100: the exit of a short-lived child may come before it is
   registered; the exit listener is then never called, `isRunning()` stays true, and both
   entries stay.
4. hpp:73: exit does not wait for stdout; the entry is removed and later stdout output is
   dropped.

Also seen while reading, and not about behaviour: the README and the sample declare the exit
listener as `listener(long code, int signal)`, the code as
`listener(int pid, long code, int signal)`.

What the properties leave out because it happens (the exceptions they name) is listed with
each hazard in `PROJECT.json`: an overtaken start and a pid handed out too early, the race of
`kill()` with a change of the map, a restarted DoryProcess, the timer of a failed start, a
listener that throws.

Each passing property has a faulty variant of a modelled definition (marked in the modules)
with which TLC finds it violated; the pairs are the "mutants" of `PROJECT.json`.

## 4. Proofs

Every safety property and every action property that the passing runs check is proved for
all values of the constants, and so are the three refinements.

| Component | Assumptions | Theorems |
|---|---|---|
| the class (`DoryProcessSpawnProofs`) | the mark for "no pid" is no pid and no object; `PipeSize` is a natural number | `TypeCorrect`, `Invariant`, `ExitCompleteHolds`, `TimerKillOnTargetHolds`, `OnlyOwnChildKilledHolds`, `DeadlineEnforcedHolds`, `EventsCarryPidHolds`, `AbortOnlyByRawTimerHolds`, `ExitIsLastHolds`; `Refinement`: `Spec => ImplementsContract` |
| the registries (`DoryPuppyProofs`) | the marks are not pids, starts or DoryProcesses | `TypeCorrect`, `Invariant`, `LiveIsRegisteredHolds`, `ExitReachesOwnerHolds`, `ExitValueIsOwnHolds`, `FoundEntryStaysHolds`, `NativeImpliesJavaHolds`, `RunningIsAccurateHolds`, `NoStaleEntriesHolds`; of every step `EventsReachOwnerHolds`, `CrashNeedsRaceHolds`, `KillOnTargetHolds` |
| the loop (`LoopTimeProofs`) | `Period` positive, `Busy` natural; timeouts are `jlong`s; the clock stays in the lower half of the unsigned time | `TypeCorrect`, `Invariant`, `FiresNotEarlyHolds`, `FiresInTimeHolds`, `NegativeNeverFiresHolds`, `OutputSeenInTimeHolds`, `ExitSeenInTimeHolds` |
| error codes (`UvErrnoProofs`) | `SameSign` of the system; for `CodesDiffer` and `NameOfCode` also `Apart` | `CodeIsNegative`, `CodesDiffer`, `NameOfCode` |
| the example (`ExampleProofs`) | the mark for "no pid" is no pid; errors are names; `SameSign` and `Apart` of each system | `Invariant`, `RunningIsListedHolds`, `NoStaleListingHolds`, `ErrorIsNamedHolds` |
| the splay tree (`SplayTreeProofs`) | keys are integers; NULL and the header are no keys | `Invariant`, `ReachesGoal`; `Refinement`: `SplaySpec => SplayImplementsOrderedSet` |
| the red-black tree (`RedBlackTreeProofs`, over `RedBlackTreeLemmas`) | keys are integers; NULL is no key | `Invariant`, `RedParents`, `BlackHeights`, `LinksFollowed`; `Refinement`: `Spec => ImplementsOrderedSet` |

Nothing bounds the number of objects, starts, DoryProcesses, pids or children, the period,
the time callbacks take, or the size of a tree. None of the invariants is inductive alone;
each proof module has an inductive `IInv`, a lemma for each action, and under it a step for
each part of `IInv` the action can disturb.

### The class

`IInv` adds what connects the parts of an object:

- `ChildInv`: there is a child, with a pid, exactly from `Fork` on; it is reaped only once it
  is listed, and `exit_cb` follows reaping;
- `UniquePids`: unreaped children have different pids (needed to see that a kill of one's
  own unreaped child reaches only that child);
- `PidInv`: `pid` is set before a pipe is read, so that output and exit carry it (exit
  needs stderr, and stderr is read last);
- `TimerInv`: a timer does not survive `exit_cb`; with `CbInv` (while the timer callback
  runs, its child is not reaped, because `Sigchld` and the callback are on one thread)
  this gives `TimerKillOnTarget`;
- `ReportInv`: `stderrFlushed` is the closed state of the stderr pipe, and the number of
  exits is 1 exactly when both flags are set; each of the two callbacks runs once because
  its own flag is still unset when it starts;
- `DeadlineInv`: a deadline that passed has been enforced, is being enforced, or fired
  before there was a pid. It includes `child = "none"`, the case in which the deadline
  passes before `uv_spawn`.

`AbortOnlyByRawTimer` needs `TimerInv`: at `ClearTimer` of either callback the timer is raw or
active, or closed and the test of `uv_is_closing` holds `uv_close` back.

The refinement proof maps each action: `Fork` to `Start`, the failures to `Fail`, `Die`
to `Die`, the reads of stderr to `End` or `Report`, `ExitCb` to `Report`, `Crash` or a
stutter, a wild kill to `Crash`; the rest stutters.

### The registries

A start is `Inserted` or `Listed` from its statement on, its child `Open` until its exit is
handled to the end. The argument has three layers:

- `ChildInv`, `ReportedInv` and `CbInv` tie the statement a start is at, the phase of its
  object and the callback in progress to each other. In particular a report comes after
  the start was `Listed`, or the start is in `overtaken`;
- `HastyInv`: two open objects have one pid only if one of them is in `hasty`. This is what
  makes the pid a key: without it an erase or a remove could take another's entry;
- both directions between lists and objects. From an entry to its owner: `NativeEntryInv`
  and `JavaEntryInv` (why no entry is stale). From an object to its entries:
  `RegisteredInv`. Between the lists: `BothInv`, a native entry without a Java one is just
  between `Insert` and `Put`, or between `Remove` and `Erase`.

`MutexInv` serves `CrashNeedsRace`; `KillInv` ties the pid of a `kill()` under way to its
DoryProcess, from which `KillOnTarget` follows with the entry of the pid (`RunningIsOwn`);
`StampInv` says where the exit value of a DoryProcess comes from. The proof showed one
property to be too strong as it stood: `ExitValueIsOwn` fails if a listener threw, so that
its entry stayed behind and the next owner of the pid is reported to it. TLC finds this
behaviour with `Throws`, which the run of that property leaves out; the property now has
the case.

### The loop

All bounds come from `ClockInv`: outside `poll()` the clock has moved at most `Busy` since
the iteration's start, and a `poll()` that began then ends at `wake`, at most a period after
its own beginning (`RemainingTime`). `ClockLag` is the consequence: the cached time is at most
`Lag`, a period and the callbacks, behind. `TimelyInv`, `OutputInv` and `ExitInv` carry the
bound from one step of the iteration to the next: a timer that was registered before `wake`
was computed ends the poll at most `Busy` late; one that was registered during the poll waits
for the watchdog, at most a period. `Late` is the longer of the two (`HowLate`).
`NextDueIsFirst` is that `uv__next_timeout` is the least due time of a set of any size,
`DueValue` that conversion and clamping take a negative timeout beyond any time the clock
comes to.

The bound of `FiresInTime` is `Late + Busy` and not `Period + Busy`, which is wrong when
callbacks take longer than a period; that of `OutputSeenInTime` is `Period + 2 * Busy`. The
assumptions on `Timeouts` and `Width` are those of the types in the code.

### The example and the error codes

`ReuseInv`: among children started one after the other a pid comes back only after its
owner was reaped, or hastily. With `EntryInv` (an entry belongs to a child main is done
with) and `MutexInv` (insert and erase exclude each other) an erase takes the entry of its
own child, and `GoneInv` says that nobody puts it back. `CodeIsNegative` needs of a system that
its numbers have the sign `UV__ERR` tests once (`ErrOfNumber`), `CodesDiffer` that they are
apart as numbers: that the codes are apart, hidden numbers, fallbacks and BSD's 64 included, is
what is proved. `ErrorIsNamed` is `NameOfCode` for
the system at hand; it rests on the tables of `uv/errno.h`, whose four parts have disjoint
ranges. For the prover `Fallback` and `Code` are written without overlapping cases.

### The red-black tree

`IInv` says that two functions exist. `sub` gives for each link the keys below it, and
`Shape` that each node divides them: its own key, what is below its left child and less,
what is below its right child and greater, with parents and children agreeing. `H` gives
for each link its black height, and `Heights` that on both sides of each node it is the
same, but at one place, the gap, where it is one short. With them

- between calls (`Resting`) there is no gap and no red node has a red parent;
- in `RB_INSERT_COLOR` (`Inserting`) there is no gap, and only the node the loop is at may
  have a red parent;
- in `RB_REMOVE_COLOR` (`Removing`) the gap is where the loop is; the node there may be
  red, with a red parent or with red children. `RB_REMOVE` starts the loop only if the node
  it took out was black, and that node had one child at most: the proof follows both, also
  when the successor takes the place of the node.

An invariant with such witnesses is beyond TLC, which would have to enumerate functions; its
consequences are what `Trees` checks. `RedBlackTreeLemmas` says what each change of links or
colors does to `Shape`, `Heights` and `Reds` (`RotateShape`, `AttachShape`, `DetachShape`,
`SubstituteShape`, `TurnHeights`, `FillHeights`, ...), and `RedBlackTreeProofs` puts them
together for each step. `LinksFollowed` needs the heights and not only the links: the
sibling of a place that is short of a black node exists because its height is not 0.

The searches (`Place`, `NFind`, `Outermost`, `Neighbour`) and the way up `Path` are
recursive functions. That they have a value, and which, is not proved by the induction
theorems of the library but by a smallest counterexample: among the nodes at which a search
has no value, one has the fewest keys below it (`LowestNode`, `HighestNode`), and the
search goes from there to a smaller part of the tree.

For the refinement there is `Walking`: the loop of `RB_FOREACH_SAFE` has remembered the
next node, which is the first of those left whether or not the body removed the one it was
at. `StepImplements` shows that each step is the call of `OrderedSet` with the same answer,
and each iteration of the rebalancing loops a stutter.

### The splay tree

In the middle of a splay there is no tree but a forest: the rest of the old tree below the
root, the two parts below the header, and, in the second splay of `SPLAY_REMOVE`, what was
set aside. `IInv` describes it by three predicates:

- `Forest`: the links are those of search trees (`Ordered`: a function `sub` gives the nodes
  below each link, and each node divides those below it), and each node is below exactly
  one of the roots (`Tops`). So no node is lost or doubled and none is reached in a circle.
- `SplitOff` for each side: the goal lies on side `d` of every node of the part that was
  hung there, every node of the rest of the tree lies there, too, and `ends[d]` is the node
  of the part nearest to them. This is why the rest can be hung at that end, and why the nodes
  between the end of a part and the goal are those still below the root.
- `JobOf`, `Waits` and `Reached`: what the operation under way may be; that the node
  `SPLAY_REMOVE` took out lies between what it set aside and everything else; and that
  after a splay no node lies between the root and the goal.

A goal is a function that tells for each node on which side it lies, and all that is used of
it is `Leads`: if the goal lies beyond a node, it lies beyond every node before that one,
too. So the search for a key, for the minimum and for the maximum are one proof.

Every change of the tree is made of two steps: `Cut`, the child of a root becomes a root of
its own, and `Hang`, a root becomes the child of a node at the edge of another tree. A
rotation is two cuts and two hangs, a link of `SPLAY_LINKLEFT` a cut and, but for the first,
a hang, `SPLAY_ASSEMBLE` a cut and two hangs for each part; an insertion and a removal have
`AddNode` or `DropNode` besides. The recursive functions (`NodesBelow`, and the way down in
`Successor`) are dealt with as for the red-black tree, by the lowest node at which they would
have no value. Here `NodesBelow` gives `sub`, so that TLC could check `IInv` on the trees of
five keys before it was proved.

`StepKept` shows of each action that it keeps `IInv` and is a step of `OrderedSet` or a
stutter. The answers follow from `Reached`: `SplayedRoot` says that the goal is at the root
if it is in the tree, and the first or the last node if that was asked for;
`SuccessorAnswers` that `SPLAY_NEXT` finds the first of the nodes to the right. With it a
`SPLAY_FOREACH` visits in each step the least of the nodes that are left.

### Only model-checked

- Liveness (`ExitReported`, `TimeoutEndsChild`, `StartReturns`, `CountSettles`): out of the
  prover's reach.
- That `SameSign` and `Apart` hold of a real system; TLC evaluates them for the four systems.

## 5. Not modelled

- libuv's own code, which is a binary here. `LoopTime` models the data races of `spawn()` on
  the loop by their outcomes (the change is lost, or the application ends); in
  `DoryProcessSpawn` each libuv call is atomic but `uv_spawn`, which is two steps.
- The memory model: a plain field written by one thread is seen by the other at once. The
  one exception is `pid` in the timer callback before `spawn()` has stored it.
- A read error makes the read callbacks send SIGTERM even to a pid that was reaped
  (hpp:180). It is in the model and recorded in `strays`; no document says it should not
  happen, and no property is stated.
- Memory and global references, which the code never frees; JNI conversions, arguments,
  environment, working directory; the messages of `uv_strerror`.
- The sample application: user interface around `start()` and the listeners, and a service
  whose list of messengers nothing is ever sent to. Its stress thread is never started, and
  its "start" and "stop" broadcasts do not reach the process their receiver is in.
- The declarations of libuv's other handles and platforms (`uv.h`, `uv/unix.h`, `uv/win.h`,
  `pthread-barrier.h`, ...): types without behaviour, used by nothing here. Build files and
  the generated tests.

## 6. Plan

All operations of the parts in section 2 are modelled; the sample application is not
(section 5). Every safety property, action property and refinement the runs check is
proved. What is left to TLC is liveness. If the code changes, the place to start is the
action that stands for it and the lemma on that action in the proof module, which names
what it keeps.
