--------------------------- MODULE LoopTimeProofs ---------------------------
(***************************************************************************)
(* Theorems about LoopTime, for any number of objects, any timeouts, any   *)
(* period of the watchdog and callbacks of any length.                     *)
(***************************************************************************)
EXTENDS LoopTime, WellFoundedInduction, TLAPS

-----------------------------------------------------------------------------
(* The inductive invariant *)

\* How late the clock can be, at each step of the loop.
ClockInv ==
  /\ since <= time /\ time <= now
  /\ watchdog = None <=> loop = "start"
  /\ watchdog # None => watchdog <= time + Period
  /\ loop # "poll" => now <= since + Busy
  /\ loop = "poll" => now <= wake /\ wake <= now + Period /\ wake <= time + Lag

Untorn(p, part) == <<p, part>> \notin torn
Deadline(p) == startedAt[p] + timeout[p]

\* A timer that runs is due near its deadline, or, if that is negative, never.
DueInv(p) ==
  /\ pc[p] = "timer" => due[p] = None /\ startedAt[p] = None /\ firedAt[p] = None
  /\ startedAt[p] # None => timeout[p] \in Timeouts /\ startedAt[p] <= now
  /\ due[p] # None =>
       /\ startedAt[p] # None
       /\ timeout[p] > 0 => due[p] <= Deadline(p) /\ Deadline(p) <= due[p] + Lag
       /\ timeout[p] <= 0 => due[p] > MaxTime
  /\ firedAt[p] # None =>
       startedAt[p] # None /\ timeout[p] > 0 /\ Deadline(p) <= firedAt[p] + Lag
  /\ startedAt[p] # None /\ firedAt[p] = None /\ p \notin reaped /\ Untorn(p, "timer") =>
       due[p] # None

\* While it runs its deadline is not long past: a poll() that began with it ends when it
\* is due, but for the callbacks before it, and one that began before it ends within the
\* period of the watchdog.
TimelyInv(p) ==
  due[p] # None /\ timeout[p] > 0 /\ Untorn(p, "timer") =>
    /\ loop # "start"
    /\ loop # "poll" => since <= Deadline(p) + Late
    /\ loop = "enter" => time < due[p]
    /\ loop = "poll" => wake <= due[p] + Busy \/ wake <= startedAt[p] + Period

\* What is to be read from a registered pipe waits for the next poll() that watches it.
OutputInv(p) ==
  pc[p] = "done" /\ Untorn(p, "pipes") =>
    /\ p \in queued \cup polled
    /\ readyAt[p] # None =>
         /\ readyAt[p] <= now
         /\ p \in polled =>
              /\ loop \in {"start", "update", "timers", "enter"} => since <= readyAt[p]
              /\ loop = "poll" => now <= readyAt[p] + Period + Busy
              /\ loop = "events" => since <= readyAt[p] + Period + Busy
         /\ p \in queued =>
              /\ loop # "poll" => since <= readyAt[p] + Period
              /\ loop = "poll" => wake <= readyAt[p] + Period

\* A child that exited and was not looked for yet has its SIGCHLD waiting.
ExitInv(p) ==
  exitAt[p] # None /\ p \notin reaped \cup missed =>
    /\ sigchld
    /\ loop \in {"start", "update", "timers", "enter"} => since <= exitAt[p]
    /\ loop = "poll" => now <= exitAt[p] + Busy
    /\ loop = "events" => since <= exitAt[p] + Busy

IInv ==
  /\ TypeOK
  /\ ClockInv
  /\ \A p \in Procs : DueInv(p) /\ TimelyInv(p) /\ OutputInv(p) /\ ExitInv(p)

-----------------------------------------------------------------------------
(* Unsigned time *)

\* The times there are, and the largest one is none the clock comes to.
LEMMA TimeFacts ==
  /\ Width \in Nat \ {0} /\ MaxTime \in Nat /\ Forever \in Time /\ MaxTime < Forever
  /\ 0..MaxTime \subseteq Time
  /\ None \notin Int
  /\ Period \in Nat \ {0} /\ Busy \in Nat /\ Lag = Period + Busy
  /\ Late \in Nat /\ Period <= Late /\ Busy <= Late
  BY WidthAssumption, NoneAssumption, PeriodAssumption, BusyAssumption
     DEF Forever, Time, Lag, Late

\* What becomes of a signed timeout: a negative one gets into the upper half.
LEMMA UnsignedValue ==
  ASSUME NEW t \in Timeouts
  PROVE  /\ t \in Int
         /\ t >= 0 => Unsigned(t) = t
         /\ t < 0 => Unsigned(t) = t + Width
<1>1. t \in Int /\ -Width <= 2 * t /\ 2 * t < Width /\ Width \in Nat \ {0}
  BY TimeoutsAssumption, TimeFacts
<1>2. t >= 0 => t % Width = t
  BY <1>1
<1>3. t < 0 => t % Width = t + Width
  BY <1>1
<1>q. QED
  BY <1>1, <1>2, <1>3 DEF Unsigned

\* A timer is due at a time, and never later than the loop's time and the timeout.
LEMMA DueInTime ==
  ASSUME time \in 0..MaxTime, NEW t \in Int
  PROVE  /\ Due(t) \in Time
         /\ t >= 0 => Due(t) <= time + t
<1>1. Unsigned(t) \in 0..(Width - 1) /\ (t >= 0 => Unsigned(t) <= t)
  BY TimeFacts DEF Unsigned
<1> DEFINE u == Unsigned(t)
<1> HIDE DEF u
<1>2. CASE time + u < Width
  <2>1. (time + u) % Width = time + u
    BY <1>1, <1>2, TimeFacts DEF u
  <2>q. QED
    BY <1>1, <1>2, <2>1, TimeFacts DEF Due, Time, Forever, u
<1>3. CASE time + u >= Width
  <2>1. (time + u) % Width \in 0..(Width - 1)
    BY <1>1, TimeFacts DEF u
  <2>q. QED
    BY <1>1, <1>3, <2>1, TimeFacts DEF Due, Time, Forever, u
<1>q. QED
  BY <1>1, <1>2, <1>3, TimeFacts DEF u

\* Exactly then, for a positive timeout; for a negative one, when the clock is past its
\* end.
LEMMA DueValue ==
  ASSUME time \in 0..MaxTime, NEW t \in Timeouts
  PROVE  /\ t >= 0 => Due(t) = time + t
         /\ t < 0 => Due(t) > MaxTime
<1> DEFINE u == Unsigned(t)
<1>1. /\ t \in Int /\ -Width <= 2 * t /\ 2 * t < Width /\ Width \in Nat \ {0}
      /\ time \in Nat /\ 2 * time < Width - 2 /\ 2 * MaxTime < Width - 2 /\ MaxTime \in Nat
  BY TimeoutsAssumption, WidthAssumption, TimeFacts
<1>2. (t >= 0 => u = t) /\ (t < 0 => u = t + Width)
  BY UnsignedValue
<1> HIDE DEF u
<1>3. CASE t >= 0
  <2>1. time + u < Width /\ (time + u) % Width = time + u
    BY <1>1, <1>2, <1>3
  <2>q. QED
    BY <1>1, <1>2, <1>3, <2>1 DEF Due, u
<1>4. CASE t < 0 /\ time + t < 0
  <2>1. (time + u) % Width = time + u
    BY <1>1, <1>2, <1>4
  <2>q. QED
    BY <1>1, <1>2, <1>4, <2>1 DEF Due, u
<1>5. CASE t < 0 /\ time + t >= 0
  <2>1. (time + u) % Width = time + t
    BY <1>1, <1>2, <1>5
  <2>q. QED
    BY <1>1, <1>2, <1>5, <2>1 DEF Due, u, Forever
<1>q. QED
  BY <1>1, <1>3, <1>4, <1>5

\* A set of numbers that is not empty has a smallest one.
LEMMA SmallestExists ==
  ASSUME NEW D, D \subseteq Nat, D # {}
  PROVE  \E d \in D : \A e \in D : d <= e
<1> DEFINE Less == {r \in Nat \X Nat : r[1] < r[2]}
<1>1. IsWellFoundedOn(Less, Nat)
  BY NatLessThanWellFounded DEF OpToRel
<1>2. PICK d \in D : \A e \in D : <<e, d>> \notin Less
  <2> HIDE DEF Less
  <2>q. QED
    BY <1>1, WFMin
<1>3. ASSUME NEW e \in D
      PROVE  d <= e
  <2>1. d \in Nat /\ e \in Nat /\ (e < d => <<e, d>> \in Less)
    OBVIOUS
  <2>2. ~(e < d)
    BY <1>2, <2>1
  <2>q. QED
    BY <2>1, <2>2
<1>q. QED
  BY <1>3

\* The next timer is the first one of those that run.
LEMMA NextDueIsFirst ==
  ASSUME TypeOK
  PROVE  /\ NextDue \in Time
         /\ \A p \in Procs : due[p] # None => NextDue <= due[p]
         /\ watchdog # None => NextDue <= watchdog
<1>1. Dues \subseteq Time /\ Dues \subseteq Nat /\ Forever \in Dues
  BY TimeFacts DEF Dues, TypeOK, Time
<1>2. \E d \in Dues : \A e \in Dues : d <= e
  BY <1>1, SmallestExists
<1>3. NextDue \in Dues /\ \A e \in Dues : NextDue <= e
  BY <1>2 DEF NextDue
<1>q. QED
  BY <1>1, <1>3 DEF Dues

\* A poll() waits no longer than for the next timer, counted from the loop's time.
LEMMA RemainingTime ==
  ASSUME TypeOK, time \in Nat
  PROVE  /\ Remaining \in Nat
         /\ watchdog # None /\ watchdog <= time + Period => Remaining <= Period
         /\ \A p \in Procs : due[p] # None /\ time < due[p] => time + Remaining <= due[p]
<1>1. /\ NextDue \in Nat /\ Period \in Nat
      /\ watchdog # None => watchdog \in Nat /\ NextDue <= watchdog
  BY NextDueIsFirst, TimeFacts DEF TypeOK, Time
<1>2. ASSUME NEW p \in Procs, due[p] # None
      PROVE  due[p] \in Nat /\ NextDue <= due[p]
  BY <1>2, NextDueIsFirst, TimeFacts DEF TypeOK, Time
<1>q. QED
  BY <1>1, <1>2 DEF Remaining

-----------------------------------------------------------------------------
USE DEF clockVars, loopVars, timerVars, pipeVars, childVars, historyVars, Goto

\* How late the clock is, compared with the time the loop read last.
LEMMA ClockLag ==
  ASSUME TypeOK, ClockInv
  PROVE  now <= time + Lag
<1>1. now \in Nat /\ time \in Nat /\ since \in Nat /\ wake \in Nat
  BY TimeFacts DEF TypeOK, Time
<1>q. QED
  BY <1>1, TimeFacts DEF ClockInv

LEMMA TypeInit == Init => TypeOK
<1> SUFFICES ASSUME Init
             PROVE  TypeOK
  OBVIOUS
<1>1. sigchld \in BOOLEAN /\ up \in BOOLEAN
  BY Zenon DEF Init
<1>q. QED
  BY <1>1, TimeFacts DEF Init, TypeOK, LoopSteps

\* Every step keeps every variable in its type.
LEMMA TypeStep == TypeOK /\ ClockInv /\ [Next]_vars => TypeOK'
<1> SUFFICES ASSUME TypeOK, ClockInv, Next
             PROVE  TypeOK'
  BY DEF vars, TypeOK
<1> USE DEF TypeOK, LoopSteps
<1>1. CASE Tick
  BY <1>1, TimeFacts DEF Tick
<1>2. CASE StartLoop
  BY <1>2, TimeFacts, DueInTime DEF StartLoop
<1>3. CASE UpdateTime
  BY <1>3 DEF UpdateTime
<1>4. CASE Watchdog
  BY <1>4, TimeFacts, DueInTime DEF Watchdog
<1>5. CASE BeginPoll
  BY <1>5 DEF BeginPoll
<1>6. CASE Poll
  <2>1. now + Remaining \in Nat
    BY RemainingTime, TimeFacts
  <2>q. QED
    BY <1>6, <2>1 DEF Poll
<1>7. CASE Wake
  BY <1>7 DEF Wake
<1>8. CASE Sigchld
  <2>1. sigchld' \in BOOLEAN
    BY <1>8, Zenon DEF Sigchld
  <2>q. QED
    BY <1>8, <2>1 DEF Sigchld
<1>9. CASE EndIteration
  BY <1>9 DEF EndIteration
<1>10. ASSUME NEW p \in Procs, Fire(p)
       PROVE  TypeOK'
  BY <1>10 DEF Fire
<1>11. ASSUME NEW p \in Procs, Read(p)
       PROVE  TypeOK'
  BY <1>11 DEF Read
<1>12. ASSUME NEW p \in Procs, NEW t \in Timeouts, StartTimer(p, t)
       PROVE  TypeOK'
  <2>1. t \in Int
    BY UnsignedValue
  <2>2. Due(t) \in Time
    BY <2>1, DueInTime
  <2>3. up' \in BOOLEAN
    BY <1>12, Zenon DEF StartTimer, Change
  <2>q. QED
    BY <1>12, <2>2, <2>3 DEF StartTimer, Change, Parts
<1>13. ASSUME NEW p \in Procs, Fork(p)
       PROVE  TypeOK'
  BY <1>13 DEF Fork
<1>14. ASSUME NEW p \in Procs, List(p)
       PROVE  TypeOK'
  <2>1. up' \in BOOLEAN
    BY <1>14, Zenon DEF List, Change
  <2>q. QED
    BY <1>14, <2>1 DEF List, Change, Parts
<1>15. ASSUME NEW p \in Procs, ReadStart(p)
       PROVE  TypeOK'
  <2>1. up' \in BOOLEAN
    BY <1>15, Zenon DEF ReadStart, Change
  <2>q. QED
    BY <1>15, <2>1 DEF ReadStart, Change, Parts
<1>16. ASSUME NEW p \in Procs, Ready(p)
       PROVE  TypeOK'
  BY <1>16 DEF Ready
<1>17. ASSUME NEW p \in Procs, Exit(p)
       PROVE  TypeOK'
  <2>1. sigchld' \in BOOLEAN
    BY <1>17, Zenon DEF Exit
  <2>q. QED
    BY <1>17, <2>1 DEF Exit
<1>18. CASE Done
  BY <1>18 DEF Done, vars
<1>q. QED
  BY <1>1, <1>2, <1>3, <1>4, <1>5, <1>6, <1>7, <1>8, <1>9, <1>10, <1>11, <1>12, <1>13, <1>14,
     <1>15, <1>16, <1>17, <1>18 DEF Next, LoopStep

\* The clock and the steps of the loop.
LEMMA ClockStep ==
  ASSUME TypeOK, ClockInv, Next
  PROVE  ClockInv'
<1>0. /\ now \in Nat /\ time \in 0..MaxTime /\ time \in Nat /\ since \in Nat /\ wake \in Nat
      /\ watchdog \in Time \cup {None} /\ Time \subseteq Nat
  BY TimeFacts DEF TypeOK, Time
<1> USE DEF ClockInv
<1>1. CASE Tick
  BY <1>0, <1>1, TimeFacts DEF Tick, MayWake
<1>2. CASE StartLoop
  <2>1. Due(0) \in Time /\ Due(0) <= time
    BY <1>0, DueInTime
  <2>2. Due(0) # None
    BY <2>1, TimeFacts DEF Time
  <2>q. QED
    BY <1>0, <1>2, <2>1, <2>2, TimeFacts DEF StartLoop
<1>3. CASE UpdateTime
  BY <1>0, <1>3, TimeFacts DEF UpdateTime
<1>4. CASE Watchdog
  <2>1. Due(Period) \in Time /\ Due(Period) <= time + Period
    BY <1>0, DueInTime, TimeFacts
  <2>2. Due(Period) # None
    BY <2>1, TimeFacts DEF Time
  <2>q. QED
    BY <1>0, <1>4, <2>1, <2>2, TimeFacts DEF Watchdog
<1>5. CASE BeginPoll
  BY <1>5 DEF BeginPoll
<1>6. CASE Poll
  <2>1. /\ Remaining \in Nat /\ Remaining <= Period
        /\ now <= since + Busy /\ wake' = now + Remaining
    BY <1>0, <1>6, RemainingTime, TimeFacts DEF Poll
  <2>q. QED
    BY <1>0, <1>6, <2>1, TimeFacts DEF Poll
<1>7. CASE Wake
  BY <1>0, <1>7, TimeFacts DEF Wake
<1>8. CASE EndIteration
  BY <1>8 DEF EndIteration
<1>o. ASSUME UNCHANGED <<clockVars, loopVars>>
      PROVE  ClockInv'
  BY <1>o
<1>q. QED
  BY <1>1, <1>2, <1>3, <1>4, <1>5, <1>6, <1>7, <1>8, <1>o DEF Next, LoopStep, Sigchld, Fire, Read,
     StartTimer, Fork, List, ReadStart, Ready, Exit, Done, vars

\* A timer that runs is due near its deadline, or never.
LEMMA DueStep ==
  ASSUME TypeOK, ClockInv, Next, TypeOK', NEW p \in Procs, DueInv(p)
  PROVE  DueInv(p)'
<1>0. /\ now \in Nat /\ time \in 0..MaxTime /\ time \in Nat /\ time <= now /\ now <= time + Lag
      /\ now' \in Nat /\ now <= now'
      /\ due[p] \in Time \cup {None} /\ Time \subseteq Nat
      /\ startedAt[p] \in 0..MaxTime \cup {None} /\ firedAt[p] \in 0..MaxTime \cup {None}
      /\ timeout[p] \in Timeouts \cup {None} /\ Timeouts \subseteq Int
  <2>1. now' = now + 1 \/ now' = now
    BY DEF Next, LoopStep, Tick, StartLoop, UpdateTime, Watchdog, BeginPoll, Poll,
       Wake, Sigchld, EndIteration, Fire, Read, StartTimer, Fork, List, ReadStart, Ready, Exit,
       Done, vars
  <2>q. QED
    BY <2>1, TimeFacts, ClockLag, TimeoutsAssumption DEF TypeOK, ClockInv, Time
<1> USE DEF DueInv, Deadline, Untorn
<1>1. ASSUME NEW t \in Timeouts, StartTimer(p, t)
      PROVE  DueInv(p)'
  <2>1. /\ t \in Int /\ (t >= 0 => Unsigned(t) = t) /\ (t < 0 => Unsigned(t) # 0)
        /\ t >= 0 => Due(t) = time + t
        /\ t < 0 => Due(t) > MaxTime
        /\ Due(t) \in Time /\ Due(t) # None
    <3>1. t < 0 => Unsigned(t) # 0
      BY UnsignedValue, TimeoutsAssumption, TimeFacts
    <3>2. Due(t) \in Time /\ Due(t) # None
      BY <1>0, UnsignedValue, DueInTime, TimeFacts DEF Time
    <3>q. QED
      BY <1>0, <3>1, <3>2, UnsignedValue, DueValue
  <2>2. /\ pc[p] = "timer" /\ pc' = [pc EXCEPT ![p] = "fork"] /\ UNCHANGED <<now, firedAt, reaped>>
        /\ timeout' = [timeout EXCEPT ![p] = t]
    BY <1>1 DEF StartTimer
  <2>3. CASE Unsigned(t) = 0
    <3>1. UNCHANGED <<due, startedAt, torn>>
      BY <1>1, <2>3 DEF StartTimer
    <3>q. QED
      BY <1>0, <2>1, <2>2, <3>1 DEF TypeOK
  <2>4. CASE Unsigned(t) # 0
    <3>1. /\ startedAt' = [startedAt EXCEPT ![p] = now]
          /\ \/ due' = [due EXCEPT ![p] = Due(t)]
             \/ due' = due /\ <<p, "timer">> \in torn'
      BY <1>1, <2>4 DEF StartTimer, Change
    <3>2. /\ startedAt'[p] = now /\ timeout'[p] = t /\ pc'[p] = "fork" /\ firedAt'[p] = None
          /\ due'[p] = Due(t) \/ (due'[p] = None /\ <<p, "timer">> \in torn')
      BY <1>0, <2>2, <3>1 DEF TypeOK
    <3>3. t # 0
      BY <2>1, <2>4
    <3>q. QED
      BY <1>0, <2>1, <2>2, <3>2, <3>3, TimeFacts
  <2>q. QED
    BY <2>3, <2>4
<1>2. ASSUME NEW q \in Procs, q # p, NEW t \in Timeouts, StartTimer(q, t)
      PROVE  DueInv(p)'
  BY <1>0, <1>2 DEF TypeOK, StartTimer, Change
<1>3. ASSUME NEW q \in Procs, Fire(q)
      PROVE  DueInv(p)'
  <2>1. CASE q = p
    <3>1. due[p] # None /\ due[p] <= time /\ due'[p] = None /\ firedAt'[p] = now
      BY <1>3, <2>1, NextDueIsFirst, TimeFacts DEF Fire, TypeOK, Time
    <3>2. UNCHANGED <<now, startedAt, timeout, pc, reaped, torn>>
      BY <1>3 DEF Fire
    <3>3. startedAt[p] # None /\ startedAt[p] \in Nat /\ timeout[p] \in Int
      <4>1. startedAt[p] # None /\ timeout[p] \in Timeouts
        BY <3>1
      <4>q. QED
        BY <1>0, <4>1, TimeFacts
    <3>4. timeout[p] > 0 /\ Deadline(p) <= due[p] + Lag
      <4>1. ~(due[p] > MaxTime)
        <5>1. due[p] \in Nat
          BY <1>0, <3>1
        <5>q. QED
          BY <1>0, <3>1, <5>1, TimeFacts
      <4>2. ~(timeout[p] <= 0)
        BY <3>1, <4>1
      <4>q. QED
        BY <3>1, <3>3, <4>2
    <3>5. Deadline(p) <= now + Lag
      BY <1>0, <3>1, <3>3, <3>4, TimeFacts DEF Time
    <3>q. QED
      <4>1. pc[p] # "timer" /\ startedAt[p] <= now /\ timeout[p] \in Timeouts
        BY <3>1, <3>3
      <4>2. firedAt'[p] # None /\ startedAt'[p] + timeout'[p] <= firedAt'[p] + Lag
        BY <1>0, <3>1, <3>2, <3>5, TimeFacts
      <4>q. QED
        BY <3>1, <3>2, <3>3, <3>4, <4>1, <4>2
  <2>2. CASE q # p
    BY <1>0, <1>3, <2>2 DEF Fire, TypeOK
  <2>q. QED
    BY <2>1, <2>2
<1>4. CASE Sigchld
  BY <1>0, <1>4 DEF Sigchld, TypeOK
<1>5. ASSUME NEW q \in Procs, List(q) \/ ReadStart(q)
      PROVE  DueInv(p)'
  BY <1>0, <1>5 DEF List, ReadStart, Change, TypeOK
<1>6. ASSUME NEW q \in Procs, Fork(q)
      PROVE  DueInv(p)'
  BY <1>0, <1>6 DEF Fork, TypeOK
<1>7. CASE Tick
  BY <1>0, <1>7 DEF Tick
<1>o. ASSUME UNCHANGED <<pc, due, startedAt, firedAt, timeout, reaped, torn, now>>
      PROVE  DueInv(p)'
  BY <1>o
<1>q. QED
  BY <1>1, <1>2, <1>3, <1>4, <1>5, <1>6, <1>7, <1>o DEF Next, LoopStep, StartLoop, UpdateTime,
     Watchdog, BeginPoll, Poll, Wake, EndIteration, Read, Ready, Exit, Done, vars

\* A deadline is not long past while its timer runs.
LEMMA TimelyStep ==
  ASSUME TypeOK, ClockInv, Next, TypeOK', NEW p \in Procs, DueInv(p), DueInv(p)', TimelyInv(p)
  PROVE  TimelyInv(p)'
<1>0. /\ now \in Nat /\ time \in Nat /\ since \in Nat /\ wake \in Nat
      /\ since <= time /\ time <= now /\ now <= time + Lag
      /\ due[p] \in Nat \cup {None}
      /\ due[p] # None => startedAt[p] \in Nat /\ timeout[p] \in Int
  <2>1. /\ startedAt[p] \in 0..MaxTime \cup {None} /\ timeout[p] \in Timeouts \cup {None}
        /\ due[p] \in Time \cup {None} /\ Timeouts \subseteq Int
    BY TimeFacts, TimeoutsAssumption DEF TypeOK
  <2>2. due[p] # None => startedAt[p] # None /\ timeout[p] \in Timeouts
    BY DEF DueInv
  <2>3. due[p] # None => startedAt[p] \in Nat
    BY <2>1, <2>2, TimeFacts
  <2>4. due[p] # None => timeout[p] \in Int
    BY <2>1, <2>2
  <2>5. due[p] \in Nat \cup {None}
    BY <2>1, TimeFacts DEF Time
  <2>q. QED
    BY <2>3, <2>4, <2>5, TimeFacts, ClockLag DEF TypeOK, ClockInv, Time
<1>d. due[p] # None /\ timeout[p] > 0 =>
        startedAt[p] <= now /\ due[p] <= Deadline(p) /\ startedAt[p] < Deadline(p)
  BY <1>0, TimeFacts DEF DueInv, Deadline
<1> USE DEF TimelyInv, Untorn
<1>1. ASSUME NEW t \in Timeouts, StartTimer(p, t)
      PROVE  TimelyInv(p)'
  <2>1. /\ pc[p] = "timer" /\ UNCHANGED <<loop, since, time, wake, now>> /\ torn \subseteq torn'
        /\ timeout'[p] = t
    BY <1>1 DEF StartTimer, Change, TypeOK
  <2>2. due[p] = None
    BY <2>1 DEF DueInv
  <2>3. ASSUME due'[p] # None, t > 0, <<p, "timer">> \notin torn'
        PROVE  startedAt'[p] = now /\ loop \notin {"start", "timers", "enter"}
    BY <1>1, <2>2, <2>3 DEF StartTimer, Change, InUse, TypeOK
  <2>4. ASSUME due'[p] # None, t > 0, <<p, "timer">> \notin torn'
        PROVE  Deadline(p)' = now + t
    BY <2>1, <2>3, <2>4 DEF Deadline
  <2>5. ASSUME due'[p] # None, t > 0, <<p, "timer">> \notin torn'
        PROVE  /\ loop # "poll" => since <= Deadline(p)' + Late
               /\ loop = "poll" => wake <= startedAt'[p] + Period
    BY <1>0, <2>3, <2>4, <2>5, TimeFacts, TimeoutsAssumption DEF ClockInv
  <2>q. QED
    BY <1>0, <2>1, <2>2, <2>3, <2>5 DEF Deadline
<1>2. ASSUME NEW q \in Procs, q # p, NEW t \in Timeouts, StartTimer(q, t)
      PROVE  TimelyInv(p)'
  BY <1>2 DEF TypeOK, StartTimer, Change, Deadline
<1>3. ASSUME NEW q \in Procs, Fire(q)
      PROVE  TimelyInv(p)'
  BY <1>3 DEF Fire, TypeOK, Deadline
<1>4. CASE Sigchld
  BY <1>4 DEF Sigchld, TypeOK, Deadline
<1>5. ASSUME NEW q \in Procs, List(q) \/ ReadStart(q)
      PROVE  TimelyInv(p)'
  BY <1>5 DEF List, ReadStart, Change, Deadline
<1>6. CASE StartLoop
  BY <1>0, <1>6 DEF StartLoop, Deadline
<1>7. CASE UpdateTime
  BY <1>0, <1>7 DEF UpdateTime, Deadline
<1>8. CASE BeginPoll
  <2>1. due[p] # None => time < due[p]
    BY <1>0, <1>8, NextDueIsFirst DEF BeginPoll, Time
  <2>q. QED
    BY <1>0, <1>8, <2>1 DEF BeginPoll, Deadline
<1>9. CASE Poll
  <2>1. /\ loop = "enter" /\ loop' = "poll" /\ wake' = now + Remaining /\ Remaining \in Nat
        /\ UNCHANGED <<due, timeout, startedAt, torn>>
        /\ now <= since + Busy /\ Busy \in Nat
    BY <1>0, <1>9, RemainingTime, TimeFacts DEF Poll, ClockInv
  <2>2. due[p] # None /\ time < due[p] => time + Remaining <= due[p]
    BY <1>0, RemainingTime
  <2>3. due[p] # None /\ time < due[p] => wake' <= due[p] + Busy
    BY <1>0, <2>1, <2>2
  <2>q. QED
    BY <2>1, <2>3
<1>10. CASE Wake
  <2>1. UNCHANGED <<due, timeout, startedAt, torn>> /\ loop = "poll" /\ loop' = "events"
        /\ since' = now
    BY <1>10 DEF Wake
  <2>2. ASSUME due[p] # None, timeout[p] > 0, Untorn(p, "timer")
        PROVE  now <= Deadline(p) + Late
    BY <1>0, <1>d, <2>1, <2>2, TimeFacts DEF ClockInv, Deadline
  <2>q. QED
    BY <2>1, <2>2 DEF Deadline
<1>11. CASE EndIteration
  BY <1>11 DEF EndIteration, Deadline
<1>o. ASSUME UNCHANGED <<due, startedAt, timeout, torn, loop, since, time, wake>>
      PROVE  TimelyInv(p)'
  BY <1>o DEF Deadline
<1>q. QED
  BY <1>1, <1>2, <1>3, <1>4, <1>5, <1>6, <1>7, <1>8, <1>9, <1>10, <1>11, <1>o DEF Next, LoopStep,
     Tick, Watchdog, Fork, Read, Ready, Exit, Done, vars

\* What is to be read does not wait long.
LEMMA OutputStep ==
  ASSUME TypeOK, ClockInv, Next, TypeOK', NEW p \in Procs, OutputInv(p)
  PROVE  OutputInv(p)'
<1>0. /\ now \in Nat /\ time \in Nat /\ since \in Nat /\ wake \in Nat /\ Period \in Nat /\ Busy \in Nat
      /\ since <= time /\ time <= now
      /\ readyAt[p] \in Nat \cup {None} /\ None \notin Nat
  BY TimeFacts DEF TypeOK, ClockInv, Time
<1> USE DEF OutputInv, Untorn
<1>1. CASE Tick
  BY <1>0, <1>1 DEF Tick, MayWake, Readable, ClockInv
<1>2. ASSUME NEW q \in Procs, NEW t \in Timeouts, StartTimer(q, t)
      PROVE  OutputInv(p)'
  BY <1>2 DEF StartTimer, Change, TypeOK
<1>3. ASSUME NEW q \in Procs, Fork(q)
      PROVE  OutputInv(p)'
  BY <1>3 DEF Fork, TypeOK
<1>4. ASSUME NEW q \in Procs, List(q)
      PROVE  OutputInv(p)'
  BY <1>4 DEF List, Change, TypeOK
<1>5. ASSUME ReadStart(p)
      PROVE  OutputInv(p)'
  BY <1>0, <1>5 DEF ReadStart, Change, InUse, TypeOK, LoopSteps, ClockInv
<1>6. ASSUME NEW q \in Procs, q # p, ReadStart(q)
      PROVE  OutputInv(p)'
  BY <1>6 DEF ReadStart, Change, TypeOK
<1>7. ASSUME NEW q \in Procs, Ready(q)
      PROVE  OutputInv(p)'
  BY <1>0, <1>7 DEF Ready, TypeOK, LoopSteps, ClockInv
<1>8. ASSUME NEW q \in Procs, Read(q)
      PROVE  OutputInv(p)'
  BY <1>0, <1>8 DEF Read, TypeOK
<1>9. CASE StartLoop
  BY <1>9 DEF StartLoop
<1>10. CASE UpdateTime
  BY <1>10 DEF UpdateTime
<1>11. CASE BeginPoll
  BY <1>11 DEF BeginPoll
<1>12. CASE Poll
  BY <1>0, <1>12 DEF Poll, ClockInv
<1>13. CASE Wake
  BY <1>0, <1>13 DEF Wake, ClockInv
<1>14. CASE EndIteration
  BY <1>0, <1>14 DEF EndIteration, Readable
<1>o. ASSUME UNCHANGED <<now, time, loop, since, wake, pc, queued, polled, readyAt, torn>>
      PROVE  OutputInv(p)'
  BY <1>o
<1>q. QED
  BY <1>1, <1>2, <1>3, <1>4, <1>5, <1>6, <1>7, <1>8, <1>9, <1>10, <1>11, <1>12, <1>13, <1>14, <1>o
     DEF Next, LoopStep, Watchdog, Sigchld, Fire, Exit, Done, vars

\* The SIGCHLD of a child that exited waits until it is served.
LEMMA ExitStep ==
  ASSUME TypeOK, ClockInv, Next, TypeOK', NEW p \in Procs, ExitInv(p)
  PROVE  ExitInv(p)'
<1>0. /\ now \in Nat /\ time \in Nat /\ since \in Nat /\ Busy \in Nat
      /\ since <= time /\ time <= now
      /\ exitAt[p] \in Nat \cup {None} /\ None \notin Nat
  BY TimeFacts DEF TypeOK, ClockInv, Time
<1> USE DEF ExitInv
<1>1. CASE Tick
  BY <1>0, <1>1 DEF Tick, MayWake
<1>2. ASSUME NEW q \in Procs, Exit(q)
      PROVE  ExitInv(p)'
  BY <1>0, <1>2 DEF Exit, TypeOK
<1>3. CASE Sigchld
  BY <1>3 DEF Sigchld
<1>4. CASE StartLoop
  BY <1>4 DEF StartLoop
<1>5. CASE UpdateTime
  BY <1>5 DEF UpdateTime
<1>6. CASE BeginPoll
  BY <1>6 DEF BeginPoll
<1>7. CASE Poll
  BY <1>0, <1>7 DEF Poll, ClockInv
<1>8. CASE Wake
  BY <1>0, <1>8 DEF Wake
<1>9. CASE EndIteration
  BY <1>9 DEF EndIteration
<1>o. ASSUME UNCHANGED <<now, loop, since, exitAt, reaped, missed, sigchld>>
      PROVE  ExitInv(p)'
  BY <1>o
<1>q. QED
  BY <1>1, <1>2, <1>3, <1>4, <1>5, <1>6, <1>7, <1>8, <1>9, <1>o DEF Next, LoopStep, Watchdog, Fire,
     Read, StartTimer, Fork, List, ReadStart, Ready, Done, vars

-----------------------------------------------------------------------------
(* The invariant *)

LEMMA IInvInit == Init => IInv
<1> SUFFICES ASSUME Init
             PROVE  IInv
  OBVIOUS
<1>1. TypeOK
  BY TypeInit
<1>2. ClockInv
  BY TimeFacts DEF Init, ClockInv
<1>3. \A p \in Procs : DueInv(p) /\ TimelyInv(p) /\ OutputInv(p) /\ ExitInv(p)
  BY DEF Init, DueInv, TimelyInv, OutputInv, ExitInv
<1>q. QED
  BY <1>1, <1>2, <1>3 DEF IInv

LEMMA IInvStep == IInv /\ [Next]_vars => IInv'
<1>1. ASSUME IInv, Next
      PROVE  IInv'
  <2>1. TypeOK' /\ ClockInv'
    BY <1>1, TypeStep, ClockStep DEF IInv
  <2>2. ASSUME NEW p \in Procs
        PROVE  DueInv(p)' /\ TimelyInv(p)' /\ OutputInv(p)' /\ ExitInv(p)'
    BY <1>1, <2>1, DueStep, TimelyStep, OutputStep, ExitStep DEF IInv
  <2>q. QED
    BY <2>1, <2>2 DEF IInv
<1>2. ASSUME IInv, UNCHANGED vars
      PROVE  IInv'
  BY <1>2 DEF vars, IInv, TypeOK, ClockInv, DueInv, TimelyInv, OutputInv, ExitInv, Deadline, Untorn
<1>q. QED
  BY <1>1, <1>2

\* Everything above holds in every state the loop and its time come to.
THEOREM Invariant == Spec => []IInv
  BY IInvInit, IInvStep, PTL DEF Spec

-----------------------------------------------------------------------------
(* What it says of the loop *)

\* Every variable keeps its type, the unsigned times included.
THEOREM TypeCorrect == Spec => []TypeOK
<1>1. IInv => TypeOK
  BY DEF IInv
<1>q. QED
  BY <1>1, Invariant, PTL

\* A timer fires at most one lag of the loop's time before its deadline.
THEOREM FiresNotEarlyHolds == Spec => []FiresNotEarly
<1>1. IInv => FiresNotEarly
  BY DEF IInv, DueInv, Deadline, FiresNotEarly
<1>q. QED
  BY <1>1, Invariant, PTL

\* A negative timeout never fires.
THEOREM NegativeNeverFiresHolds == Spec => []NegativeNeverFires
<1>1. IInv => NegativeNeverFires
  BY DEF IInv, DueInv, NegativeNeverFires
<1>q. QED
  BY <1>1, Invariant, PTL

\* The clock, while a timer runs that ought to have fired.
LEMMA HowLate ==
  ASSUME TypeOK, ClockInv, NEW p \in Procs, DueInv(p), TimelyInv(p),
         due[p] # None, timeout[p] > 0, Untorn(p, "timer")
  PROVE  now <= Deadline(p) + Late + Busy
<1>1. /\ now \in Nat /\ time \in Nat /\ since \in Nat /\ wake \in Nat /\ due[p] \in Nat
      /\ Period \in Nat /\ Busy \in Nat /\ Late \in Nat /\ Period <= Late /\ Busy <= Late
  BY TimeFacts DEF TypeOK, Time
<1>2. startedAt[p] \in Nat
  BY TimeFacts DEF TypeOK, DueInv
<1>3. timeout[p] \in Int
  BY TimeoutsAssumption DEF DueInv
<1>4. due[p] <= Deadline(p) /\ Deadline(p) \in Nat /\ startedAt[p] <= Deadline(p)
  BY <1>1, <1>2, <1>3 DEF DueInv, Deadline
<1>5. CASE loop # "poll"
  BY <1>1, <1>4, <1>5 DEF ClockInv, TimelyInv
<1>6. CASE loop = "poll"
  BY <1>1, <1>2, <1>4, <1>6 DEF ClockInv, TimelyInv
<1>q. QED
  BY <1>5, <1>6

\* A timer fires at most Late and the callbacks of an iteration after its deadline.
THEOREM FiresInTimeHolds == Spec => []FiresInTime
<1>1. ASSUME IInv, NEW p \in Procs, startedAt[p] # None, timeout[p] > 0, p \notin reaped,
             firedAt[p] = None, Untorn(p, "timer")
      PROVE  now <= startedAt[p] + timeout[p] + Late + Busy
  <2>1. due[p] # None
    BY <1>1 DEF IInv, DueInv
  <2>q. QED
    BY <1>1, <2>1, HowLate DEF IInv, Deadline
<1>2. ASSUME IInv
      PROVE  FiresInTime
  <2> SUFFICES ASSUME NEW p \in Procs, startedAt[p] # None, timeout[p] > 0, p \notin reaped,
                      now > startedAt[p] + timeout[p] + Late + Busy,
                      firedAt[p] = None, Untorn(p, "timer")
               PROVE  FALSE
    BY DEF FiresInTime, Untorn
  <2>1. now \in Nat /\ startedAt[p] \in Nat /\ timeout[p] \in Int /\ Late \in Nat /\ Busy \in Nat
    <3>1. timeout[p] \in Int
      BY <1>2, TimeoutsAssumption DEF IInv, DueInv
    <3>q. QED
      BY <1>2, <3>1, TimeFacts DEF IInv, TypeOK
  <2>q. QED
    BY <1>1, <1>2, <2>1
<1>q. QED
  BY <1>2, Invariant, PTL

\* Output is seen in time.
THEOREM OutputSeenInTimeHolds == Spec => []OutputSeenInTime
<1>1. ASSUME IInv, NEW p \in Procs, pc[p] = "done", readyAt[p] # None, Untorn(p, "pipes")
      PROVE  now <= readyAt[p] + Period + 2 * Busy
  <2>1. /\ now \in Nat /\ time \in Nat /\ since \in Nat /\ readyAt[p] \in Nat
        /\ Period \in Nat /\ Busy \in Nat
        /\ loop \in LoopSteps
    BY <1>1, TimeFacts DEF IInv, TypeOK
  <2>2. /\ loop # "poll" => now <= since + Busy
        /\ loop = "poll" => now <= wake /\ wake \in Nat
    BY <1>1 DEF IInv, ClockInv, TypeOK
  <2>3. OutputInv(p)
    BY <1>1 DEF IInv
  <2>4. CASE p \in polled
    BY <1>1, <2>1, <2>2, <2>3, <2>4 DEF OutputInv, LoopSteps
  <2>5. CASE p \in queued
    BY <1>1, <2>1, <2>2, <2>3, <2>5 DEF OutputInv
  <2>q. QED
    BY <1>1, <2>3, <2>4, <2>5 DEF OutputInv
<1>2. IInv => OutputSeenInTime
  BY <1>1 DEF OutputSeenInTime, Untorn
<1>q. QED
  BY <1>2, Invariant, PTL

\* An exit is seen in time.
THEOREM ExitSeenInTimeHolds == Spec => []ExitSeenInTime
<1>1. ASSUME IInv, NEW p \in Procs, exitAt[p] # None, p \notin reaped \cup missed
      PROVE  now <= exitAt[p] + 2 * Busy
  <2>1. /\ now \in Nat /\ since \in Nat /\ exitAt[p] \in Nat /\ Busy \in Nat
        /\ loop \in LoopSteps
    BY <1>1, TimeFacts DEF IInv, TypeOK
  <2>2. loop # "poll" => now <= since + Busy
    BY <1>1 DEF IInv, ClockInv
  <2>3. ExitInv(p)
    BY <1>1 DEF IInv
  <2>q. QED
    BY <1>1, <2>1, <2>2, <2>3 DEF ExitInv, LoopSteps
<1>2. IInv => ExitSeenInTime
  BY <1>1 DEF ExitSeenInTime
<1>q. QED
  BY <1>2, Invariant, PTL

=============================================================================
