----------------------- MODULE RuntimeSupervisorProofs -----------------------
(***************************************************************************)
(* Proofs about the supervision of background services, for any services,   *)
(* periods, timeouts and limits.                                            *)
(***************************************************************************)
EXTENDS RuntimeSupervisor, SequenceTheorems, FiniteSetTheorems, TLAPS

-----------------------------------------------------------------------------
(***************************************************************************)
(* What one step may do to the health of a service: nothing, let it grow    *)
(* older, hear of it, hear of a failure, or restart it.  Only a recovery    *)
(* that was due restarts, and only a failure makes a recovery due.          *)
(***************************************************************************)
Older(h) == [h EXCEPT !.age = AtMost(@ + 1, Timeout + 1)]

Counted(h) == [h EXCEPT !.attempts = @ + 1]

HealthMoves(s) ==
    \/ health'[s] \in {health[s], Older(health[s]), MarkHealthy(health[s])} /\ (s \in todo' => s \in todo)
    \/ health'[s] = MarkFailed(health[s])
    \/ /\ s \in todo /\ s \notin todo'
       /\ health[s].attempts < MaxAttempts
       /\ health'[s] \in {Counted(health[s]), MarkFailed(Counted(health[s]))}

(***************************************************************************)
(* The scan for dead tasks finds supervised services whose loop is gone.    *)
(***************************************************************************)
LEMMA ScanFindsGone ==
  ASSUME WatchQuiet \/ WatchScan
  PROVE  \E dead \in SUBSET {s \in Services \ Mute : loop[s] = "absent"} : FinishScan(dead)
  BY DEF WatchQuiet, WatchScan, DeadSets, Gone

LEMMA HealthStep ==
  ASSUME TypeOK, [Next]_vars
  PROVE  /\ health' = [s \in Services |-> health'[s]]
         /\ \A s \in Services : HealthMoves(s)
  <1> DEFINE Goal == /\ health' = [s \in Services |-> health'[s]]
                     /\ \A s \in Services : HealthMoves(s)
  <1>1. health = [s \in Services |-> health[s]] /\ todo \subseteq Services
    BY DEF TypeOK
  <1>2. CASE health' = health /\ todo' \subseteq todo
    BY <1>1, <1>2 DEF HealthMoves
  <1>3. CASE \E s \in Services : Wake(s) \/ WakeWithoutManager(s) \/ Crash(s) \/ Reap(s)
    BY <1>2, <1>3 DEF Wake, WakeWithoutManager, Crash, Reap, watchVars
  <1>4. ASSUME NEW s \in Services, todo' = todo,
               health' = health \/ health' = [health EXCEPT ![s] = MarkHealthy(@)]
                                \/ health' = [health EXCEPT ![s] = MarkFailed(@)]
        PROVE  Goal
    <2>1. health' = [r \in Services |-> health'[r]]
      BY <1>1, <1>4
    <2>2. \A r \in Services : health'[r] \in {health[r], MarkHealthy(health[r]), MarkFailed(health[r])}
      BY <1>1, <1>4
    <2> QED
      BY <1>4, <2>1, <2>2 DEF HealthMoves
  <1>5. CASE \E s \in Services : ThreadStep(s)
    <2>1. PICK s \in Services : ThreadStep(s)
      BY <1>5
    <2>2. todo' = todo
      BY <2>1
         DEF ThreadStep, EndBeat, EndCheck, EndReport, EndOrphan, Beat, Check, Report,
             ReportCrash, FinishOrphan, DropOrphan, watchVars
    <2>3. \/ health' = health
          \/ health' = [health EXCEPT ![s] = MarkHealthy(@)]
          \/ health' = [health EXCEPT ![s] = MarkFailed(@)]
      <3>1. CASE Beat(s) \/ (\E ok \in BOOLEAN : Check(s, ok)) \/ Report(s) \/ ReportCrash(s)
        BY <3>1 DEF Beat, Check, Report, ReportCrash
      <3>2. CASE FinishOrphan(s, "beat")
        BY <3>2 DEF FinishOrphan
      <3>3. CASE FinishOrphan(s, "check")
        BY <1>1, <3>3 DEF FinishOrphan
      <3>4. CASE FinishOrphan(s, "report")
        BY <3>4 DEF FinishOrphan
      <3>5. CASE \E op \in {"beat", "check", "report"} : DropOrphan(s, op)
        BY <3>5 DEF DropOrphan
      <3> QED
        BY <2>1, <3>1, <3>2, <3>3, <3>4, <3>5
           DEF ThreadStep, EndBeat, EndCheck, EndReport, EndOrphan
    <2> QED
      BY <1>4, <2>2, <2>3
  <1>6. CASE \E s \in Services : Recover(s)
    <2>1. PICK s \in Services : Recover(s)
      BY <1>6
    <2>2. s \in todo /\ todo' = todo \ {s}
      BY <2>1 DEF Recover
    <2>3. CASE GiveUp(s) \/ Throttle(s)
      BY <1>2, <2>2, <2>3 DEF GiveUp, Throttle
    <2>4. CASE Restart(s)
      <3>1. health[s].attempts < MaxAttempts
        BY <2>4 DEF Restart
      <3>2. \/ health' = [health EXCEPT ![s] = Counted(health[s])]
            \/ health' = [health EXCEPT ![s] = MarkFailed(Counted(health[s]))]
        BY <2>4 DEF Restart, Counted
      <3>3. health' = [r \in Services |-> health'[r]]
        BY <1>1, <3>2
      <3>4. HealthMoves(s)
        BY <1>1, <2>2, <3>1, <3>2 DEF HealthMoves
      <3>5. \A r \in Services \ {s} : HealthMoves(r)
        BY <1>1, <2>2, <3>2 DEF HealthMoves
      <3> QED
        BY <3>3, <3>4, <3>5
    <2> QED
      BY <2>1, <2>3, <2>4 DEF Recover
  <1>7. ASSUME NEW S \in SUBSET Services, todo' \subseteq S, MarkServicesFailed(S)
        PROVE  Goal
    BY <1>1, <1>7 DEF MarkServicesFailed, HealthMoves
  <1>8. CASE WatchQuiet \/ WatchScan
    BY <1>7, <1>8, ScanFindsGone DEF FinishScan
  <1>9. CASE WatchStale
    <2>1. PICK S \in StaleSets : MarkServicesFailed(S) /\ todo' = S \ Mute
      BY <1>9 DEF WatchStale
    <2>2. S \subseteq Services
      BY DEF StaleSets
    <2> QED
      BY <1>7, <2>1, <2>2
  <1>10. CASE WatchDone \/ CreateManager \/ EventFlood \/ StopWatchdog \/ CancelAllTasks \/ UNCHANGED vars
    BY <1>2, <1>10
       DEF WatchDone, CreateManager, EventFlood, StopWatchdog, CancelAllTasks, vars, watchVars
  <1>11. CASE Tick
    BY <1>1, <1>11 DEF Tick, Older, HealthMoves
  <1> QED
    BY <1>3, <1>5, <1>6, <1>8, <1>9, <1>10, <1>11 DEF Next, EventLoopStep, Shutdown

(***************************************************************************)
(* Whoever reports, the record stays well formed: the status tells the      *)
(* number of failures.                                                      *)
(***************************************************************************)
GoodHealth(h) ==
    /\ h \in Health
    /\ h.status = "healthy" <=> h.failures = 0
    /\ h.status = "unhealthy" <=> h.failures >= Threshold

LEMMA GoodHealthKept ==
  ASSUME NEW h, GoodHealth(h)
  PROVE  /\ GoodHealth(Older(h)) /\ GoodHealth(MarkHealthy(h)) /\ GoodHealth(MarkFailed(h))
         /\ h.attempts < MaxAttempts => GoodHealth(Counted(h)) /\ GoodHealth(MarkFailed(Counted(h)))
  <1>1. /\ Timeout \in Nat \ {0} /\ Threshold \in Nat \ {0} /\ MaxAttempts \in Nat
    BY SupervisorAssumption
  <1>2. ASSUME NEW g, GoodHealth(g)
        PROVE  GoodHealth(MarkFailed(g))
    <2> DEFINE n == AtMost(g.failures + 1, Threshold)
    <2>1. n \in 1..Threshold
      BY <1>1, <1>2 DEF GoodHealth, Health, AtMost
    <2>2. MarkFailed(g) = [g EXCEPT !.failures = n, !.age = 0,
                             !.status = IF n >= Threshold THEN "unhealthy" ELSE "degraded"]
      BY DEF MarkFailed
    <2> DEFINE r == MarkFailed(g)
    <2> HIDE DEF n
    <2>3. g \in Health
      BY <1>2 DEF GoodHealth
    <2>4. r = [status |-> IF n >= Threshold THEN "unhealthy" ELSE "degraded",
               failures |-> n, attempts |-> g.attempts, age |-> 0]
      BY <2>2, <2>3 DEF Health
    <2>5. n \in 0..Threshold /\ g.attempts \in 0..MaxAttempts /\ 0 \in 0..Timeout + 1
      BY <1>1, <2>1, <2>3 DEF Health
    <2>6. r \in Health
      BY <2>4, <2>5 DEF Health, Statuses
    <2>7. r.failures = n /\ r.status = IF n >= Threshold THEN "unhealthy" ELSE "degraded"
      BY <2>4
    <2> HIDE DEF r
    <2>8. GoodHealth(r)
      BY <1>1, <2>1, <2>6, <2>7 DEF GoodHealth
    <2> QED
      BY <2>8 DEF r
  <1>3. GoodHealth(Older(h)) /\ GoodHealth(MarkHealthy(h))
    BY <1>1 DEF GoodHealth, Health, Statuses, Older, MarkHealthy, AtMost
  <1>4. h.attempts < MaxAttempts => GoodHealth(Counted(h))
    BY <1>1 DEF GoodHealth, Health, Counted
  <1> QED
    BY <1>2, <1>3, <1>4

-----------------------------------------------------------------------------
(***************************************************************************)
(* The inductive invariant.  The recoveries in the window are in order of   *)
(* age, so that what leaves from the left is what has expired; the timers   *)
(* are numbers; once shutdown has begun the watchdog is off and no recovery *)
(* is under way, which is why the cancelled loops stay away.                *)
(***************************************************************************)
WindowInOrder == \A i, j \in 1..Len(recent) : i <= j => recent[i] >= recent[j]

ShutdownDisarms == runtime # "up" => watch = "off" /\ todo = {}

SupervisorInv ==
    /\ TypeOK
    /\ timer \in [Services -> Nat]
    /\ WindowInOrder
    /\ StatusTellsFailures
    /\ ShutdownDisarms
    /\ DownStaysDown

LEMMA HealthKept ==
  ASSUME SupervisorInv, [Next]_vars
  PROVE  health' \in [Services -> Health] /\ StatusTellsFailures'
  <1>1. \A s \in Services : GoodHealth(health[s])
    BY DEF SupervisorInv, TypeOK, StatusTellsFailures, GoodHealth
  <1>2. /\ health' = [s \in Services |-> health'[s]]
        /\ \A s \in Services : HealthMoves(s)
    BY HealthStep DEF SupervisorInv
  <1>3. \A s \in Services : GoodHealth(health'[s])
    BY <1>1, <1>2, GoodHealthKept DEF HealthMoves
  <1> QED
    BY <1>2, <1>3 DEF GoodHealth, StatusTellsFailures

LEMMA LoopsKept ==
  ASSUME SupervisorInv, [Next]_vars
  PROVE  /\ loop' \in [Services -> LoopStates]
         /\ timer' \in [Services -> Nat]
         /\ \A s \in Services : timer'[s] \in 0..Period[s]
         /\ reaping' \subseteq Services
         /\ orphans' \in [Services -> SUBSET {"beat", "report", "check"}]
  <1>1. /\ loop \in [Services -> LoopStates]
        /\ timer \in [Services -> Nat]
        /\ \A s \in Services : timer[s] \in 0..Period[s]
        /\ reaping \subseteq Services
        /\ orphans \in [Services -> SUBSET {"beat", "report", "check"}]
        /\ Period \in [Services -> Nat \ {0}]
        /\ todo \subseteq Services
    BY SupervisorAssumption DEF SupervisorInv, TypeOK
  <1>2. CASE UNCHANGED loopVars
    BY <1>1, <1>2 DEF loopVars
  <1>3. ASSUME NEW s \in Services, NEW state \in LoopStates, Become(s, state)
        PROVE  /\ loop' \in [Services -> LoopStates]
               /\ timer' \in [Services -> Nat]
               /\ \A r \in Services : timer'[r] \in 0..Period[r]
               /\ UNCHANGED <<reaping, orphans>>
    BY <1>1, <1>3 DEF Become
  <1>4. CASE \E s \in Services : Wake(s) \/ WakeWithoutManager(s) \/ Crash(s)
    BY <1>1, <1>3, <1>4 DEF Wake, WakeWithoutManager, Crash, LoopStates, Waiting
  <1>5. CASE \E s \in Services : Reap(s)
    BY <1>1, <1>5 DEF Reap
  <1>6. CASE \E s \in Services : Beat(s) \/ Report(s) \/ \E ok \in BOOLEAN : Check(s, ok)
    BY <1>1, <1>3, <1>6 DEF Beat, Report, Check, LoopStates, Waiting
  <1>7. CASE \E s \in Services : ReportCrash(s)
    BY <1>1, <1>7 DEF ReportCrash, LoopStates
  <1>8. CASE \E s \in Services, op \in {"beat", "check", "report"} : EndOrphan(s, op)
    BY <1>1, <1>8 DEF EndOrphan, FinishOrphan, DropOrphan
  <1>9. ASSUME NEW S \in SUBSET Services, Cancel(S)
        PROVE  /\ reaping' \subseteq Services
               /\ orphans' \in [Services -> SUBSET {"beat", "report", "check"}]
    <2>1. \A s \in Services : Abandoned(s) \subseteq {"beat", "report", "check"}
      BY <1>1 DEF Abandoned, LoopStates, Waiting
    <2> QED
      BY <1>1, <1>9, <2>1 DEF Cancel
  <1>10. CASE \E s \in Services : Recover(s)
    <2>1. PICK s \in Services : Recover(s)
      BY <1>10
    <2>2. CASE GiveUp(s) \/ Throttle(s)
      BY <1>2, <2>2 DEF GiveUp, Throttle
    <2>3. CASE Restart(s)
      <3>1. Cancel({s}) /\ \E state \in {"sleeping", "absent"} :
               /\ loop' = [loop EXCEPT ![s] = state]
               /\ timer' = [timer EXCEPT ![s] = IF state = "sleeping" THEN Period[s] ELSE 0]
        BY <2>3 DEF Restart
      <3>2. /\ reaping' \subseteq Services
            /\ orphans' \in [Services -> SUBSET {"beat", "report", "check"}]
        BY <1>9, <3>1
      <3>3. PICK state \in {"sleeping", "absent"} :
               /\ loop' = [loop EXCEPT ![s] = state]
               /\ timer' = [timer EXCEPT ![s] = IF state = "sleeping" THEN Period[s] ELSE 0]
        BY <3>1
      <3>4. loop' \in [Services -> LoopStates]
        BY <1>1, <3>3 DEF LoopStates
      <3>5. timer' \in [Services -> Nat] /\ \A r \in Services : timer'[r] \in 0..Period[r]
        BY <1>1, <3>3
      <3> QED
        BY <3>2, <3>4, <3>5
    <2> QED
      BY <2>1, <2>2, <2>3 DEF Recover
  <1>11. CASE CancelAllTasks
    BY <1>1, <1>9, <1>11 DEF CancelAllTasks, LoopStates
  <1>12. CASE Tick
    <2>1. \A s \in Services : ~(loop[s] = "sleeping" /\ timer[s] = 0)
      BY <1>12 DEF Tick, Awake
    <2>2. timer' = [s \in Services |-> IF loop[s] = "sleeping" THEN timer[s] - 1 ELSE timer[s]]
      BY <1>12 DEF Tick
    <2>3. \A s \in Services : timer'[s] \in 0..Period[s] /\ timer'[s] \in Nat
      <3>1. TAKE s \in Services
      <3>2. timer[s] \in Nat /\ Period[s] \in Nat /\ timer[s] <= Period[s]
        BY <1>1
      <3> QED
        BY <2>1, <2>2, <3>2
    <2>4. timer' \in [Services -> Nat]
      BY <2>2, <2>3
    <2> QED
      BY <1>1, <1>12, <2>3, <2>4 DEF Tick
  <1>13. CASE WatchQuiet \/ WatchStale \/ WatchScan \/ WatchDone \/ CreateManager \/ EventFlood \/ StopWatchdog
              \/ UNCHANGED vars
    BY <1>2, <1>13 DEF WatchQuiet, WatchStale, WatchScan, WatchDone, CreateManager, EventFlood, StopWatchdog, vars
  <1>14. \A s \in Services : ThreadStep(s) =>
            \/ Beat(s) \/ Report(s) \/ (\E ok \in BOOLEAN : Check(s, ok)) \/ ReportCrash(s)
            \/ \E op \in {"beat", "check", "report"} : EndOrphan(s, op)
    BY DEF ThreadStep, EndBeat, EndCheck, EndReport
  <1> QED
    BY <1>4, <1>5, <1>6, <1>7, <1>8, <1>10, <1>11, <1>12, <1>13, <1>14
       DEF Next, EventLoopStep, Shutdown

LEMMA WatchKept ==
  ASSUME SupervisorInv, [Next]_vars
  PROVE  /\ watch' \in {"sleeping", "stale", "dead", "off"}
         /\ watchTimer' \in 0..WatchInterval
         /\ snapshot' \in [Services -> Statuses]
         /\ handled' \subseteq Services /\ todo' \subseteq Services
         /\ runtime' \in {"up", "stopping", "down"}
         /\ ShutdownDisarms'
  <1>1. /\ watch \in {"sleeping", "stale", "dead", "off"}
        /\ watchTimer \in 0..WatchInterval /\ WatchInterval \in Nat \ {0}
        /\ snapshot \in [Services -> Statuses]
        /\ handled \subseteq Services /\ todo \subseteq Services
        /\ runtime \in {"up", "stopping", "down"}
        /\ ShutdownDisarms
        /\ Status \in [Services -> Statuses]
    BY SupervisorAssumption DEF SupervisorInv, TypeOK, Status, Health
  <1>2. CASE UNCHANGED <<watchVars, runtime>>
    BY <1>1, <1>2 DEF watchVars, ShutdownDisarms
  <1>3. CASE \E s \in Services : Wake(s) \/ WakeWithoutManager(s) \/ Crash(s) \/ Reap(s)
    BY <1>2, <1>3 DEF Wake, WakeWithoutManager, Crash, Reap
  <1>4. CASE \E s \in Services : ThreadStep(s)
    BY <1>2, <1>4
       DEF ThreadStep, EndBeat, EndCheck, EndReport, EndOrphan, Beat, Check, Report,
           ReportCrash, FinishOrphan, DropOrphan
  <1>5. CASE \E s \in Services : Recover(s)
    BY <1>1, <1>5 DEF Recover, ShutdownDisarms
  <1>6. CASE WatchQuiet \/ WatchScan
    <2>1. runtime = "up" /\ runtime' = runtime
      BY <1>1, <1>6 DEF WatchQuiet, WatchScan, WatchDue, ShutdownDisarms
    <2>2. \E dead \in SUBSET Services : FinishScan(dead)
      BY <1>6, ScanFindsGone
    <2>3. snapshot' \in {snapshot, Status} /\ handled' \in {handled, {}}
      BY <1>6 DEF WatchQuiet, WatchScan
    <2> QED
      BY <1>1, <2>1, <2>2, <2>3 DEF FinishScan, ShutdownDisarms
  <1>7. CASE WatchStale
    BY <1>1, <1>7 DEF WatchStale, WatchDue, StaleSets, ShutdownDisarms
  <1>8. CASE WatchDone \/ CreateManager \/ EventFlood \/ StopWatchdog \/ CancelAllTasks \/ UNCHANGED vars
    BY <1>1, <1>8
       DEF WatchDone, CreateManager, EventFlood, StopWatchdog, CancelAllTasks, vars, watchVars, ShutdownDisarms
  <1>9. CASE Tick
    BY <1>1, <1>9 DEF Tick, ShutdownDisarms
  <1> QED
    BY <1>3, <1>4, <1>5, <1>6, <1>7, <1>8, <1>9 DEF Next, EventLoopStep, Shutdown

LEMMA WindowKept ==
  ASSUME SupervisorInv, [Next]_vars
  PROVE  /\ recent' \in Seq(0..Window) /\ throttled' \in BOOLEAN
         /\ WindowInOrder'
  <1>1. /\ recent \in Seq(0..Window) /\ throttled \in BOOLEAN
        /\ WindowInOrder /\ Window \in Nat \ {0}
        /\ Len(recent) \in Nat
        /\ \A i \in 1..Len(recent) : recent[i] \in 0..Window
    BY SupervisorAssumption, LenProperties, ElementOfSeq DEF SupervisorInv, TypeOK
  <1>2. CASE recent' = recent /\ throttled' \in {throttled, TRUE}
    BY <1>1, <1>2 DEF WindowInOrder
  <1>3. CASE \E s \in Services : Wake(s) \/ WakeWithoutManager(s) \/ Crash(s) \/ Reap(s)
    BY <1>2, <1>3 DEF Wake, WakeWithoutManager, Crash, Reap, resourceVars
  <1>4. CASE \E s \in Services : ThreadStep(s)
    BY <1>2, <1>4
       DEF ThreadStep, EndBeat, EndCheck, EndReport, EndOrphan, Beat, Check, Report,
           ReportCrash, FinishOrphan, DropOrphan, resourceVars
  <1>5. CASE \E s \in Services : GiveUp(s) \/ Throttle(s)
    BY <1>2, <1>5 DEF GiveUp, Throttle, resourceVars
  <1>6. CASE \E s \in Services : Restart(s)
    <2>1. recent' = Append(recent, 0) /\ throttled' = throttled
      BY <1>6 DEF Restart
    <2>2. /\ recent' \in Seq(0..Window) /\ Len(recent') = Len(recent) + 1
          /\ \A i \in 1..Len(recent) : recent'[i] = recent[i]
          /\ recent'[Len(recent) + 1] = 0
      BY <1>1, <2>1, AppendProperties
    <2>3. WindowInOrder'
      <3>1. ASSUME NEW i \in 1..Len(recent) + 1, NEW j \in 1..Len(recent) + 1, i <= j
            PROVE  recent'[i] >= recent'[j]
        <4>1. CASE j = Len(recent) + 1
          <5>1. recent'[i] \in Nat
            BY <1>1, <2>2
          <5> QED
            BY <2>2, <4>1, <5>1
        <4>2. CASE j # Len(recent) + 1
          <5>1. i \in 1..Len(recent) /\ j \in 1..Len(recent)
            BY <1>1, <3>1, <4>2
          <5> QED
            BY <1>1, <2>2, <3>1, <5>1 DEF WindowInOrder
        <4> QED
          BY <4>1, <4>2
      <3> QED
        BY <2>2, <3>1 DEF WindowInOrder
    <2> QED
      BY <1>1, <2>1, <2>2, <2>3
  <1>7. CASE WatchQuiet \/ WatchStale \/ WatchScan \/ WatchDone \/ CreateManager \/ EventFlood \/ Shutdown
             \/ UNCHANGED vars
    BY <1>2, <1>7
       DEF WatchQuiet, WatchStale, WatchScan, WatchDone, CreateManager, EventFlood, Shutdown, StopWatchdog,
           CancelAllTasks, vars, resourceVars
  <1>8. CASE Tick
    <2>1. throttled' = throttled /\ AgeWindow
      BY <1>8 DEF Tick
    <2>2. PICK n \in 0..Len(recent) :
             /\ n < Len(recent) => recent[n + 1] < Window
             /\ recent' = [i \in 1..Len(recent) - n |-> recent[n + i] + 1]
      BY <2>1 DEF AgeWindow
    <2>3. \A i \in 1..Len(recent) - n : recent[n + i] + 1 \in 0..Window
      <3>1. TAKE i \in 1..Len(recent) - n
      <3>2. /\ n + 1 \in 1..Len(recent) /\ n + i \in 1..Len(recent) /\ n + 1 <= n + i
            /\ n < Len(recent)
        BY <1>1
      <3>3. recent[n + i] <= recent[n + 1]
        BY <1>1, <3>2 DEF WindowInOrder
      <3>4. recent[n + i] \in 0..Window /\ recent[n + 1] \in 0..Window /\ recent[n + 1] < Window
        BY <1>1, <2>2, <3>2
      <3> QED
        BY <1>1, <3>3, <3>4
    <2>4. recent' \in Seq(0..Window) /\ Len(recent') = Len(recent) - n
      BY <1>1, <2>2, <2>3
    <2>5. WindowInOrder'
      <3>1. ASSUME NEW i \in 1..Len(recent'), NEW j \in 1..Len(recent'), i <= j
            PROVE  recent'[i] >= recent'[j]
        <4>1. /\ n + i \in 1..Len(recent) /\ n + j \in 1..Len(recent) /\ n + i <= n + j
              /\ recent'[i] = recent[n + i] + 1 /\ recent'[j] = recent[n + j] + 1
          BY <1>1, <2>2, <2>4, <3>1
        <4>2. recent[n + i] >= recent[n + j]
          BY <1>1, <4>1 DEF WindowInOrder
        <4>3. recent[n + i] \in 0..Window /\ recent[n + j] \in 0..Window
          BY <1>1, <4>1
        <4>4. recent[n + i] \in Nat /\ recent[n + j] \in Nat
          BY <4>3
        <4>5. recent[n + i] + 1 >= recent[n + j] + 1
          BY <4>2, <4>4
        <4> QED
          BY <4>1, <4>5
      <3> QED
        BY <3>1 DEF WindowInOrder
    <2> QED
      BY <1>1, <2>1, <2>4, <2>5
  <1> QED
    BY <1>3, <1>4, <1>5, <1>6, <1>7, <1>8 DEF Next, EventLoopStep, Recover

LEMMA CountersKept ==
  ASSUME SupervisorInv, [Next]_vars
  PROVE  /\ crashes' \in 0..MaxCrashes /\ checkAge' \in [Services -> 0..MaxGap]
         /\ manager' \in BOOLEAN
  <1>1. /\ crashes \in 0..MaxCrashes /\ checkAge \in [Services -> 0..MaxGap]
        /\ MaxCrashes \in Nat /\ MaxGap \in Nat /\ manager \in BOOLEAN
    BY SupervisorAssumption DEF SupervisorInv, TypeOK
  <1>2. CASE UNCHANGED <<crashes, checkAge>> /\ manager' \in {manager, TRUE}
    BY <1>1, <1>2
  <1>3. CASE \E s \in Services : Wake(s) \/ WakeWithoutManager(s) \/ Reap(s) \/ Recover(s)
    BY <1>2, <1>3 DEF Wake, WakeWithoutManager, Reap, Recover
  <1>4. CASE \E s \in Services : Crash(s)
    BY <1>1, <1>4 DEF Crash
  <1>5. CASE \E s \in Services : ThreadStep(s)
    BY <1>1, <1>5
       DEF ThreadStep, EndBeat, EndCheck, EndReport, EndOrphan, Beat, Check, Report,
           ReportCrash, FinishOrphan, DropOrphan
  <1>6. CASE WatchQuiet \/ WatchStale \/ WatchScan \/ WatchDone \/ CreateManager \/ EventFlood \/ Shutdown
             \/ UNCHANGED vars
    BY <1>2, <1>6
       DEF WatchQuiet, WatchStale, WatchScan, WatchDone, CreateManager, EventFlood, Shutdown, StopWatchdog,
           CancelAllTasks, vars
  <1>7. CASE Tick
    BY <1>1, <1>7 DEF Tick, AtMost
  <1> QED
    BY <1>3, <1>4, <1>5, <1>6, <1>7 DEF Next, EventLoopStep

LEMMA DownKept ==
  ASSUME SupervisorInv, [Next]_vars
  PROVE  DownStaysDown'
  <1>1. /\ loop \in [Services -> LoopStates] /\ reaping \subseteq Services
        /\ runtime = "down" => todo = {} /\ watch = "off" /\ \A s \in Services : loop[s] = "absent"
    BY DEF SupervisorInv, TypeOK, ShutdownDisarms, DownStaysDown
  <1>2. CASE CancelAllTasks
    BY <1>2 DEF CancelAllTasks, DownStaysDown
  <1>3. CASE ~CancelAllTasks
    <2>1. SUFFICES ASSUME runtime' = "down"
                   PROVE  \A s \in Services : loop'[s] = "absent"
      BY DEF DownStaysDown
    <2>2. runtime = "down"
      BY <1>3, <2>1
         DEF Next, EventLoopStep, Wake, WakeWithoutManager, Crash, Reap, Recover, WatchQuiet,
             WatchStale, WatchScan, WatchDone, ThreadStep, EndBeat, EndCheck, EndReport,
             EndOrphan, Beat, Check, Report, ReportCrash, FinishOrphan, DropOrphan, CreateManager, EventFlood,
             Shutdown, StopWatchdog, Tick, vars
    <2>3. ASSUME NEW s \in Services
          PROVE  /\ ~Wake(s) /\ ~WakeWithoutManager(s) /\ ~Crash(s) /\ ~Recover(s)
                 /\ ~Beat(s) /\ ~Report(s) /\ ~ReportCrash(s) /\ \A ok \in BOOLEAN : ~Check(s, ok)
      BY <1>1, <2>2
         DEF Wake, WakeWithoutManager, Crash, Awake, Recover, Beat, Report, ReportCrash, Check
    <2>4. loop' = loop
      BY <1>3, <2>3
         DEF Next, EventLoopStep, Reap, WatchQuiet, WatchStale, WatchScan, WatchDone, ThreadStep,
             EndBeat, EndCheck, EndReport, EndOrphan, FinishOrphan, DropOrphan, CreateManager, EventFlood,
             Shutdown, StopWatchdog, Tick, vars, loopVars
    <2> QED
      BY <1>1, <2>2, <2>4
  <1> QED
    BY <1>2, <1>3

LEMMA SupervisorInit == Init => SupervisorInv
  <1> SUFFICES ASSUME Init PROVE SupervisorInv
    OBVIOUS
  <1> USE SupervisorAssumption
  <1>1. /\ health \in [Services -> Health] /\ StatusTellsFailures
    BY DEF Init, Health, Statuses, StatusTellsFailures
  <1>2. /\ loop \in [Services -> LoopStates] /\ timer \in [Services -> Nat]
        /\ \A s \in Services : timer[s] \in 0..Period[s]
        /\ reaping \subseteq Services
        /\ orphans \in [Services -> SUBSET {"beat", "report", "check"}]
    BY DEF Init, LoopStates
  <1>3. /\ recent = <<>> /\ recent \in Seq(0..Window) /\ Len(recent) = 0
    BY EmptySeq DEF Init
  <1>4. WindowInOrder
    BY <1>3 DEF WindowInOrder
  <1>5. TypeOK
    <2>1. /\ reaping = {} /\ watch = "sleeping" /\ watchTimer = WatchInterval
          /\ snapshot = [s \in Services |-> "healthy"] /\ handled = {} /\ todo = {}
          /\ throttled = FALSE /\ runtime = "up" /\ crashes = 0
          /\ checkAge = [s \in Services |-> 0] /\ manager = FALSE
      BY DEF Init
    <2>2. /\ watchTimer \in 0..WatchInterval /\ crashes \in 0..MaxCrashes
          /\ snapshot \in [Services -> Statuses] /\ checkAge \in [Services -> 0..MaxGap]
      BY <2>1 DEF Statuses
    <2> QED
      BY <1>1, <1>2, <1>3, <2>1, <2>2 DEF TypeOK
  <1>6. ShutdownDisarms /\ DownStaysDown
    BY DEF Init, ShutdownDisarms, DownStaysDown
  <1> QED
    BY <1>1, <1>2, <1>4, <1>5, <1>6 DEF SupervisorInv

LEMMA SupervisorNext == SupervisorInv /\ [Next]_vars => SupervisorInv'
  <1> SUFFICES ASSUME SupervisorInv, [Next]_vars PROVE SupervisorInv'
    OBVIOUS
  <1>1. TypeOK'
    BY HealthKept, LoopsKept, WatchKept, WindowKept, CountersKept DEF TypeOK
  <1> QED
    BY <1>1, HealthKept, LoopsKept, WatchKept, WindowKept, DownKept DEF SupervisorInv

-----------------------------------------------------------------------------
(***************************************************************************)
(* The supervisor's state always has its types: in particular no service is *)
(* ever restarted more than MaxAttempts times in a row.                     *)
(***************************************************************************)
THEOREM TypeCorrect == Spec => []TypeOK
  <1>1. SupervisorInv => TypeOK
    BY DEF SupervisorInv
  <1> QED
    BY <1>1, SupervisorInit, SupervisorNext, PTL DEF Spec

(***************************************************************************)
(* The status of a service always tells its failure count, whoever reported *)
(* last: the loop, an orphaned thread, the watchdog or a failed restart.    *)
(***************************************************************************)
THEOREM StatusIsTrue == Spec => []StatusTellsFailures
  <1>1. SupervisorInv => StatusTellsFailures
    BY DEF SupervisorInv
  <1> QED
    BY <1>1, SupervisorInit, SupervisorNext, PTL DEF Spec

(***************************************************************************)
(* After the shutdown has cancelled the tasks no loop comes back, whatever  *)
(* recovery was under way when it began.                                    *)
(***************************************************************************)
THEOREM NoneComesBack == Spec => []DownStaysDown
  <1>1. SupervisorInv => DownStaysDown
    BY DEF SupervisorInv
  <1> QED
    BY <1>1, SupervisorInit, SupervisorNext, PTL DEF Spec

(***************************************************************************)
(* A recovery that is due has a failure of its own to spend, unless the     *)
(* service was heard of in the meantime and has spent nothing.              *)
(***************************************************************************)
AttemptsCovered ==
    \A s \in Services :
        /\ health[s].attempts <= health[s].failures + 1
        /\ s \in todo => health[s].attempts <= health[s].failures

LEMMA CoveredKept ==
  ASSUME MaxAttempts <= Threshold, SupervisorInv, SupervisorInv', AttemptsCovered, [Next]_vars
  PROVE  AttemptsCovered'
  <1>1. /\ Threshold \in Nat \ {0} /\ MaxAttempts \in Nat
    BY SupervisorAssumption
  <1>2. SUFFICES ASSUME NEW s \in Services
                 PROVE  /\ health'[s].attempts <= health'[s].failures + 1
                        /\ s \in todo' => health'[s].attempts <= health'[s].failures
    BY DEF AttemptsCovered
  <1> DEFINE h == health[s]
             g == health'[s]
  <1>3. /\ h \in Health /\ HealthMoves(s)
        /\ h.attempts \in 0..MaxAttempts /\ h.failures \in 0..Threshold
    BY HealthStep DEF SupervisorInv, TypeOK, Health
  <1>4. CASE g \in {h, Older(h)} /\ (s \in todo' => s \in todo)
    <2>1. g.attempts = h.attempts /\ g.failures = h.failures
      BY <1>3, <1>4 DEF Older, Health
    <2> QED
      BY <1>4, <2>1 DEF AttemptsCovered
  <1>5. CASE g = MarkHealthy(h)
    BY <1>5 DEF MarkHealthy
  <1>6. CASE g = MarkFailed(h)
    <2>1. g.attempts = h.attempts /\ g.failures = AtMost(h.failures + 1, Threshold)
      BY <1>3, <1>6 DEF MarkFailed, Health
    <2>2. h.attempts <= h.failures + 1
      BY DEF AttemptsCovered
    <2> QED
      BY <1>1, <1>3, <2>1, <2>2 DEF AtMost
  <1>7. CASE /\ s \in todo /\ s \notin todo'
             /\ h.attempts < MaxAttempts
             /\ g \in {Counted(h), MarkFailed(Counted(h))}
    <2>1. g.attempts = h.attempts + 1 /\ g.failures \in {h.failures, AtMost(h.failures + 1, Threshold)}
      BY <1>3, <1>7 DEF Counted, MarkFailed, Health
    <2>2. h.attempts <= h.failures
      BY <1>7 DEF AttemptsCovered
    <2> QED
      BY <1>1, <1>3, <1>7, <2>1, <2>2 DEF AtMost
  <1> QED
    BY <1>3, <1>4, <1>5, <1>6, <1>7 DEF HealthMoves

(***************************************************************************)
(* Restarts are spent on failures: when the restart limit does not exceed   *)
(* the failure threshold (both are three as deployed), a service has had at *)
(* most one restart more than failures since it was last heard of.          *)
(***************************************************************************)
THEOREM RestartsAreEarned ==
  ASSUME MaxAttempts <= Threshold
  PROVE  Spec => []RestartsFollowFailures
  <1>1. Init => AttemptsCovered
    BY DEF Init, AttemptsCovered
  <1>2. SupervisorInv /\ SupervisorInv' /\ AttemptsCovered /\ [Next]_vars => AttemptsCovered'
    BY CoveredKept
  <1>3. AttemptsCovered => RestartsFollowFailures
    BY DEF AttemptsCovered, RestartsFollowFailures
  <1> QED
    BY <1>1, <1>2, <1>3, SupervisorInit, SupervisorNext, PTL DEF Spec

(***************************************************************************)
(* A throttled runtime registers no task, so a loop that is down then stays *)
(* down: the recovery that finds the window full makes the outage final.    *)
(***************************************************************************)
THEOREM OutageIsForGood == Spec => ThrottledOutageIsForGood
  <1> DEFINE Final(s) == (throttled /\ loop[s] = "absent") => (throttled /\ loop[s] = "absent")'
  <1>1. ASSUME SupervisorInv, [Next]_vars
        PROVE  \A s \in Services : Final(s)
    <2>1. loop \in [Services -> LoopStates]
      BY <1>1 DEF SupervisorInv, TypeOK
    <2>2. throttled => throttled'
      BY <1>1
         DEF Next, EventLoopStep, Wake, WakeWithoutManager, Crash, Reap, Recover, GiveUp,
             Throttle, Restart, WatchQuiet, WatchStale, WatchScan, WatchDone, ThreadStep,
             EndBeat, EndCheck, EndReport, EndOrphan, Beat, Check, Report, ReportCrash,
             FinishOrphan, DropOrphan, CreateManager, EventFlood, Shutdown, StopWatchdog, CancelAllTasks,
             Tick, vars, resourceVars
    <2>3. ASSUME NEW s \in Services, throttled, loop[s] = "absent"
          PROVE  loop'[s] = "absent"
      <3>1. ASSUME NEW r \in Services, NEW state, r # s, Become(r, state)
            PROVE  loop'[s] = "absent"
        BY <2>1, <2>3, <3>1 DEF Become
      <3>2. CASE \E r \in Services : Wake(r) \/ WakeWithoutManager(r) \/ Crash(r)
        BY <2>3, <3>1, <3>2 DEF Wake, WakeWithoutManager, Crash, Awake
      <3>3. CASE \E r \in Services : Beat(r) \/ Report(r) \/ \E ok \in BOOLEAN : Check(r, ok)
        BY <2>3, <3>1, <3>3 DEF Beat, Report, Check
      <3>4. CASE \E r \in Services : ReportCrash(r)
        BY <2>1, <2>3, <3>4 DEF ReportCrash
      <3>5. CASE \E r \in Services : Recover(r)
        BY <2>1, <2>3, <3>5 DEF Recover, GiveUp, Throttle, Restart, MayRegister, loopVars
      <3>6. CASE CancelAllTasks
        BY <3>6 DEF CancelAllTasks
      <3>7. CASE loop' = loop
        BY <2>3, <3>7
      <3> QED
        BY <1>1, <3>2, <3>3, <3>4, <3>5, <3>6, <3>7
           DEF Next, EventLoopStep, Reap, WatchQuiet, WatchStale, WatchScan, WatchDone,
               ThreadStep, EndBeat, EndCheck, EndReport, EndOrphan, FinishOrphan, DropOrphan,
               CreateManager, EventFlood, Shutdown, StopWatchdog, Tick, vars, loopVars
    <2> QED
      BY <2>2, <2>3
  <1>2. SupervisorInv /\ [Next]_vars
            => [\A s \in Services : (throttled /\ loop[s] = "absent")
                                       => (throttled /\ loop[s] = "absent")']_vars
    BY <1>1
  <1> QED
    BY <1>2, SupervisorInit, SupervisorNext, PTL DEF Spec, ThrottledOutageIsForGood

-----------------------------------------------------------------------------
(***************************************************************************)
(* A loop that beats more often than the timeout is never taken for stale,  *)
(* as long as nothing has crashed: its age and what is left of its sleep    *)
(* add up to no more than its period, and the age it has when it awakes     *)
(* does not grow before it is heard of, because prompt threads end within   *)
(* the tick.  So the watchdog has no verdict on it and no recovery is due;  *)
(* its neighbours may be slow, refused, throttled or floods of events.      *)
(***************************************************************************)
BeatsInTime(s) ==
    /\ loop[s] \notin {"absent", "crashing"}
    /\ health[s].age <= Period[s]
    /\ loop[s] = "sleeping" => health[s].age + timer[s] <= Period[s]
    /\ loop[s] = "checking" => health[s].age = 0

LeftAlone(s) ==
    /\ health[s].attempts = 0
    /\ s \notin todo
    /\ (runtime = "up" /\ s \notin Mute) => BeatsInTime(s)

QuickLeftAlone == crashes = 0 => \A s \in Services : Period[s] < Timeout => LeftAlone(s)

(***************************************************************************)
(* Every report refreshes the heartbeat; failures do not touch the restart  *)
(* attempts; growing older adds at most a tick.                             *)
(***************************************************************************)
LEMMA Reports ==
  ASSUME NEW h \in Health
  PROVE  /\ h.age \in Nat /\ h.attempts \in Nat /\ h.failures \in Nat
         /\ MarkHealthy(h).age = 0 /\ MarkHealthy(h).attempts = 0 /\ MarkHealthy(h).failures = 0
         /\ MarkFailed(h).age = 0 /\ MarkFailed(h).attempts = h.attempts
         /\ MarkFailed(h).failures = AtMost(h.failures + 1, Threshold)
         /\ Older(h).age = AtMost(h.age + 1, Timeout + 1)
         /\ Older(h).attempts = h.attempts /\ Older(h).failures = h.failures
         /\ Older(h).status = h.status
  <1>1. h.age \in 0..Timeout + 1 /\ h.attempts \in 0..MaxAttempts /\ h.failures \in 0..Threshold
    BY DEF Health
  <1>2. /\ MarkHealthy(h).age = 0 /\ MarkHealthy(h).attempts = 0 /\ MarkHealthy(h).failures = 0
    BY DEF MarkHealthy
  <1>3. /\ MarkFailed(h).age = 0 /\ MarkFailed(h).attempts = h.attempts
        /\ MarkFailed(h).failures = AtMost(h.failures + 1, Threshold)
    BY DEF MarkFailed, Health
  <1>4. /\ Older(h).age = AtMost(h.age + 1, Timeout + 1)
        /\ Older(h).attempts = h.attempts /\ Older(h).failures = h.failures
        /\ Older(h).status = h.status
    BY DEF Older, Health
  <1> QED
    BY <1>1, <1>2, <1>3, <1>4, SupervisorAssumption

LEMMA QuickInit == Init => QuickLeftAlone
  <1> SUFFICES ASSUME Init, NEW s \in Services PROVE LeftAlone(s)
    BY DEF QuickLeftAlone
  <1> QED
    BY SupervisorAssumption DEF Init, LeftAlone, BeatsInTime

LEMMA QuickNext ==
  ASSUME PromptThreads, SupervisorInv, QuickLeftAlone, [Next]_vars
  PROVE  QuickLeftAlone'
  <1> SUFFICES ASSUME crashes' = 0, NEW s \in Services, Period[s] < Timeout
               PROVE  LeftAlone(s)'
    BY DEF QuickLeftAlone
  <1>1. crashes = 0 /\ (\A r \in Services : ~Crash(r))
    <2>1. crashes \in Nat
      BY SupervisorAssumption DEF SupervisorInv, TypeOK
    <2>2. crashes' # crashes + 1
      BY <2>1
    <2>3. \A r \in Services : ~Crash(r)
      BY <2>2 DEF Crash
    <2> QED
      BY <2>1, <2>3
         DEF Next, EventLoopStep, Wake, WakeWithoutManager, Reap, Recover, WatchQuiet,
             WatchStale, WatchScan, WatchDone, ThreadStep, EndBeat, EndCheck, EndReport,
             EndOrphan, Beat, Check, Report, ReportCrash, FinishOrphan, DropOrphan, CreateManager, EventFlood,
             Shutdown, StopWatchdog, CancelAllTasks, Tick, vars
  <1>2. /\ health \in [Services -> Health] /\ health[s] \in Health
        /\ loop \in [Services -> LoopStates] /\ timer \in [Services -> Nat]
        /\ timer[s] \in 0..Period[s] /\ todo \subseteq Services
        /\ Period[s] \in Nat \ {0} /\ Timeout \in Nat \ {0}
        /\ runtime \in {"up", "stopping", "down"}
    BY SupervisorAssumption DEF SupervisorInv, TypeOK
  <1>3. LeftAlone(s)
    BY <1>1 DEF QuickLeftAlone
  <1> DEFINE SameLoop == loop'[s] = loop[s] /\ timer'[s] = timer[s]
             Calm == s \notin todo' /\ (runtime' = "up" => runtime = "up")
  <1>4. ASSUME Calm, SameLoop,
               health'[s] \in {health[s], MarkHealthy(health[s]), MarkFailed(health[s])}
        PROVE  LeftAlone(s)'
    <2>1. /\ health'[s].attempts = 0
          /\ health'[s].age = 0 \/ health'[s].age = health[s].age
      BY <1>2, <1>3, <1>4, Reports DEF LeftAlone
    <2>2. (runtime = "up" /\ s \notin Mute) => BeatsInTime(s)'
      <3>1. CASE health'[s].age = 0
        BY <1>2, <1>3, <1>4, <3>1 DEF LeftAlone, BeatsInTime
      <3>2. CASE health'[s].age = health[s].age
        BY <1>3, <1>4, <3>2 DEF LeftAlone, BeatsInTime
      <3> QED
        BY <2>1, <3>1, <3>2
    <2> QED
      BY <1>4, <2>1, <2>2 DEF LeftAlone
  <1>5. CASE \E r \in Services : Wake(r) \/ WakeWithoutManager(r)
    <2>1. PICK r \in Services : \E state \in {"beating", "reporting"} :
             Awake(r) /\ Become(r, state)
      BY <1>5 DEF Wake, WakeWithoutManager
    <2>2. health' = health /\ Calm
      BY <1>3, <1>5 DEF LeftAlone, Wake, WakeWithoutManager, watchVars
    <2>3. CASE r = s
      BY <1>2, <1>3, <2>1, <2>2, <2>3 DEF LeftAlone, BeatsInTime, Become, Awake
    <2>4. CASE r # s
      BY <1>2, <1>4, <2>1, <2>2, <2>4 DEF Become
    <2> QED
      BY <2>3, <2>4
  <1>6. ASSUME NEW r \in Services, Beat(r)
        PROVE  LeftAlone(s)'
    <2>1. health' = [health EXCEPT ![r] = MarkHealthy(@)] /\ Become(r, "checking") /\ Calm
      BY <1>3, <1>6 DEF LeftAlone, Beat, watchVars
    <2>2. CASE r = s
      BY <1>2, <2>1, <2>2 DEF LeftAlone, BeatsInTime, Become, MarkHealthy
    <2>3. CASE r # s
      BY <1>2, <1>4, <2>1, <2>3 DEF Become
    <2> QED
      BY <2>2, <2>3
  <1>7. ASSUME NEW r \in Services, NEW ok \in BOOLEAN, Check(r, ok)
        PROVE  LeftAlone(s)'
    <2>1. /\ health' = health /\ Calm /\ loop[r] = "checking"
          /\ \E state \in {"sleeping", "failing"} : Become(r, state)
      BY <1>3, <1>7 DEF LeftAlone, Check, watchVars
    <2>2. CASE r = s
      BY <1>2, <1>3, <2>1, <2>2 DEF LeftAlone, BeatsInTime, Become
    <2>3. CASE r # s
      BY <1>2, <1>4, <2>1, <2>3 DEF Become
    <2> QED
      BY <2>2, <2>3
  <1>8. ASSUME NEW r \in Services, Report(r)
        PROVE  LeftAlone(s)'
    <2>1. health' = [health EXCEPT ![r] = MarkFailed(@)] /\ Become(r, "sleeping") /\ Calm
      BY <1>3, <1>8 DEF LeftAlone, Report, watchVars
    <2>2. CASE r = s
      BY <1>2, <1>3, <2>1, <2>2 DEF LeftAlone, BeatsInTime, Become, MarkFailed, Health
    <2>3. CASE r # s
      BY <1>2, <1>4, <2>1, <2>3 DEF Become
    <2> QED
      BY <2>2, <2>3
  <1>9. ASSUME NEW r \in Services, ReportCrash(r)
        PROVE  LeftAlone(s)'
    <2>1. /\ health' = [health EXCEPT ![r] = MarkFailed(@)] /\ Calm /\ runtime' = runtime
          /\ loop' = [loop EXCEPT ![r] = "absent"] /\ timer' = timer /\ loop[r] = "crashing"
      BY <1>3, <1>9 DEF LeftAlone, ReportCrash, watchVars
    <2>2. CASE r = s
      BY <1>2, <1>3, <2>1, <2>2 DEF LeftAlone, BeatsInTime, MarkFailed, Health
    <2>3. CASE r # s
      BY <1>2, <1>4, <2>1, <2>3
    <2> QED
      BY <2>2, <2>3
  <1>10. ASSUME NEW r \in Services, NEW op \in {"beat", "check", "report"}, EndOrphan(r, op)
         PROVE  LeftAlone(s)'
    <2>1. Calm /\ SameLoop
      BY <1>3, <1>10 DEF LeftAlone, EndOrphan, FinishOrphan, DropOrphan, watchVars
    <2>2. health' \in {health, [health EXCEPT ![r] = MarkHealthy(@)],
                       [health EXCEPT ![r] = MarkFailed(@)], [health EXCEPT ![r] = @]}
      BY <1>10 DEF EndOrphan, FinishOrphan, DropOrphan
    <2>3. health'[s] \in {health[s], MarkHealthy(health[s]), MarkFailed(health[s])}
      BY <1>2, <2>2
    <2> QED
      BY <1>4, <2>1, <2>3
  <1>11. CASE \E r \in Services : Recover(r)
    <2>1. PICK r \in Services : Recover(r)
      BY <1>11
    <2>2. r # s /\ Calm
      BY <1>3, <2>1 DEF LeftAlone, Recover
    <2>3. CASE GiveUp(r) \/ Throttle(r)
      BY <1>4, <2>2, <2>3 DEF GiveUp, Throttle, loopVars
    <2>4. CASE Restart(r)
      <3>1. /\ \E g : health' = [health EXCEPT ![r] = g]
            /\ \E state : loop' = [loop EXCEPT ![r] = state]
            /\ \E t : timer' = [timer EXCEPT ![r] = t]
        BY <2>4 DEF Restart
      <3>2. health'[s] = health[s] /\ SameLoop
        BY <1>2, <2>2, <3>1
      <3> QED
        BY <1>4, <2>2, <3>2
    <2> QED
      BY <2>1, <2>3, <2>4 DEF Recover
  <1>12. CASE WatchQuiet \/ WatchStale \/ WatchScan
    <2>1. runtime = "up" /\ SameLoop /\ runtime' = runtime
      BY <1>2, <1>12
         DEF SupervisorInv, ShutdownDisarms, WatchQuiet, WatchStale, WatchScan, WatchDue, loopVars
    <2>2. health'[s] \in {health[s], MarkFailed(health[s])}
      BY <1>2, <1>12 DEF WatchQuiet, WatchStale, WatchScan, FinishScan, MarkServicesFailed
    <2>3. CASE WatchQuiet \/ WatchScan
      <3>1. s \notin todo'
        BY <1>3, <2>1, <2>3, ScanFindsGone DEF LeftAlone, BeatsInTime, FinishScan
      <3> QED
        BY <1>4, <2>1, <2>2, <3>1
    <2>4. CASE WatchStale
      <3>1. PICK S \in StaleSets : todo' = S \ Mute
        BY <2>4 DEF WatchStale
      <3>2. s \notin S \ Mute
        BY <1>2, <1>3, <2>1, <3>1 DEF LeftAlone, BeatsInTime, StaleSets, MaybeStale, Health
      <3> QED
        BY <1>4, <2>1, <2>2, <3>1, <3>2
    <2> QED
      BY <1>12, <2>3, <2>4
  <1>13. CASE WatchDone \/ CreateManager \/ EventFlood \/ StopWatchdog \/ UNCHANGED vars \/ \E r \in Services : Reap(r)
    <2>1. health' = health /\ SameLoop /\ Calm
      BY <1>3, <1>13
         DEF LeftAlone, WatchDone, CreateManager, EventFlood, StopWatchdog, Reap, vars, loopVars, watchVars
    <2> QED
      BY <1>4, <2>1
  <1>14. CASE CancelAllTasks
    BY <1>3, <1>14 DEF LeftAlone, CancelAllTasks, watchVars
  <1>15. CASE Tick
    <2>1. /\ health'[s] = Older(health[s]) /\ loop' = loop /\ todo' = todo /\ runtime' = runtime
          /\ timer'[s] = IF loop[s] = "sleeping" THEN timer[s] - 1 ELSE timer[s]
          /\ loop[s] = "sleeping" => timer[s] # 0
          /\ loop[s] \notin Waiting
      BY <1>15 DEF Tick, Older, Awake, ThreadsIdle
    <2>2. /\ health'[s].attempts = health[s].attempts
          /\ health'[s].age <= health[s].age + 1
          /\ health'[s].age \in Nat /\ health[s].age \in Nat
      BY <1>2, <2>1 DEF Older, AtMost, Health
    <2>3. (runtime = "up" /\ s \notin Mute) => loop[s] = "sleeping"
      BY <1>2, <1>3, <2>1 DEF LeftAlone, BeatsInTime, LoopStates
    <2> QED
      BY <1>2, <1>3, <2>1, <2>2, <2>3 DEF LeftAlone, BeatsInTime
  <1>16. \A r \in Services : ThreadStep(r) =>
            \/ Beat(r) \/ Report(r) \/ (\E ok \in BOOLEAN : Check(r, ok)) \/ ReportCrash(r)
            \/ \E op \in {"beat", "check", "report"} : EndOrphan(r, op)
    BY DEF ThreadStep, EndBeat, EndCheck, EndReport
  <1> QED
    BY <1>1, <1>5, <1>6, <1>7, <1>8, <1>9, <1>10, <1>11, <1>12, <1>13, <1>14, <1>15, <1>16
       DEF Next, EventLoopStep, Shutdown

(***************************************************************************)
(* The watchdog leaves a loop alone whose heartbeat period is below the     *)
(* timeout: where threads are prompt and nothing crashes it is never        *)
(* restarted, however slow, refused or throttled the other services are.    *)
(***************************************************************************)
THEOREM QuickLoopsUndisturbed ==
  ASSUME PromptThreads, MaxCrashes = 0
  PROVE  Spec => []LiveLoopsUndisturbed
  <1>1. SupervisorInv /\ QuickLeftAlone => LiveLoopsUndisturbed
    BY DEF SupervisorInv, TypeOK, QuickLeftAlone, LeftAlone, LiveLoopsUndisturbed
  <1> QED
    BY <1>1, QuickInit, QuickNext, SupervisorInit, SupervisorNext, PTL DEF Spec

-----------------------------------------------------------------------------
(***************************************************************************)
(* The gap between two checks of a loop, in the runtime as it is deployed:  *)
(* prompt threads, no crash and no flood of events, a manager created at    *)
(* some time or never; all loops but one beat within the timeout, and that  *)
(* one sleeps longer than the watchdog takes to notice; the limits leave    *)
(* room for its restarts.                                                   *)
(***************************************************************************)
Span == Timeout + WatchInterval

\* The ticks that so many failures may have cost: a restart each.
Allowed(failures) == failures * Span

Deployed(h) ==
    /\ PromptThreads /\ ~EventFloods /\ MaxCrashes = 0
    /\ h \in Services
    /\ \A s \in Services \ Mute : Period[s] < Timeout \/ (s = h /\ Span < Period[s])
    /\ Threshold <= MaxAttempts
    /\ Window < MaxRecoveries * Timeout
    /\ Cardinality(Services \ Mute) + OtherTasks < MaxTasks
    /\ \A s \in Services \ Mute : Allowed(Threshold) + Period[s] < MaxGap

Slept(s) == Period[s] - timer[s]

(***************************************************************************)
(* What a loop has not checked for is what it has slept, plus what earlier  *)
(* failures cost it.                                                        *)
(***************************************************************************)
ChecksInTime(s) ==
    /\ loop[s] \in {"sleeping", "beating", "reporting", "checking", "failing"}
    /\ loop[s] = "sleeping" => checkAge[s] <= Allowed(health[s].failures) + Slept(s)
    /\ loop[s] = "beating" => checkAge[s] <= Allowed(health[s].failures) + Period[s]
    /\ loop[s] = "checking" => checkAge[s] <= Allowed(Threshold) + Period[s]
    /\ loop[s] \in {"reporting", "failing"} => checkAge[s] = 0

(***************************************************************************)
(* The slow loop never wakes up unnoticed: the watchdog looks again before  *)
(* it has slept for longer than the timeout and one interval.               *)
(***************************************************************************)
CaughtInTime(s) ==
    /\ loop[s] \notin {"beating", "reporting"}
    /\ loop[s] \in {"checking", "failing"} => health[s].age = 0
    /\ loop[s] = "sleeping" =>
          /\ AtMost(Slept(s), Timeout + 1) <= health[s].age
          /\ watch = "sleeping" => Slept(s) + watchTimer <= Span
          /\ watch = "stale" => Slept(s) <= Timeout

RecoverySoon(s) ==
    /\ s \notin Mute /\ watch = "stale" /\ reaping = {}
    /\ loop[s] = "sleeping" /\ timer[s] > 0
    /\ health[s].age = 0
    /\ health[s].attempts < health[s].failures
    /\ checkAge[s] <= Allowed(health[s].failures)

NotDue(s) ==
    /\ health[s].attempts <= health[s].failures
    /\ (s \notin Mute /\ Span < Period[s] /\ health[s].status # "unhealthy") => CaughtInTime(s)

(***************************************************************************)
(* The restarts in the window are at least a timeout apart, so that it has  *)
(* room for the next one.                                                   *)
(***************************************************************************)
Spaced(s) ==
    \A i \in 1..Len(recent) :
        recent[i] >= (Len(recent) - i) * Timeout
                        + (IF s \in todo THEN Timeout ELSE health[s].age)

OnTrack(h) ==
    /\ ~throttled
    /\ ~manager => \A s \in Services : checkAge[s] = 0
    /\ watch \in {"sleeping", "stale"}
    /\ orphans = [s \in Services |-> {}]
    /\ todo \subseteq {h} /\ reaping \subseteq {h}
    /\ reaping # {} => health[h].age = 0
    /\ \A s \in Mute : loop[s] = "absent"
    /\ \A s \in Services \ Mute : ChecksInTime(s)
    /\ h \in todo => RecoverySoon(h)
    /\ h \notin todo => NotDue(h)
    /\ Spaced(h)

ChecksGoOn(h) == runtime = "up" => OnTrack(h)

LEMMA SpanFigures ==
  /\ Span \in Nat \ {0} /\ Timeout < Span /\ WatchInterval < Span
  /\ Span = Timeout + WatchInterval
  /\ Timeout \in Nat \ {0} /\ WatchInterval \in Nat \ {0} /\ Threshold \in Nat \ {0}
  BY SupervisorAssumption DEF Span

LEMMA AllowedMore ==
  /\ \A f \in Nat : Allowed(f) \in Nat /\ Allowed(f + 1) = Allowed(f) + Span
  /\ \A f, g \in Nat : f <= g => Allowed(f) <= Allowed(g)
  <1>1. \A f \in Nat : Allowed(f) \in Nat /\ Allowed(f + 1) = Allowed(f) + Span
    BY SpanFigures DEF Allowed
  <1>2. ASSUME NEW f \in Nat, NEW g \in Nat, f <= g
        PROVE  Allowed(f) <= Allowed(g)
    <2>1. PICK d \in Nat : g = f + d
      BY <1>2
    <2>2. g * Span = f * Span + d * Span /\ d * Span \in Nat /\ f * Span \in Nat
      BY SpanFigures, <2>1
    <2> QED
      BY <2>2 DEF Allowed
  <1> QED
    BY <1>1, <1>2

LEMMA Figures ==
  ASSUME SupervisorInv, NEW s \in Services
  PROVE  /\ health \in [Services -> Health] /\ health[s] \in Health
         /\ health[s].age \in Nat /\ health[s].attempts \in Nat
         /\ health[s].failures \in Nat /\ health[s].failures <= Threshold
         /\ health[s].status = "unhealthy" <=> health[s].failures >= Threshold
         /\ loop \in [Services -> LoopStates] /\ timer \in [Services -> Nat]
         /\ timer[s] \in Nat /\ timer[s] <= Period[s] /\ Period[s] \in Nat \ {0}
         /\ Slept(s) \in Nat /\ Slept(s) <= Period[s]
         /\ checkAge \in [Services -> 0..MaxGap] /\ checkAge[s] \in Nat
         /\ watchTimer \in Nat /\ watchTimer <= WatchInterval
         /\ MaxGap \in Nat
  <1>1. /\ health \in [Services -> Health] /\ health[s] \in Health
        /\ loop \in [Services -> LoopStates] /\ timer \in [Services -> Nat]
        /\ timer[s] \in 0..Period[s] /\ Period[s] \in Nat \ {0}
        /\ checkAge \in [Services -> 0..MaxGap] /\ MaxGap \in Nat
        /\ watchTimer \in 0..WatchInterval /\ WatchInterval \in Nat
    BY SupervisorAssumption DEF SupervisorInv, TypeOK
  <1>2. /\ health[s].age \in 0..Timeout + 1 /\ health[s].attempts \in 0..MaxAttempts
        /\ health[s].failures \in 0..Threshold
    BY <1>1 DEF Health
  <1>3. health[s].status = "unhealthy" <=> health[s].failures >= Threshold
    BY DEF SupervisorInv, StatusTellsFailures
  <1> QED
    BY <1>1, <1>2, <1>3, SupervisorAssumption DEF Slept

LEMMA WindowFigures ==
  ASSUME SupervisorInv
  PROVE  /\ recent \in Seq(0..Window) /\ Len(recent) \in Nat
         /\ \A i \in 1..Len(recent) : recent[i] \in Nat /\ recent[i] <= Window
  BY LenProperties, ElementOfSeq, SupervisorAssumption DEF SupervisorInv, TypeOK

LEMMA SpacedYounger ==
  ASSUME NEW h, Spaced(h), h \notin todo, h \notin todo', recent' = recent,
         health[h].age \in Nat, health'[h].age \in Nat, health'[h].age <= health[h].age,
         SupervisorInv
  PROVE  Spaced(h)'
  <1> SUFFICES ASSUME NEW i \in 1..Len(recent)
               PROVE  recent[i] >= (Len(recent) - i) * Timeout + health'[h].age
    BY DEF Spaced
  <1> DEFINE since == (Len(recent) - i) * Timeout
  <1>1. recent[i] >= since + health[h].age
    BY DEF Spaced
  <1>2. since \in Int /\ recent[i] \in Nat
    BY WindowFigures, SupervisorAssumption
  <1> HIDE DEF since
  <1>3. recent[i] >= since + health'[h].age
    BY <1>1, <1>2
  <1> QED
    BY <1>3 DEF since

(***************************************************************************)
(* A step of one loop concerns that loop; the slow loop alone also has to   *)
(* remain on time for the watchdog.                                         *)
(***************************************************************************)
LEMMA LoopMoves ==
  ASSUME NEW h \in Services, SupervisorInv, OnTrack(h),
         NEW r \in Services \ Mute, NEW state, NEW g \in Health, NEW c,
         Become(r, state),
         state \in {"sleeping", "beating", "reporting", "checking", "failing"},
         health' = [health EXCEPT ![r] = g], g.age <= health[r].age,
         checkAge' = [checkAge EXCEPT ![r] = c], c \in {0, checkAge[r]}, manager' = manager,
         UNCHANGED <<watchVars, resourceVars, runtime>>,
         ChecksInTime(r)',
         r = h => h \notin todo /\ NotDue(h)'
  PROVE  OnTrack(h)'
  <1>1. /\ health \in [Services -> Health] /\ loop \in [Services -> LoopStates]
        /\ timer \in [Services -> Nat] /\ checkAge \in [Services -> 0..MaxGap]
        /\ health[h].age \in Nat /\ g.age \in Nat
    BY Figures, Reports
  <1>2. UNCHANGED <<reaping, orphans, watch, watchTimer, todo, recent, throttled>>
    BY DEF Become, watchVars, resourceVars
  <1>3. ASSUME NEW s \in Services, s # r
        PROVE  /\ loop'[s] = loop[s] /\ timer'[s] = timer[s]
               /\ health'[s] = health[s] /\ checkAge'[s] = checkAge[s]
    BY <1>1, <1>3 DEF Become
  <1>4. \A s \in Mute : loop'[s] = "absent"
    BY <1>3, SupervisorAssumption DEF OnTrack
  <1>5. /\ \A s \in Services \ Mute : ChecksInTime(s)'
        /\ ~manager' => \A s \in Services : checkAge'[s] = 0
    BY <1>1, <1>3 DEF OnTrack, ChecksInTime, Slept
  <1>6. CASE r # h
    <2>1. /\ reaping' # {} => health'[h].age = 0
          /\ h \in todo' => RecoverySoon(h)'
          /\ h \notin todo' => NotDue(h)'
      BY <1>2, <1>3, <1>6 DEF OnTrack, RecoverySoon, NotDue, CaughtInTime, Slept
    <2>2. Spaced(h)'
      BY <1>2, <1>3, <1>6 DEF OnTrack, Spaced
    <2> QED
      BY <1>2, <1>4, <1>5, <2>1, <2>2 DEF OnTrack
  <1>7. CASE r = h
    <2>1. health'[h] = g
      BY <1>1, <1>7
    <2>2. Spaced(h)'
      BY <1>1, <1>2, <1>7, <2>1, SpacedYounger DEF OnTrack
    <2>3. reaping' # {} => health'[h].age = 0
      BY <1>1, <1>2, <1>7, <2>1 DEF OnTrack
    <2> QED
      BY <1>2, <1>4, <1>5, <1>7, <2>2, <2>3 DEF OnTrack
  <1> QED
    BY <1>6, <1>7

LEMMA WakeOnTrack ==
  ASSUME NEW h, Deployed(h), SupervisorInv, OnTrack(h), NEW r \in Services,
         Wake(r) \/ WakeWithoutManager(r)
  PROVE  OnTrack(h)'
  <1> PICK state \in {"beating", "reporting"} :
         Become(r, state) /\ (state = "reporting" => ~manager)
    BY DEF Wake, WakeWithoutManager
  <1>1. /\ loop[r] = "sleeping" /\ timer[r] = 0 /\ Become(r, state)
        /\ health' = health /\ checkAge' = checkAge /\ manager' = manager
        /\ UNCHANGED <<watchVars, resourceVars, runtime>>
    BY DEF Wake, WakeWithoutManager, Awake
  <1>2. r \notin Mute /\ h \in Services
    BY <1>1 DEF OnTrack, Deployed
  <1>3. /\ health \in [Services -> Health] /\ health[r] \in Health /\ health[r].age \in Nat
        /\ loop \in [Services -> LoopStates] /\ checkAge \in [Services -> 0..MaxGap]
        /\ Slept(r) = Period[r] /\ Period[r] \in Nat /\ watchTimer \in Nat
    BY <1>1, Figures DEF Slept
  <1>4. loop'[r] = state /\ (state = "reporting" => checkAge[r] = 0)
    BY <1>1, <1>3 DEF Become, OnTrack
  <1>5. ChecksInTime(r)'
    BY <1>1, <1>2, <1>3, <1>4 DEF OnTrack, ChecksInTime
  <1>6. r = h => h \notin todo
    BY <1>1 DEF OnTrack, RecoverySoon
  <1>7. (r = h /\ Span < Period[h]) => health[h].status = "unhealthy"
    <2> SUFFICES ASSUME r = h, Span < Period[h], health[h].status # "unhealthy" PROVE FALSE
      OBVIOUS
    <2>1. CaughtInTime(h)
      BY <1>2, <1>6 DEF OnTrack, NotDue
    <2>2. watch = "sleeping" => Period[h] + watchTimer <= Span
      BY <1>1, <1>3, <2>1 DEF CaughtInTime
    <2>3. watch = "stale" => Period[h] <= Timeout
      BY <1>1, <1>3, <2>1 DEF CaughtInTime
    <2> QED
      BY <1>3, <2>2, <2>3, SpanFigures DEF OnTrack
  <1>8. r = h => NotDue(h)'
    BY <1>1, <1>6, <1>7 DEF OnTrack, NotDue
  <1>9. health' = [health EXCEPT ![r] = health[r]] /\ checkAge' = [checkAge EXCEPT ![r] = checkAge[r]]
    BY <1>1, <1>3
  <1>10. r \in Services \ Mute /\ health[r].age <= health[r].age
    BY <1>2, <1>3
  <1> QED
    BY <1>1, <1>2, <1>3, <1>5, <1>6, <1>8, <1>9, <1>10, LoopMoves

LEMMA BeatOnTrack ==
  ASSUME NEW h, Deployed(h), SupervisorInv, OnTrack(h), NEW r \in Services, Beat(r)
  PROVE  OnTrack(h)'
  <1>1. /\ loop[r] = "beating" /\ Become(r, "checking")
        /\ health' = [health EXCEPT ![r] = MarkHealthy(health[r])] /\ checkAge' = checkAge /\ manager' = manager
        /\ UNCHANGED <<watchVars, resourceVars, runtime>>
    BY DEF Beat
  <1>2. r \notin Mute /\ h \in Services
    BY <1>1 DEF OnTrack, Deployed
  <1>3. /\ health \in [Services -> Health] /\ health[r] \in Health /\ health[r].age \in Nat
        /\ loop \in [Services -> LoopStates] /\ checkAge \in [Services -> 0..MaxGap]
        /\ checkAge[r] \in Nat /\ Period[r] \in Nat
        /\ health[r].failures \in Nat /\ health[r].failures <= Threshold
    BY Figures
  <1>4. /\ MarkHealthy(health[r]) \in Health
        /\ MarkHealthy(health[r]).age = 0 /\ MarkHealthy(health[r]).attempts = 0
        /\ MarkHealthy(health[r]).failures = 0
    BY <1>3, Reports, SupervisorAssumption DEF MarkHealthy, Health, Statuses
  <1>5. loop'[r] = "checking" /\ health'[r] = MarkHealthy(health[r])
    BY <1>1, <1>3 DEF Become
  <1>6. ChecksInTime(r)'
    <2>1. checkAge[r] <= Allowed(health[r].failures) + Period[r]
      BY <1>1, <1>2 DEF OnTrack, ChecksInTime
    <2>2. /\ Allowed(health[r].failures) <= Allowed(Threshold)
          /\ Allowed(health[r].failures) \in Nat /\ Allowed(Threshold) \in Nat
      BY <1>3, SpanFigures, AllowedMore
    <2> QED
      BY <1>1, <1>3, <1>5, <2>1, <2>2 DEF ChecksInTime
  <1>7. r = h => h \notin todo
    BY <1>1 DEF OnTrack, RecoverySoon
  <1>8. r = h => NotDue(h)'
    BY <1>4, <1>5 DEF NotDue, CaughtInTime
  <1>9. checkAge' = [checkAge EXCEPT ![r] = checkAge[r]]
    BY <1>1, <1>3
  <1>10. r \in Services \ Mute /\ MarkHealthy(health[r]).age <= health[r].age
    BY <1>2, <1>3, <1>4
  <1> QED
    BY <1>1, <1>2, <1>3, <1>4, <1>6, <1>7, <1>8, <1>9, <1>10, LoopMoves

LEMMA CheckOnTrack ==
  ASSUME NEW h, Deployed(h), SupervisorInv, OnTrack(h), NEW r \in Services,
         NEW ok \in BOOLEAN, Check(r, ok)
  PROVE  OnTrack(h)'
  <1>1. PICK state \in {"sleeping", "failing"} : Become(r, state)
    BY DEF Check
  <1>2. /\ loop[r] = "checking" /\ health' = health
        /\ checkAge' = [checkAge EXCEPT ![r] = 0] /\ manager' = manager
        /\ UNCHANGED <<watchVars, resourceVars, runtime>>
    BY DEF Check
  <1>3. r \notin Mute /\ h \in Services
    BY <1>2 DEF OnTrack, Deployed
  <1>4. /\ health \in [Services -> Health] /\ health[r] \in Health /\ health[r].age \in Nat
        /\ loop \in [Services -> LoopStates] /\ checkAge \in [Services -> 0..MaxGap]
        /\ timer \in [Services -> Nat] /\ Period[r] \in Nat \ {0}
        /\ health[r].failures \in Nat /\ watchTimer \in Nat /\ watchTimer <= WatchInterval
    BY Figures
  <1>5. /\ loop'[r] = state /\ checkAge'[r] = 0
        /\ state = "sleeping" => timer'[r] = Period[r]
    BY <1>1, <1>2, <1>4 DEF Become
  <1>6. state = "sleeping" => Slept(r)' = 0
    BY <1>4, <1>5 DEF Slept
  <1>7. ChecksInTime(r)'
    <2>1. Allowed(health[r].failures) \in Nat
      BY <1>4, AllowedMore
    <2> QED
      BY <1>2, <1>5, <1>6, <2>1 DEF ChecksInTime
  <1>8. r = h => h \notin todo
    BY <1>2 DEF OnTrack, RecoverySoon
  <1>9. r = h => NotDue(h)'
    <2> SUFFICES ASSUME r = h, Span < Period[h], health[h].status # "unhealthy"
                 PROVE  CaughtInTime(h)'
      BY <1>2, <1>8 DEF OnTrack, NotDue
    <2>1. health[h].age = 0
      BY <1>2, <1>3, <1>8 DEF OnTrack, NotDue, CaughtInTime
    <2>2. watch' = watch /\ watchTimer' = watchTimer
      BY <1>2 DEF watchVars
    <2>3. state = "sleeping" => /\ AtMost(Slept(h)', Timeout + 1) <= health[h].age
                                /\ Slept(h)' + watchTimer <= Span
                                /\ Slept(h)' <= Timeout
      BY <1>4, <1>6, <2>1, SpanFigures DEF AtMost
    <2> QED
      BY <1>2, <1>5, <2>1, <2>2, <2>3 DEF CaughtInTime
  <1>10. health' = [health EXCEPT ![r] = health[r]]
    BY <1>2, <1>4
  <1>11. r \in Services \ Mute /\ health[r].age <= health[r].age
    BY <1>3, <1>4
  <1> QED
    BY <1>1, <1>2, <1>3, <1>4, <1>7, <1>8, <1>9, <1>10, <1>11, LoopMoves

LEMMA ReportOnTrack ==
  ASSUME NEW h, Deployed(h), SupervisorInv, OnTrack(h), NEW r \in Services, Report(r)
  PROVE  OnTrack(h)'
  <1> DEFINE g == MarkFailed(health[r])
  <1>1. /\ loop[r] \in {"reporting", "failing"} /\ Become(r, "sleeping")
        /\ health' = [health EXCEPT ![r] = g] /\ checkAge' = checkAge /\ manager' = manager
        /\ UNCHANGED <<watchVars, resourceVars, runtime>>
    BY DEF Report
  <1>2. r \notin Mute /\ h \in Services
    BY <1>1 DEF OnTrack, Deployed
  <1>3. /\ health \in [Services -> Health] /\ health[r] \in Health /\ health[r].age \in Nat
        /\ loop \in [Services -> LoopStates] /\ checkAge \in [Services -> 0..MaxGap]
        /\ timer \in [Services -> Nat] /\ Period[r] \in Nat \ {0}
        /\ health[r].failures \in Nat /\ health[r].failures <= Threshold
        /\ health[r].attempts \in Nat
        /\ watchTimer \in Nat /\ watchTimer <= WatchInterval
    BY Figures
  <1>4. checkAge[r] = 0
    BY <1>1, <1>2 DEF OnTrack, ChecksInTime
  <1>5. /\ g.age = 0 /\ g.attempts = health[r].attempts
        /\ g.failures \in Nat /\ health[r].failures <= g.failures
    BY <1>3, Reports, SpanFigures DEF AtMost
  <1>6. g \in Health
    <2>1. GoodHealth(health[r])
      BY <1>3 DEF SupervisorInv, StatusTellsFailures, GoodHealth
    <2> QED
      BY <2>1, GoodHealthKept DEF GoodHealth
  <1> HIDE DEF g
  <1>7. loop'[r] = "sleeping" /\ health'[r] = g /\ timer'[r] = Period[r] /\ Slept(r)' = 0
    BY <1>1, <1>3 DEF Become, Slept
  <1>8. ChecksInTime(r)'
    <2>1. Allowed(g.failures) \in Nat
      BY <1>5, AllowedMore
    <2> QED
      BY <1>1, <1>4, <1>7, <2>1 DEF ChecksInTime
  <1>9. r = h => h \notin todo
    BY <1>1 DEF OnTrack, RecoverySoon
  <1>10. r = h => NotDue(h)'
    <2> SUFFICES ASSUME r = h PROVE NotDue(h)'
      OBVIOUS
    <2>1. health[h].attempts <= health[h].failures
      BY <1>9 DEF OnTrack, NotDue
    <2>2. watch' = watch /\ watchTimer' = watchTimer
      BY <1>1 DEF watchVars
    <2>3. CaughtInTime(h)'
      BY <1>3, <1>5, <1>7, <2>2, SpanFigures DEF CaughtInTime, AtMost
    <2> QED
      BY <1>3, <1>5, <1>7, <2>1, <2>3 DEF NotDue
  <1>11. checkAge' = [checkAge EXCEPT ![r] = checkAge[r]]
    BY <1>1, <1>3
  <1>12. r \in Services \ Mute /\ g.age <= health[r].age
    BY <1>2, <1>3, <1>5
  <1> QED
    BY <1>1, <1>2, <1>3, <1>5, <1>6, <1>8, <1>9, <1>10, <1>11, <1>12, LoopMoves

LEMMA ReapOnTrack ==
  ASSUME NEW h, Deployed(h), SupervisorInv, OnTrack(h), NEW r \in Services, Reap(r)
  PROVE  OnTrack(h)'
  <1>1. /\ reaping' = reaping \ {r} /\ r \in reaping
        /\ UNCHANGED <<health, loop, timer, orphans, watchVars, resourceVars, checkAge, manager>>
    BY DEF Reap
  <1>2. h \notin todo
    BY <1>1 DEF OnTrack, RecoverySoon
  <1> QED
    BY <1>1, <1>2
       DEF OnTrack, NotDue, CaughtInTime, ChecksInTime, Slept, Spaced, watchVars, resourceVars

(***************************************************************************)
(* The window and the task budget have room for the restart of the slow     *)
(* loop, and its attempts are not used up.                                  *)
(***************************************************************************)
LEMMA RestartIsAdmitted ==
  ASSUME NEW h, Deployed(h), SupervisorInv, OnTrack(h), h \in todo
  PROVE  health[h].attempts < MaxAttempts /\ Len(recent) < MaxRecoveries /\ MayRegister
  <1>1. RecoverySoon(h) /\ h \in Services
    BY DEF OnTrack, Deployed
  <1>2. health[h].attempts < MaxAttempts
    <2>1. /\ health[h].attempts \in Nat /\ health[h].failures \in Nat
          /\ health[h].failures <= Threshold /\ Threshold \in Nat /\ MaxAttempts \in Nat
      BY <1>1, Figures, SupervisorAssumption
    <2> QED
      BY <1>1, <2>1 DEF RecoverySoon, Deployed
  <1>3. Len(recent) < MaxRecoveries
    <2> SUFFICES ASSUME Len(recent) >= MaxRecoveries PROVE FALSE
      BY WindowFigures, SupervisorAssumption
    <2>1. /\ MaxRecoveries \in Nat /\ Timeout \in Nat \ {0} /\ Window \in Nat
          /\ Window < MaxRecoveries * Timeout
      BY SupervisorAssumption DEF Deployed
    <2>2. MaxRecoveries * Timeout <= Len(recent) * Timeout
      <3>1. PICK d \in Nat : Len(recent) = MaxRecoveries + d
        BY <2>1, WindowFigures
      <3>2. Len(recent) * Timeout = MaxRecoveries * Timeout + d * Timeout
        BY <2>1, <3>1
      <3>3. d * Timeout \in Nat /\ MaxRecoveries * Timeout \in Nat
        BY <2>1
      <3> QED
        BY <3>2, <3>3
    <2>3. Len(recent) # 0
      BY <2>1, <2>2
    <2>4. recent[1] >= (Len(recent) - 1) * Timeout + Timeout
      BY <2>3, WindowFigures DEF OnTrack, Spaced
    <2>5. (Len(recent) - 1) * Timeout + Timeout = Len(recent) * Timeout
      BY <2>1, WindowFigures
    <2>6. recent[1] <= Window /\ recent[1] \in Nat
      BY <2>3, WindowFigures
    <2>7. Len(recent) * Timeout \in Nat /\ MaxRecoveries * Timeout \in Nat
      BY <2>1, WindowFigures
    <2> QED
      BY <2>1, <2>2, <2>4, <2>5, <2>6, <2>7
  <1>4. MayRegister
    <2> DEFINE Running == {s \in Services : loop[s] # "absent"}
    <2>1. Running \subseteq Services \ Mute
      BY DEF OnTrack
    <2>2. IsFiniteSet(Services \ Mute)
      BY SupervisorAssumption, FS_Subset
    <2>3. /\ Cardinality(Running) \in Nat /\ Cardinality(Services \ Mute) \in Nat
          /\ Cardinality(Running) <= Cardinality(Services \ Mute)
      BY <2>1, <2>2, FS_Subset, FS_CardinalityType
    <2>4. Cardinality(reaping) = 0
      BY <1>1, FS_EmptySet DEF RecoverySoon
    <2>5. Cardinality(Running) + Cardinality(reaping) + OtherTasks < MaxTasks
      BY <2>3, <2>4, SupervisorAssumption DEF Deployed
    <2> QED
      BY <2>5 DEF OnTrack, MayRegister
  <1> QED
    BY <1>2, <1>3, <1>4

LEMMA RecoverOnTrack ==
  ASSUME NEW h, Deployed(h), SupervisorInv, SupervisorInv', OnTrack(h),
         NEW r \in Services, Recover(r)
  PROVE  OnTrack(h)'
  <1>1. r = h /\ h \in Services /\ h \notin Mute /\ h \in todo /\ RecoverySoon(h)
    BY DEF Recover, OnTrack, RecoverySoon
  <1>2. /\ health \in [Services -> Health] /\ health[h] \in Health
        /\ health[h].attempts \in Nat /\ health[h].failures \in Nat
        /\ loop \in [Services -> LoopStates] /\ timer \in [Services -> Nat]
        /\ Period[h] \in Nat \ {0} /\ checkAge[h] \in Nat /\ MaxAttempts \in Nat
    BY <1>1, Figures, SupervisorAssumption
  <1>3. Restart(h)
    BY <1>1, <1>2, RestartIsAdmitted, WindowFigures, SupervisorAssumption
       DEF Recover, GiveUp, Throttle
  <1>4. /\ loop' = [loop EXCEPT ![h] = "sleeping"]
        /\ timer' = [timer EXCEPT ![h] = Period[h]]
        /\ health' = [health EXCEPT ![h] = [health[h] EXCEPT !.attempts = @ + 1]]
        /\ recent' = Append(recent, 0) /\ throttled' = throttled /\ Cancel({h})
    BY <1>1, <1>3, RestartIsAdmitted DEF Restart
  <1>5. /\ todo' = {} /\ watch' = watch /\ checkAge' = checkAge /\ manager' = manager
    BY <1>1 DEF Recover, OnTrack
  <1>6. /\ health'[h].attempts = health[h].attempts + 1
        /\ health'[h].failures = health[h].failures /\ health'[h].age = 0
        /\ loop'[h] = "sleeping" /\ timer'[h] = Period[h] /\ Slept(h)' = 0
    BY <1>1, <1>2, <1>4 DEF RecoverySoon, Health, Slept
  <1>7. ASSUME NEW s \in Services, s # h
        PROVE  /\ loop'[s] = loop[s] /\ timer'[s] = timer[s]
               /\ health'[s] = health[s] /\ checkAge'[s] = checkAge[s]
    BY <1>2, <1>4, <1>5, <1>7
  <1>8. orphans' = [s \in Services |-> {}] /\ reaping' \subseteq {h}
    <2>1. Abandoned(h) = {}
      BY <1>1 DEF Abandoned, RecoverySoon
    <2> QED
      BY <1>1, <1>4, <2>1 DEF Cancel, OnTrack, RecoverySoon
  <1>9. \A s \in Mute : loop'[s] = "absent"
    BY <1>1, <1>7, SupervisorAssumption DEF OnTrack
  <1>10. \A s \in Services \ Mute : ChecksInTime(s)'
    <2>1. ChecksInTime(h)'
      <3>1. Allowed(health[h].failures) \in Nat
        BY <1>2, AllowedMore
      <3> QED
        BY <1>1, <1>2, <1>5, <1>6, <3>1 DEF ChecksInTime, RecoverySoon
    <2>2. ASSUME NEW s \in Services \ Mute, s # h
          PROVE  ChecksInTime(s)'
      BY <1>7, <2>2 DEF OnTrack, ChecksInTime, Slept
    <2> QED
      BY <2>1, <2>2
  <1>11. NotDue(h)'
    <2>1. health'[h].attempts <= health'[h].failures
      BY <1>1, <1>2, <1>6 DEF RecoverySoon
    <2>2. CaughtInTime(h)'
      BY <1>1, <1>5, <1>6, SpanFigures DEF CaughtInTime, RecoverySoon, AtMost
    <2> QED
      BY <2>1, <2>2 DEF NotDue
  <1>12. Spaced(h)'
    <2>1. /\ Len(recent') = Len(recent) + 1 /\ recent'[Len(recent) + 1] = 0
          /\ \A i \in 1..Len(recent) : recent'[i] = recent[i]
      BY <1>4, WindowFigures, AppendProperties
    <2>2. ASSUME NEW i \in 1..Len(recent) + 1
          PROVE  recent'[i] >= (Len(recent) + 1 - i) * Timeout
      <3>1. CASE i = Len(recent) + 1
        BY <2>1, <3>1, SupervisorAssumption, WindowFigures
      <3>2. CASE i \in 1..Len(recent)
        <4>1. recent[i] >= (Len(recent) - i) * Timeout + Timeout
          BY <1>1, <3>2 DEF OnTrack, Spaced
        <4>2. (Len(recent) - i) * Timeout + Timeout = (Len(recent) + 1 - i) * Timeout
          BY <3>2, SupervisorAssumption, WindowFigures
        <4> QED
          BY <2>1, <3>2, <4>1, <4>2
      <3> QED
        BY <2>2, <3>1, <3>2, WindowFigures
    <2>3. ASSUME NEW i \in 1..Len(recent) + 1
          PROVE  recent'[i] >= (Len(recent) + 1 - i) * Timeout + 0
      BY <2>2, SupervisorAssumption, WindowFigures
    <2> QED
      BY <1>5, <1>6, <2>1, <2>3 DEF Spaced
  <1> QED
    BY <1>4, <1>5, <1>6, <1>8, <1>9, <1>10, <1>11, <1>12 DEF OnTrack

(***************************************************************************)
(* Where no loop is gone the scan for dead tasks finds none.                *)
(***************************************************************************)
LEMMA NoneDead ==
  ASSUME NEW h, OnTrack(h), SupervisorInv, NEW statuses, NEW skip
  PROVE  DeadSets(statuses, skip) = {{}}
  BY DEF DeadSets, Gone, OnTrack, ChecksInTime

LEMMA ScanOnTrack ==
  ASSUME NEW h, Deployed(h), SupervisorInv, OnTrack(h), h \notin todo,
         FinishScan({}), UNCHANGED <<loopVars, resourceVars, runtime, checkAge, manager>>,
         (h \notin Mute /\ Span < Period[h] /\ health[h].status # "unhealthy"
            /\ loop[h] = "sleeping") => Slept(h) <= Timeout
  PROVE  OnTrack(h)'
  <1>1. /\ health' = health /\ todo' = {} /\ watch' = "sleeping" /\ watchTimer' = WatchInterval
        /\ UNCHANGED <<loop, timer, reaping, orphans, recent, throttled, checkAge, manager>>
    BY DEF FinishScan, MarkServicesFailed, SupervisorInv, TypeOK, loopVars, resourceVars
  <1>2. h \in Services /\ health[h].age \in Nat /\ Slept(h) \in Nat
    BY Figures DEF Deployed
  <1>3. NotDue(h)'
    <2> SUFFICES ASSUME h \notin Mute, Span < Period[h], health[h].status # "unhealthy"
                 PROVE  CaughtInTime(h)'
      BY <1>1 DEF OnTrack, NotDue
    <2>1. CaughtInTime(h)
      BY DEF OnTrack, NotDue
    <2>2. loop[h] = "sleeping" => Slept(h) + WatchInterval <= Span
      BY <1>2, SpanFigures
    <2> QED
      BY <1>1, <2>1, <2>2 DEF CaughtInTime, Slept
  <1>4. Spaced(h)'
    BY <1>1, <1>2, SpacedYounger DEF OnTrack
  <1> QED
    BY <1>1, <1>3, <1>4 DEF OnTrack, ChecksInTime, Slept

LEMMA WatchOnTrack ==
  ASSUME NEW h, Deployed(h), SupervisorInv, OnTrack(h), WatchQuiet \/ WatchScan
  PROVE  OnTrack(h)'
  <1>1. h \in Services /\ health[h].age \in Nat /\ Slept(h) \in Nat
    BY Figures DEF Deployed
  <1>2. CASE WatchQuiet
    <2>1. /\ watch = "sleeping" /\ {} \in StaleSets /\ FinishScan({})
          /\ UNCHANGED <<loopVars, resourceVars, runtime, checkAge, manager>>
      BY <1>2, NoneDead DEF WatchQuiet, WatchDue
    <2>2. h \notin todo
      BY <2>1 DEF OnTrack, RecoverySoon
    <2>3. ASSUME h \notin Mute, Span < Period[h], health[h].status # "unhealthy",
                 loop[h] = "sleeping"
          PROVE  Slept(h) <= Timeout
      <3>1. health[h].age <= Timeout
        BY <1>1, <2>1, <2>3, SpanFigures DEF StaleSets, Stale
      <3>2. AtMost(Slept(h), Timeout + 1) <= health[h].age
        BY <2>2, <2>3 DEF OnTrack, NotDue, CaughtInTime
      <3> QED
        BY <1>1, <3>1, <3>2, SpanFigures DEF AtMost
    <2> QED
      BY <2>1, <2>2, <2>3, ScanOnTrack
  <1>3. CASE WatchScan
    <2>1. /\ watch = "stale" /\ h \notin todo /\ FinishScan({})
          /\ UNCHANGED <<loopVars, resourceVars, runtime, checkAge, manager>>
      BY <1>3, NoneDead DEF WatchScan
    <2>2. ASSUME h \notin Mute, Span < Period[h], health[h].status # "unhealthy",
                 loop[h] = "sleeping"
          PROVE  Slept(h) <= Timeout
      BY <2>1, <2>2 DEF OnTrack, NotDue, CaughtInTime
    <2> QED
      BY <2>1, <2>2, ScanOnTrack
  <1> QED
    BY <1>2, <1>3

(***************************************************************************)
(* The verdict falls on the slow loop only, while it sleeps, and the        *)
(* failure it counts pays for the time it has slept.                        *)
(***************************************************************************)
LEMMA StaleOnTrack ==
  ASSUME NEW h, Deployed(h), SupervisorInv, QuickLeftAlone, OnTrack(h), runtime = "up", WatchStale
  PROVE  OnTrack(h)'
  <1>1. PICK S \in StaleSets :
           /\ health' = [s \in Services |-> IF s \in S THEN MarkFailed(health[s]) ELSE health[s]]
           /\ todo' = S \ Mute
    BY DEF WatchStale, MarkServicesFailed
  <1>2. /\ watch = "sleeping" /\ watchTimer = 0 /\ watch' = "stale" /\ watchTimer' = 0
        /\ UNCHANGED <<loop, timer, reaping, orphans, recent, throttled, checkAge, manager>>
    BY DEF WatchStale, WatchDue, loopVars, resourceVars
  <1>3. S \subseteq Services /\ \A s \in S : health[s].status # "unhealthy" /\ health[s].age >= Timeout
    BY <1>1 DEF StaleSets, MaybeStale
  <1>4. /\ h \in Services /\ health[h] \in Health /\ health[h].age \in Nat
        /\ health[h].attempts \in Nat /\ health[h].failures \in Nat
        /\ health[h].failures <= Threshold
        /\ health[h].status = "unhealthy" <=> health[h].failures >= Threshold
        /\ Slept(h) \in Nat /\ timer[h] \in Nat /\ Period[h] \in Nat /\ checkAge[h] \in Nat
    BY Figures DEF Deployed
  <1>5. h \notin todo /\ NotDue(h)
    BY <1>2 DEF OnTrack, RecoverySoon
  <1>6. \A s \in S \ Mute : s = h /\ Span < Period[h]
    <2> SUFFICES ASSUME NEW s \in S \ Mute, Period[s] < Timeout PROVE FALSE
      BY <1>3 DEF Deployed
    <2>1. crashes = 0
      BY DEF Deployed, SupervisorInv, TypeOK
    <2>2. health[s].age <= Period[s]
      BY <1>3, <2>1 DEF QuickLeftAlone, LeftAlone, BeatsInTime
    <2>3. health[s].age \in Nat /\ Period[s] \in Nat
      BY <1>3, Figures
    <2> QED
      BY <1>3, <2>2, <2>3, SpanFigures
  <1>7. ASSUME NEW s \in Services, s \notin S
        PROVE  health'[s] = health[s]
    BY <1>1, <1>7
  <1>8. CASE h \in S \ Mute
    <2>1. /\ health'[h].age = 0 /\ health'[h].attempts = health[h].attempts
          /\ health'[h].failures = health[h].failures + 1
      BY <1>1, <1>3, <1>4, <1>8, Reports, SpanFigures DEF AtMost
    <2>2. CaughtInTime(h) /\ loop[h] = "sleeping"
      <3>1. CaughtInTime(h)
        BY <1>3, <1>5, <1>6, <1>8 DEF NotDue
      <3>2. health[h].age # 0
        BY <1>3, <1>8, SpanFigures
      <3> QED
        BY <1>4, <1>8, <3>1, <3>2 DEF CaughtInTime, OnTrack, ChecksInTime
    <2>3. Slept(h) <= Span /\ timer[h] > 0
      <3>1. Slept(h) + 0 <= Span
        BY <1>2, <2>2 DEF CaughtInTime
      <3> QED
        BY <1>4, <1>6, <1>8, <3>1, SpanFigures DEF Slept
    <2>4. checkAge[h] <= Allowed(health[h].failures + 1)
      <3>1. checkAge[h] <= Allowed(health[h].failures) + Slept(h)
        BY <1>4, <1>8, <2>2 DEF OnTrack, ChecksInTime
      <3>2. /\ Allowed(health[h].failures + 1) = Allowed(health[h].failures) + Span
            /\ Allowed(health[h].failures) \in Nat
        BY <1>4, AllowedMore
      <3> QED
        BY <1>4, <2>3, <3>1, <3>2, SpanFigures
    <2>5. reaping = {}
      BY <1>3, <1>8, SpanFigures DEF OnTrack
    <2>6. RecoverySoon(h)'
      <3>1. health[h].attempts < health[h].failures + 1
        BY <1>4, <1>5 DEF NotDue
      <3> QED
        BY <1>2, <1>8, <2>1, <2>2, <2>3, <2>4, <2>5, <3>1 DEF RecoverySoon
    <2>7. \A s \in Services \ Mute : ChecksInTime(s)'
      <3>1. ChecksInTime(h)'
        <4>1. checkAge[h] <= Allowed(health[h].failures + 1) + Slept(h)
          <5>1. Allowed(health[h].failures + 1) \in Nat
            <6>1. \A f \in Nat : Allowed(f) \in Nat
              BY AllowedMore
            <6>2. health[h].failures + 1 \in Nat
              BY <1>4
            <6> QED
              BY <6>1, <6>2
          <5> QED
            BY <1>4, <2>4, <5>1
        <4> QED
          BY <1>2, <2>1, <2>2, <4>1 DEF ChecksInTime, Slept
      <3>2. ASSUME NEW s \in Services \ Mute, s # h
            PROVE  ChecksInTime(s)'
        BY <1>2, <1>6, <1>7, <3>2 DEF OnTrack, ChecksInTime, Slept
      <3> QED
        BY <3>1, <3>2
    <2>8. Spaced(h)'
      <3> SUFFICES ASSUME NEW i \in 1..Len(recent)
                   PROVE  recent[i] >= (Len(recent) - i) * Timeout + Timeout
        BY <1>1, <1>2, <1>8 DEF Spaced
      <3> DEFINE since == (Len(recent) - i) * Timeout
      <3>1. recent[i] >= since + health[h].age
        BY <1>5 DEF OnTrack, Spaced
      <3>2. Timeout \in Nat /\ health[h].age >= Timeout
        BY <1>3, <1>8, SpanFigures
      <3>3. since \in Int /\ recent[i] \in Nat
        BY WindowFigures, SpanFigures
      <3> HIDE DEF since
      <3>4. recent[i] >= since + Timeout
        BY <1>4, <3>1, <3>2, <3>3
      <3> QED
        BY <3>4 DEF since
    <2>9. todo' = {h}
      BY <1>1, <1>6, <1>8
    <2> QED
      BY <1>2, <2>5, <2>6, <2>7, <2>8, <2>9 DEF OnTrack
  <1>9. CASE h \notin S \ Mute
    <2>1. todo' = {} /\ \A s \in Services \ Mute : health'[s] = health[s]
      BY <1>1, <1>6, <1>7, <1>9
    <2>2. /\ health'[h].age = 0 \/ health'[h].age = health[h].age
          /\ health'[h].attempts <= health'[h].failures
      <3>1. health[h].attempts <= health[h].failures
        BY <1>5 DEF NotDue
      <3>2. CASE h \in S
        BY <1>1, <1>4, <3>1, <3>2, Reports, SpanFigures DEF AtMost
      <3>3. CASE h \notin S
        BY <1>4, <1>7, <3>1, <3>3
      <3> QED
        BY <3>2, <3>3
    <2>3. Spaced(h)'
      <3>1. health'[h].age \in Nat /\ health'[h].age <= health[h].age
        BY <1>4, <2>2
      <3> QED
        BY <1>2, <1>4, <1>5, <2>1, <3>1, SpacedYounger DEF OnTrack
    <2>4. NotDue(h)'
      <3> SUFFICES ASSUME h \notin Mute, Span < Period[h], health[h].status # "unhealthy"
                   PROVE  CaughtInTime(h)'
        BY <1>4, <2>1, <2>2 DEF NotDue
      <3>1. CaughtInTime(h) /\ health'[h] = health[h]
        BY <1>4, <1>5, <2>1 DEF NotDue
      <3>2. health[h].age <= Timeout
        BY <1>1, <1>4, <1>9, SpanFigures DEF StaleSets, Stale
      <3>3. loop[h] = "sleeping" => Slept(h) <= Timeout
        BY <1>4, <3>1, <3>2, SpanFigures DEF CaughtInTime, AtMost
      <3> QED
        BY <1>2, <3>1, <3>3 DEF CaughtInTime, Slept
    <2>5. reaping # {} => health'[h].age = 0
      BY <2>2 DEF OnTrack
    <2>6. \A s \in Services \ Mute : ChecksInTime(s)'
      BY <1>2, <2>1 DEF OnTrack, ChecksInTime, Slept
    <2> QED
      BY <1>2, <2>1, <2>3, <2>4, <2>5, <2>6 DEF OnTrack
  <1> QED
    BY <1>8, <1>9

LEMMA TickOnTrack ==
  ASSUME NEW h, Deployed(h), SupervisorInv, OnTrack(h), Tick
  PROVE  OnTrack(h)'
  <1>1. /\ watch = "sleeping" /\ watchTimer > 0 /\ watchTimer' = watchTimer - 1
        /\ reaping = {} /\ ThreadsIdle /\ AgeWindow
        /\ UNCHANGED <<loop, reaping, orphans, watch, todo, throttled, manager>>
    BY DEF Tick, OnTrack, Deployed
  <1>2. h \in Services /\ h \notin todo /\ todo = {}
    BY <1>1 DEF OnTrack, RecoverySoon, Deployed
  <1>3. ASSUME NEW s \in Services
        PROVE  /\ health'[s].age = AtMost(health[s].age + 1, Timeout + 1)
               /\ health'[s].attempts = health[s].attempts
               /\ health'[s].failures = health[s].failures
               /\ health'[s].status = health[s].status
    <2>1. health'[s] = Older(health[s])
      BY DEF Tick, Older
    <2> QED
      BY <2>1, Figures, Reports
  <1>4. ASSUME NEW s \in Services \ Mute
        PROVE  /\ loop[s] = "sleeping" /\ timer'[s] = timer[s] - 1
               /\ Slept(s)' = Slept(s) + 1
               /\ checkAge'[s] <= checkAge[s] + 1 /\ checkAge'[s] \in Nat
    <2>1. loop[s] = "sleeping"
      BY <1>1 DEF OnTrack, ChecksInTime, ThreadsIdle, Waiting
    <2>2. timer'[s] = timer[s] - 1 /\ timer[s] > 0
      BY <2>1, Figures DEF Tick, Awake
    <2>3. checkAge'[s] \in {0, AtMost(checkAge[s] + 1, MaxGap)}
      BY DEF Tick
    <2> QED
      BY <2>1, <2>2, <2>3, Figures DEF Slept, AtMost
  <1>5. \A s \in Services \ Mute : ChecksInTime(s)'
    <2> SUFFICES ASSUME NEW s \in Services \ Mute PROVE ChecksInTime(s)'
      OBVIOUS
    <2>1. checkAge[s] <= Allowed(health[s].failures) + Slept(s)
      BY <1>4 DEF OnTrack, ChecksInTime
    <2>2. Allowed(health[s].failures) \in Nat /\ Slept(s) \in Nat /\ checkAge[s] \in Nat
      BY Figures, AllowedMore
    <2>3. checkAge'[s] <= Allowed(health[s].failures) + (Slept(s) + 1)
      BY <1>4, <2>1, <2>2
    <2> QED
      BY <1>1, <1>3, <1>4, <2>3 DEF ChecksInTime
  <1>6. NotDue(h)'
    <2>1. NotDue(h) /\ health'[h].attempts <= health'[h].failures
      BY <1>2, <1>3 DEF OnTrack, NotDue
    <2> SUFFICES ASSUME h \notin Mute, Span < Period[h], health[h].status # "unhealthy"
                 PROVE  CaughtInTime(h)'
      BY <1>2, <1>3, <2>1 DEF NotDue
    <2>2. CaughtInTime(h) /\ loop[h] = "sleeping" /\ loop'[h] = "sleeping"
      BY <1>1, <1>2, <1>4, <2>1 DEF NotDue
    <2>3. /\ AtMost(Slept(h), Timeout + 1) <= health[h].age /\ Slept(h) + watchTimer <= Span
      BY <1>1, <2>2 DEF CaughtInTime
    <2>4. /\ Slept(h) \in Nat /\ watchTimer \in Nat /\ health[h].age \in Nat
      BY <1>2, Figures
    <2>5. AtMost(Slept(h) + 1, Timeout + 1) <= AtMost(health[h].age + 1, Timeout + 1)
      BY <2>3, <2>4, SpanFigures DEF AtMost
    <2>6. Slept(h) + 1 + (watchTimer - 1) <= Span
      BY <2>3, <2>4, SpanFigures
    <2> QED
      BY <1>1, <1>2, <1>3, <1>4, <2>2, <2>5, <2>6 DEF CaughtInTime
  <1>7. Spaced(h)'
    <2>1. PICK n \in 0..Len(recent) : recent' = [i \in 1..Len(recent) - n |-> recent[n + i] + 1]
      BY <1>1 DEF AgeWindow
    <2>2. Len(recent') = Len(recent) - n
      BY <2>1, WindowFigures
    <2>3. health'[h].age \in Nat /\ health[h].age \in Nat /\ health'[h].age <= health[h].age + 1
      BY <1>2, <1>3, Figures, SpanFigures DEF AtMost
    <2>4. ASSUME NEW i \in 1..Len(recent) - n
          PROVE  recent'[i] >= (Len(recent) - n - i) * Timeout + health'[h].age
      <3> DEFINE since == (Len(recent) - n - i) * Timeout
      <3>1. /\ n + i \in 1..Len(recent) /\ recent'[i] = recent[n + i] + 1
            /\ recent[n + i] \in Nat /\ Len(recent) - (n + i) = Len(recent) - n - i
        BY <2>1, WindowFigures
      <3>2. recent[n + i] >= since + health[h].age
        BY <1>2, <3>1 DEF OnTrack, Spaced
      <3>3. since \in Int
        <4>1. Len(recent) - n - i \in Int /\ Timeout \in Int
          BY <3>1, WindowFigures, SpanFigures
        <4> QED
          BY <4>1
      <3> HIDE DEF since
      <3>4. recent'[i] >= since + health'[h].age
        <4>1. \A a, b, r \in Nat : r >= since + a /\ b <= a + 1 => r + 1 >= since + b
          BY <3>3
        <4>2. recent[n + i] + 1 >= since + health'[h].age
          <5>1. recent[n + i] \in Nat
            BY <3>1
          <5> QED
            BY <2>3, <3>2, <4>1, <5>1
        <4>3. recent'[i] = recent[n + i] + 1
          BY <3>1
        <4> QED
          BY <4>2, <4>3
      <3> QED
        BY <3>4 DEF since
    <2> QED
      BY <1>1, <1>2, <2>2, <2>4 DEF Spaced
  <1>8. reaping' = {} /\ todo' = {} /\ (~manager' => \A s \in Services : checkAge'[s] = 0)
    BY <1>1, <1>2 DEF Tick
  <1> QED
    BY <1>1, <1>5, <1>6, <1>7, <1>8 DEF OnTrack

LEMMA GoesOnNext ==
  ASSUME NEW h, Deployed(h), SupervisorInv, SupervisorInv', QuickLeftAlone, ChecksGoOn(h), [Next]_vars
  PROVE  ChecksGoOn(h)'
  <1> SUFFICES ASSUME runtime' = "up" PROVE OnTrack(h)'
    BY DEF ChecksGoOn
  <1>1. runtime = "up"
    BY DEF Next, EventLoopStep, Wake, WakeWithoutManager, Crash, Reap, Recover, WatchQuiet,
           WatchStale, WatchScan, WatchDone, ThreadStep, EndBeat, EndCheck, EndReport,
           EndOrphan, Beat, Check, Report, ReportCrash, FinishOrphan, DropOrphan, CreateManager, EventFlood,
           Shutdown, StopWatchdog, CancelAllTasks, Tick, vars
  <1>2. OnTrack(h)
    BY <1>1 DEF ChecksGoOn
  <1>3. CASE UNCHANGED vars
    BY <1>2, <1>3
       DEF OnTrack, ChecksInTime, RecoverySoon, NotDue, CaughtInTime, Slept, Spaced, vars,
           loopVars, watchVars, resourceVars
  <1>4. CASE \E s \in Services : Wake(s) \/ WakeWithoutManager(s) \/ Reap(s) \/ Recover(s)
    BY <1>2, <1>4, WakeOnTrack, ReapOnTrack, RecoverOnTrack
  <1>5. CASE \E s \in Services : Beat(s) \/ Report(s) \/ \E ok \in BOOLEAN : Check(s, ok)
    BY <1>2, <1>5, BeatOnTrack, ReportOnTrack, CheckOnTrack
  <1>6. CASE WatchQuiet \/ WatchStale \/ WatchScan
    BY <1>1, <1>2, <1>6, WatchOnTrack, StaleOnTrack
  <1>7. CASE Tick
    BY <1>2, <1>7, TickOnTrack
  <1>8. /\ \A s \in Services : ~Crash(s) /\ ~ReportCrash(s)
        /\ \A s \in Services, op \in {"beat", "check", "report"} : ~EndOrphan(s, op)
        /\ ~EventFlood /\ ~WatchDone /\ ~Shutdown
    <2>1. ~EventFlood
      BY DEF Deployed, EventFlood
    <2>2. \A s \in Services : ~Crash(s)
      BY DEF Deployed, Crash, SupervisorInv, TypeOK
    <2>3. \A s \in Services : ~ReportCrash(s)
      BY <1>2 DEF OnTrack, ChecksInTime, ReportCrash
    <2>4. \A s \in Services, op \in {"beat", "check", "report"} : ~EndOrphan(s, op)
      BY <1>2 DEF OnTrack, EndOrphan, FinishOrphan, DropOrphan
    <2>5. ~WatchDone /\ ~Shutdown
      BY <1>2 DEF OnTrack, WatchDone, Shutdown, StopWatchdog, CancelAllTasks
    <2> QED
      BY <2>1, <2>2, <2>3, <2>4, <2>5
  <1>9. CASE CreateManager
    BY <1>2, <1>9
       DEF CreateManager, OnTrack, ChecksInTime, RecoverySoon, NotDue, CaughtInTime, Slept,
           Spaced, loopVars, watchVars, resourceVars
  <1> QED
    BY <1>3, <1>4, <1>5, <1>6, <1>7, <1>8, <1>9
       DEF Next, EventLoopStep, ThreadStep, EndBeat, EndCheck, EndReport

LEMMA DeployedRuns ==
  ASSUME NEW h, Deployed(h)
  PROVE  Spec => [](SupervisorInv /\ ChecksGoOn(h))
  <1>1. Init => ChecksGoOn(h)
    <2> SUFFICES ASSUME Init PROVE OnTrack(h)
      BY DEF ChecksGoOn
    <2>1. SupervisorInv /\ h \in Services
      BY SupervisorInit DEF Deployed
    <2>2. \A s \in Services \ Mute : ChecksInTime(s)
      <3> SUFFICES ASSUME NEW s \in Services \ Mute PROVE ChecksInTime(s)
        OBVIOUS
      <3>1. Allowed(0) \in Nat
        BY AllowedMore
      <3>2. /\ loop[s] = "sleeping" /\ checkAge[s] = 0 /\ health[s].failures = 0
            /\ timer[s] = Period[s]
        BY DEF Init
      <3>3. Slept(s) = 0
        BY <3>2, <2>1, Figures DEF Slept
      <3> QED
        BY <3>1, <3>2, <3>3 DEF ChecksInTime
    <2>3. NotDue(h)
      <3>1. /\ health[h].attempts = 0 /\ health[h].failures = 0 /\ health[h].age = 0
            /\ watch = "sleeping" /\ watchTimer = WatchInterval
            /\ h \notin Mute => loop[h] = "sleeping" /\ timer[h] = Period[h]
        BY <2>1 DEF Init
      <3>2. h \notin Mute => Slept(h) = 0
        BY <2>1, <3>1, Figures DEF Slept
      <3> QED
        BY <3>1, <3>2, SpanFigures DEF NotDue, CaughtInTime, AtMost
    <2>4. Spaced(h)
      <3>1. Len(recent) = 0
        BY EmptySeq DEF Init
      <3> QED
        BY <3>1 DEF Spaced
    <2> QED
      BY <2>2, <2>3, <2>4, SupervisorAssumption DEF Init, OnTrack
  <1>2. PromptThreads
    BY DEF Deployed
  <1>3. SupervisorInv /\ QuickLeftAlone /\ [Next]_vars => QuickLeftAlone'
    BY <1>2, QuickNext
  <1>4. SupervisorInv /\ SupervisorInv' /\ QuickLeftAlone /\ ChecksGoOn(h) /\ [Next]_vars
          => ChecksGoOn(h)'
    BY GoesOnNext
  <1> QED
    BY <1>1, <1>3, <1>4, QuickInit, SupervisorInit, SupervisorNext, PTL DEF Spec

(***************************************************************************)
(* In a deployed runtime, for any periods and limits that fit together as   *)
(* Deployed says, two checks of a loop are never MaxGap ticks apart while   *)
(* the runtime is up: each failure buys one restart, a restart costs the    *)
(* timeout and one interval at most, and at the threshold the watchdog      *)
(* gives in and lets the loop wake up.                                      *)
(***************************************************************************)
THEOREM ChecksKeepComing ==
  ASSUME NEW h, Deployed(h)
  PROVE  Spec => []CheckGapBounded
  <1>1. SupervisorInv /\ ChecksGoOn(h) => CheckGapBounded
    <2> SUFFICES ASSUME SupervisorInv, OnTrack(h), NEW s \in Services \ Mute
                 PROVE  checkAge[s] < MaxGap
      BY DEF ChecksGoOn, CheckGapBounded
    <2>1. ChecksInTime(s) /\ Allowed(Threshold) + Period[s] < MaxGap
      BY DEF OnTrack, Deployed
    <2>2. /\ Allowed(health[s].failures) <= Allowed(Threshold)
          /\ Allowed(health[s].failures) \in Nat /\ Allowed(Threshold) \in Nat
      BY Figures, SpanFigures, AllowedMore
    <2>3. /\ Slept(s) \in Nat /\ Slept(s) <= Period[s] /\ Period[s] \in Nat
          /\ checkAge[s] \in Nat /\ MaxGap \in Nat
      BY Figures
    <2> QED
      BY <2>1, <2>2, <2>3 DEF ChecksInTime
  <1> QED
    BY <1>1, DeployedRuns, PTL

(***************************************************************************)
(* And the restarts of the slow loop, however long they go on, never        *)
(* exhaust the recovery window: the runtime is not throttled by its own     *)
(* supervisor, and no restart is denied.                                    *)
(***************************************************************************)
THEOREM RestartsAlwaysFit ==
  ASSUME NEW h, Deployed(h)
  PROVE  Spec => []RestartsFitTheWindow
  <1>1. ChecksGoOn(h) => RestartsFitTheWindow
    BY DEF ChecksGoOn, OnTrack, ChecksInTime, RestartsFitTheWindow
  <1> QED
    BY <1>1, DeployedRuns, PTL
=============================================================================
