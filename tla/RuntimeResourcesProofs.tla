----------------------- MODULE RuntimeResourcesProofs -----------------------
(***************************************************************************)
(* Proofs about the resource governance, for every limit and every set of   *)
(* tasks.                                                                   *)
(***************************************************************************)
EXTENDS RuntimeResources, FiniteSetTheorems, TLAPS

(***************************************************************************)
(* The counters stay within their limits.                                   *)
(***************************************************************************)
LEMMA TypeInit == Init => TypeOK
  <1> SUFFICES ASSUME Init PROVE TypeOK
    OBVIOUS
  <1>1. policyInstalled \in BOOLEAN
    BY Zenon DEF Init
  <1>2. /\ pressure \in Pressures /\ events \in 0..MaxEvents
        /\ recoveries \in 0..MaxRecoveries /\ queueSize \in 0..MaxQueue
        /\ activeTasks \subseteq Tasks
    BY LimitsAssumption DEF Init, Pressures
  <1> QED
    BY <1>1, <1>2, Zenon DEF TypeOK

LEMMA TypeNext == TypeOK /\ [Next]_vars => TypeOK'
  <1> SUFFICES ASSUME TypeOK, [Next]_vars PROVE TypeOK'
    OBVIOUS
  <1> USE LimitsAssumption DEF TypeOK, Pressures
  <1>0. CASE InstallPolicy
    BY <1>0 DEF InstallPolicy
  <1>1. CASE OfferEvent
    BY <1>1 DEF OfferEvent, AcceptEvent, RefuseEvent, ThrottleEvent, DenyEvent, WindowClosed
  <1>2. CASE StartRecovery
    BY <1>2 DEF StartRecovery
  <1>3. CASE RefuseRecovery
    BY <1>3 DEF RefuseRecovery
  <1>4. CASE \E t \in Tasks : RegisterTask(t) \/ UnregisterTask(t)
    BY <1>4 DEF RegisterTask, UnregisterTask
  <1>5. CASE \E n \in 0..MaxQueue : UpdateQueueSize(n)
    BY <1>5 DEF UpdateQueueSize
  <1>6. CASE Elapse
    BY <1>6 DEF Elapse
  <1>7. CASE UNCHANGED vars
    BY <1>7 DEF vars
  <1> QED
    BY <1>0, <1>1, <1>2, <1>3, <1>4, <1>5, <1>6, <1>7 DEF Next

THEOREM TypeCorrect == Spec => []TypeOK
  BY TypeInit, TypeNext, PTL DEF Spec

-----------------------------------------------------------------------------
(***************************************************************************)
(* The task budget needs to know that the set of active tasks is finite.    *)
(***************************************************************************)
BudgetInv == IsFiniteSet(activeTasks) /\ TaskBudgetKept

LEMMA BudgetInit == Init => BudgetInv
  BY LimitsAssumption, FS_EmptySet DEF Init, BudgetInv, TaskBudgetKept

LEMMA BudgetNext == BudgetInv /\ [Next]_vars => BudgetInv'
  <1> SUFFICES ASSUME BudgetInv, [Next]_vars PROVE BudgetInv'
    OBVIOUS
  <1>1. MaxTasks \in Nat /\ Cardinality(activeTasks) \in Nat
    BY LimitsAssumption, FS_CardinalityType DEF BudgetInv
  <1>2. ASSUME NEW t \in Tasks, RegisterTask(t)
        PROVE  BudgetInv'
    <2>1. activeTasks' = activeTasks \cup {t} /\ Cardinality(activeTasks) < MaxTasks
      BY <1>1, <1>2 DEF RegisterTask, TasksExceeded
    <2>2. /\ IsFiniteSet(activeTasks \cup {t})
          /\ Cardinality(activeTasks \cup {t}) <= Cardinality(activeTasks) + 1
      BY <1>1, FS_AddElement DEF BudgetInv
    <2>3. Cardinality(activeTasks \cup {t}) \in Nat
      BY <2>2, FS_CardinalityType
    <2> QED
      BY <1>1, <2>1, <2>2, <2>3 DEF BudgetInv, TaskBudgetKept
  <1>3. ASSUME NEW t \in Tasks, UnregisterTask(t)
        PROVE  BudgetInv'
    <2>1. activeTasks' = activeTasks \ {t}
      BY <1>3 DEF UnregisterTask
    <2>2. /\ IsFiniteSet(activeTasks \ {t})
          /\ Cardinality(activeTasks \ {t}) <= Cardinality(activeTasks)
      BY <1>1, FS_RemoveElement DEF BudgetInv
    <2>3. Cardinality(activeTasks \ {t}) \in Nat
      BY <2>2, FS_CardinalityType
    <2> QED
      BY <1>1, <2>1, <2>2, <2>3 DEF BudgetInv, TaskBudgetKept
  <1>4. CASE UNCHANGED activeTasks
    BY <1>4 DEF BudgetInv, TaskBudgetKept
  <1> QED
    BY <1>2, <1>3, <1>4
       DEF Next, vars, InstallPolicy, OfferEvent, AcceptEvent, RefuseEvent, ThrottleEvent,
           DenyEvent, StartRecovery, RefuseRecovery, UpdateQueueSize, Elapse

(***************************************************************************)
(* However registrations and completions are interleaved, max_runtime_tasks *)
(* is never exceeded.                                                       *)
(***************************************************************************)
THEOREM TaskBudgetHolds == Spec => []TaskBudgetKept
  <1>1. BudgetInv => TaskBudgetKept
    BY DEF BudgetInv
  <1> QED
    BY <1>1, BudgetInit, BudgetNext, PTL DEF Spec

-----------------------------------------------------------------------------
(***************************************************************************)
(* While throttled, the installed guardrail allows nothing.                 *)
(***************************************************************************)
LEMMA ThrottledDenies ==
  ASSUME policyInstalled, pressure = "throttled", NEW exhausted
  PROVE  ~PolicyAllows(exhausted)
  BY DEF PolicyAllows

(***************************************************************************)
(* With the policy engine installed, as RuntimeState installs it, a runtime *)
(* that is throttled once stays throttled.                                  *)
(***************************************************************************)
THEOREM ThrottlingNeverEnds == Spec => ThrottlingIsForGood
  <1>1. ASSUME [Next]_vars, policyInstalled, pressure = "throttled"
        PROVE  pressure' = "throttled"
    <2>1. CASE OfferEvent
      <3>1. ~AcceptEvent(queueSize)
        BY <1>1, ThrottledDenies DEF AcceptEvent, EventAllowed
      <3> QED
        BY <1>1, <2>1, <3>1 DEF OfferEvent, RefuseEvent, ThrottleEvent, DenyEvent
    <2>2. CASE StartRecovery \/ RefuseRecovery
      BY <1>1, <2>2 DEF StartRecovery, RefuseRecovery
    <2>3. CASE UNCHANGED pressure
      BY <1>1, <2>3
    <2> QED
      BY <1>1, <2>1, <2>2, <2>3
         DEF Next, vars, InstallPolicy, RegisterTask, UnregisterTask, UpdateQueueSize, Elapse
  <1>2. [Next]_vars => [policyInstalled /\ pressure = "throttled" => pressure' = "throttled"]_vars
    BY <1>1
  <1> QED
    BY <1>2, PTL DEF Spec, ThrottlingIsForGood

(***************************************************************************)
(* And nothing is admitted any more: no event is counted and no task is     *)
(* registered while it is throttled.                                        *)
(***************************************************************************)
THEOREM ThrottledIsClosed == Spec => ThrottledAdmitsNothing
  <1> DEFINE Closed == events' <= events /\ activeTasks' \subseteq activeTasks
  <1>1. ASSUME TypeOK, [Next]_vars, policyInstalled, pressure = "throttled"
        PROVE  Closed
    <2>0. events \in Nat
      BY <1>1, LimitsAssumption DEF TypeOK
    <2>1. CASE OfferEvent
      <3>1. ~AcceptEvent(queueSize)
        BY <1>1, ThrottledDenies DEF AcceptEvent, EventAllowed
      <3> QED
        BY <2>0, <2>1, <3>1 DEF OfferEvent, RefuseEvent, ThrottleEvent, DenyEvent
    <2>2. ASSUME NEW t \in Tasks
          PROVE  ~RegisterTask(t)
      BY <1>1, ThrottledDenies DEF RegisterTask
    <2>3. CASE Elapse
      BY <2>0, <2>3 DEF Elapse
    <2>4. CASE UNCHANGED events /\ activeTasks' \subseteq activeTasks
      BY <2>0, <2>4
    <2> QED
      BY <1>1, <2>1, <2>2, <2>3, <2>4
         DEF Next, vars, InstallPolicy, StartRecovery, RefuseRecovery, UnregisterTask, UpdateQueueSize
  <1>2. TypeOK /\ [Next]_vars => [policyInstalled /\ pressure = "throttled" => Closed]_vars
    BY <1>1
  <1> QED
    BY <1>2, TypeCorrect, PTL DEF Spec, ThrottledAdmitsNothing

(***************************************************************************)
(* Under the policy engine a throttled state is the mark of an exhausted    *)
(* window, never of a full queue or task budget alone.                      *)
(***************************************************************************)
THEOREM ThrottledByRates == Spec => OnlyRatesThrottle
  <1> DEFINE Exhausted == events = MaxEvents \/ recoveries = MaxRecoveries
  <1>1. ASSUME TypeOK, [Next]_vars, policyInstalled,
               pressure # "throttled", pressure' = "throttled"
        PROVE  Exhausted
    <2>0. /\ events \in 0..MaxEvents /\ MaxEvents \in Nat
          /\ recoveries \in 0..MaxRecoveries /\ MaxRecoveries \in Nat
      BY <1>1, LimitsAssumption DEF TypeOK
    <2>1. CASE OfferEvent
      <3>1. ThrottleEvent(queueSize)
        BY <1>1, <2>1 DEF OfferEvent, AcceptEvent, RefuseEvent, DenyEvent
      <3>2. ~Overloaded(queueSize) /\ ~TasksExceeded
        BY <1>1, <3>1 DEF ThrottleEvent, EventAllowed, PolicyAllows
      <3>3. events >= MaxEvents
        BY <3>1, <3>2 DEF ThrottleEvent, WindowClosed
      <3> QED
        BY <2>0, <3>3
    <2>2. CASE StartRecovery
      BY <1>1, <2>2 DEF StartRecovery
    <2>3. CASE RefuseRecovery
      BY <2>0, <2>3 DEF RefuseRecovery
    <2>4. ~UNCHANGED pressure
      BY <1>1
    <2> QED
      BY <1>1, <2>1, <2>2, <2>3, <2>4
         DEF Next, vars, InstallPolicy, RegisterTask, UnregisterTask, UpdateQueueSize, Elapse
  <1>2. TypeOK /\ [Next]_vars
          => [(policyInstalled /\ pressure # "throttled" /\ pressure' = "throttled")
                => Exhausted]_vars
    BY <1>1
  <1> QED
    BY <1>2, TypeCorrect, PTL DEF Spec, OnlyRatesThrottle
=============================================================================
