----------------------- MODULE GovernedDispatcherProofs -----------------------
(***************************************************************************)
(* Theorems about the dispatcher under the resource manager.  The           *)
(* composition is a dispatcher in the sense of EventDispatcher, so what is  *)
(* proved there holds here too; admission is what the composition adds.     *)
(***************************************************************************)
EXTENDS GovernedDispatcher, EventDispatcherProofs, FiniteSetTheorems

(***************************************************************************)
(* Every step of the composition is a step of the dispatcher, with some     *)
(* admission decision, or leaves the dispatcher alone.                      *)
(***************************************************************************)
LEMMA GovernedStep == [GovernedNext]_governedVars => [Next]_vars
  <1> SUFFICES ASSUME [GovernedNext]_governedVars PROVE [Next]_vars
    OBVIOUS
  <1>1. ASSUME NEW e \in Events, NEW admitted \in BOOLEAN, Offer(e, admitted)
        PROVE  Next
    BY <1>1 DEF Next, Dispatch
  <1>2. CASE \E e \in Ordinary : DispatchOrdinary(e)
    BY <1>1, <1>2 DEF DispatchOrdinary, Events
  <1>3. CASE \E e \in Critical : DispatchCritical(e)
    BY <1>1, <1>3 DEF DispatchCritical, Events
  <1>4. CASE \E e \in Events : DispatchIgnored(e)
    BY <1>1, <1>4 DEF DispatchIgnored
  <1>5. CASE GovernedPublish
    BY <1>5 DEF GovernedPublish, Next, Loop
  <1>6. CASE Unreported
    BY <1>6 DEF Unreported, Next, Loop
  <1>7. CASE Elsewhere \/ UNCHANGED governedVars
    BY <1>7 DEF Elsewhere, governedVars, dispatcherVars
  <1> QED
    BY <1>2, <1>3, <1>4, <1>5, <1>6, <1>7 DEF GovernedNext

LEMMA GovernedStart == GovernedInit => Init
  BY DEF GovernedInit

(***************************************************************************)
(* The wired dispatcher implements the dispatcher: admission, throttling    *)
(* and the reports to the queue budget only choose among its behaviours.    *)
(***************************************************************************)
THEOREM GovernedImplements == GovernedSpec => Init /\ [][Next]_vars
  BY GovernedStart, GovernedStep, PTL DEF GovernedSpec

(***************************************************************************)
(* The accounting of the dispatcher survives the wiring: what it took       *)
(* charge of is in flight until it is published, under every pressure.      *)
(***************************************************************************)
THEOREM GovernedAccounting == GovernedSpec => []HeldIsInFlight
  <1>1. AccountInv => HeldIsInFlight
    BY DEF AccountInv
  <1> QED
    BY <1>1, AccountInit, AccountNext, GovernedImplements, PTL

(***************************************************************************)
(* The wired dispatcher is a delivery service too, whatever the pressure    *)
(* denies: what is admitted is delivered exactly once, and a graceful stop  *)
(* leaves nothing undelivered.                                              *)
(***************************************************************************)
THEOREM GovernedDelivers == GovernedSpec => Service!Init /\ [][Service!Next]_(Service!vars)
  <1>1. GovernedSpec => []AccountInv
    BY AccountInit, AccountNext, GovernedImplements, PTL
  <1>2. []AccountInv => [](InFlight = HeldEvents)
    BY InFlightIsHeld, PTL
  <1>3. /\ AccountInv /\ AccountInv' /\ [Next]_vars
        /\ InFlight = HeldEvents /\ (InFlight = HeldEvents)'
        => [Service!Next]_(Service!vars)
    BY ServiceNext
  <1> QED
    BY <1>1, <1>2, <1>3, GovernedImplements, ServiceInit, PTL

(***************************************************************************)
(* Admission does not reorder: events that found room are published in the  *)
(* order they were dispatched, those denied in between left out.            *)
(***************************************************************************)
THEOREM GovernedArrivalOrder == GovernedSpec => []DirectFifo
  <1>1. FifoInv => DirectFifo
    BY DEF FifoInv, LineInOrder, InOrder, Precedes, DirectFifo
  <1> QED
    BY <1>1, FifoInit, FifoNext, GovernedImplements, PTL

-----------------------------------------------------------------------------
(***************************************************************************)
(* Admission is decided on the length of the queue at that moment, so an    *)
(* admitted event is never dropped.  (With the size the budget last heard   *)
(* of, it could be: the loop fetches without reporting.)                    *)
(***************************************************************************)
LEMMA AdmittedHasRoom ==
  ASSUME TypeOK, Resources!AcceptEvent(Len(queue))
  PROVE  Len(queue) < MaxSize
  BY MaxSizeAssumption, LenProperties
     DEF TypeOK, Resources!AcceptEvent, Resources!WindowClosed, Resources!Overloaded

LEMMA FitsStep == AdmittedFits /\ TypeOK /\ [GovernedNext]_governedVars => AdmittedFits'
  <1> SUFFICES ASSUME AdmittedFits, TypeOK, [GovernedNext]_governedVars,
                      NEW o \in Ordinary
               PROVE  fate'[o] # "dropped"
    BY DEF AdmittedFits
  <1>1. /\ fate \in [Events -> Fates] /\ fate[o] # "dropped" /\ o \in Events
        /\ Len(queue) \in Nat /\ MaxSize \in Nat
    BY MaxSizeAssumption, LenProperties DEF TypeOK, AdmittedFits, Events
  <1>2. ASSUME NEW e \in Events, NEW admitted \in BOOLEAN, Offer(e, admitted),
               ~Drop(e, admitted)
        PROVE  fate'[o] # "dropped"
    BY <1>1, <1>2 DEF Offer, Ignore, Refuse, Enqueue, Preserve, Hold
  <1>3. CASE \E e \in Ordinary : DispatchOrdinary(e)
    <2>1. PICK e \in Ordinary : DispatchOrdinary(e)
      BY <1>3
    <2>2. CASE Resources!AcceptEvent(Len(queue)) /\ Offer(e, TRUE)
      <3>1. ~Drop(e, TRUE)
        BY <1>1, <2>2, AdmittedHasRoom DEF Drop
      <3> QED
        BY <1>2, <2>2, <3>1 DEF Events
    <2>3. CASE Offer(e, FALSE)
      <3>1. ~Drop(e, FALSE)
        BY DEF Drop
      <3> QED
        BY <1>2, <2>3, <3>1 DEF Events
    <2> QED
      BY <2>1, <2>2, <2>3 DEF DispatchOrdinary
  <1>4. CASE \E e \in Critical : DispatchCritical(e)
    <2>1. PICK e \in Critical : Offer(e, TRUE)
      BY <1>4 DEF DispatchCritical
    <2>2. ~Drop(e, TRUE)
      BY <2>1, EventsAssumption DEF Drop
    <2> QED
      BY <1>2, <2>1, <2>2 DEF Events
  <1>5. CASE \E e \in Events : DispatchIgnored(e)
    <2>1. PICK e \in Events : ~started /\ Offer(e, TRUE)
      BY <1>5 DEF DispatchIgnored
    <2>2. ~Drop(e, TRUE)
      BY <2>1 DEF Drop
    <2> QED
      BY <1>2, <2>1, <2>2
  <1>6. CASE GovernedPublish
    BY <1>1, <1>6 DEF GovernedPublish, Publish
  <1>7. CASE Unreported
    BY <1>1, <1>7 DEF Unreported, Start, Fetch, LoopExit, StopRequest, StopReturn,
                      StopCancelled
  <1>8. CASE Elsewhere \/ UNCHANGED governedVars
    BY <1>1, <1>8 DEF Elsewhere, governedVars, dispatcherVars, vars
  <1> QED
    BY <1>3, <1>4, <1>5, <1>6, <1>7, <1>8 DEF GovernedNext

(***************************************************************************)
(* The queue never refuses an event the resource manager admitted.          *)
(***************************************************************************)
THEOREM AdmissionIsExact == GovernedSpec => []AdmittedFits
  <1>1. GovernedInit => AdmittedFits
    BY DEF GovernedInit, Init, AdmittedFits, Events
  <1>2. BoundsInv => TypeOK
    BY DEF BoundsInv
  <1> QED
    BY <1>1, <1>2, BoundsInit, BoundsNext, GovernedStart, GovernedStep, FitsStep, PTL
       DEF GovernedSpec

-----------------------------------------------------------------------------
(***************************************************************************)
(* The resource manager under the dispatcher: the size its queue budget     *)
(* holds is a size the queue can have, the windows keep their limits.       *)
(***************************************************************************)
LEMMA ResourceStep ==
  BoundsInv /\ Resources!TypeOK /\ BoundsInv' /\ [GovernedNext]_governedVars
      => Resources!TypeOK'
  <1> SUFFICES ASSUME BoundsInv, BoundsInv', Resources!TypeOK,
                      [GovernedNext]_governedVars
               PROVE  Resources!TypeOK'
    OBVIOUS
  <1>1. /\ Len(queue') \in 0..MaxSize
        /\ MaxSize \in Nat /\ MaxEvents \in Nat /\ MaxRecoveries \in Nat
    BY MaxSizeAssumption, WindowsAssumption, LenProperties
       DEF BoundsInv, TypeOK, OverflowOnlyBehindFullQueue
  <1>2. CASE \E e \in Ordinary : DispatchOrdinary(e)
    <2>1. /\ queueSize' = Len(queue')
          /\ Resources!AcceptEvent(Len(queue)) \/ Resources!RefuseEvent(Len(queue))
      BY <1>2 DEF DispatchOrdinary, SyncQueueBudget
    <2>2. CASE Resources!AcceptEvent(Len(queue))
      <3>1. ~(events >= MaxEvents) /\ events' = events + 1
        BY <2>2 DEF Resources!AcceptEvent, Resources!WindowClosed
      <3>2. events' \in 0..MaxEvents
        BY <1>1, <3>1 DEF Resources!TypeOK
      <3>3. pressure' \in {"warning", "healthy"}
        BY <2>2 DEF Resources!AcceptEvent
      <3> QED
        BY <1>1, <2>1, <2>2, <3>2, <3>3
           DEF Resources!TypeOK, Resources!AcceptEvent, Resources!Pressures
    <2>3. CASE Resources!RefuseEvent(Len(queue))
      BY <1>1, <2>1, <2>3
         DEF Resources!TypeOK, Resources!RefuseEvent, Resources!ThrottleEvent,
             Resources!DenyEvent, Resources!Pressures
    <2> QED
      BY <2>1, <2>2, <2>3
  <1>3. CASE (\E e \in Critical : DispatchCritical(e)) \/ GovernedPublish
    BY <1>1, <1>3 DEF Resources!TypeOK, DispatchCritical, GovernedPublish,
                      OnlySyncQueueBudget, SyncQueueBudget
  <1>4. CASE \/ \E e \in Events : DispatchIgnored(e)
             \/ Unreported
             \/ UNCHANGED governedVars
    BY <1>4 DEF Resources!TypeOK, DispatchIgnored, Unreported, governedVars, resourceVars
  <1>5. CASE Elsewhere
    BY <1>1, <1>5
       DEF Resources!TypeOK, Elsewhere, Resources!StartRecovery, Resources!RefuseRecovery,
           Resources!RegisterTask, Resources!UnregisterTask, Resources!Elapse,
           Resources!Pressures
  <1> QED
    BY <1>2, <1>3, <1>4, <1>5 DEF GovernedNext

(***************************************************************************)
(* Type correctness of the composition, both halves of it.                  *)
(***************************************************************************)
THEOREM GovernedTypeCorrect == GovernedSpec => [](TypeOK /\ Resources!TypeOK)
  <1>1. GovernedInit => Resources!TypeOK
    BY MaxSizeAssumption, WindowsAssumption
       DEF GovernedInit, Resources!TypeOK, Resources!Pressures
  <1>2. BoundsInv => TypeOK
    BY DEF BoundsInv
  <1> QED
    BY <1>1, <1>2, BoundsInit, BoundsNext, GovernedStart, GovernedStep, ResourceStep, PTL
       DEF GovernedSpec

-----------------------------------------------------------------------------
(***************************************************************************)
(* The latch at work: the policy engine is there from the start, and it     *)
(* denies because the state is throttled, so no ordinary event is admitted  *)
(* whose admission would end the throttling.                                *)
(***************************************************************************)
LEMMA ThrottledRefuses ==
  ASSUME policyInstalled, pressure = "throttled", NEW size
  PROVE  ~Resources!AcceptEvent(size)
  BY DEF Resources!AcceptEvent, Resources!EventAllowed, Resources!PolicyAllows

LEMMA PolicyStays == policyInstalled /\ [GovernedNext]_governedVars => policyInstalled'
  BY DEF GovernedNext, DispatchOrdinary, DispatchCritical, DispatchIgnored, GovernedPublish,
         OnlySyncQueueBudget, Unreported, Elsewhere, governedVars, resourceVars,
         Resources!AcceptEvent, Resources!RefuseEvent, Resources!ThrottleEvent,
         Resources!DenyEvent, Resources!StartRecovery, Resources!RefuseRecovery,
         Resources!RegisterTask, Resources!UnregisterTask, Resources!Elapse

(***************************************************************************)
(* Throttling silences the bus for good, except for shutdowns.              *)
(***************************************************************************)
THEOREM ThrottledIsSilent == GovernedSpec => ThrottleSilencesOrdinary
  <1> DEFINE Silent == \A e \in Ordinary :
                 fate[e] = "new" => fate'[e] \in {"new", "ignored", "refused"}
  <1>1. ASSUME AccountInv, policyInstalled, pressure = "throttled", [GovernedNext]_governedVars
        PROVE  pressure' = "throttled" /\ Silent
    <2>1. /\ fate \in [Events -> Fates] /\ Ordinary \subseteq Events
          /\ Ordinary \cap Critical = {}
      BY <1>1, EventsAssumption DEF AccountInv, BoundsInv, TypeOK, Events
    <2>2. ASSUME NEW o \in Ordinary, NEW admitted \in BOOLEAN, Offer(o, admitted),
                 admitted => ~started
          PROVE  Silent
      BY <2>1, <2>2, EventsAssumption DEF Offer, Ignore, Refuse, Drop, Enqueue, Preserve
    <2>3. ASSUME NEW c \in Critical, NEW admitted \in BOOLEAN, Offer(c, admitted)
          PROVE  Silent
      BY <2>1, <2>3 DEF Offer, Ignore, Refuse, Drop, Enqueue, Preserve, Hold
    <2>4. CASE \E e \in Ordinary : DispatchOrdinary(e)
      <3>1. PICK e \in Ordinary : Resources!RefuseEvent(Len(queue)) /\ Offer(e, FALSE)
        BY <1>1, <2>4, ThrottledRefuses DEF DispatchOrdinary
      <3>2. pressure' = "throttled"
        BY <1>1, <3>1
           DEF Resources!RefuseEvent, Resources!ThrottleEvent, Resources!DenyEvent
      <3>3. Silent
        BY <2>1, <3>1, EventsAssumption DEF Offer, Ignore, Refuse, Drop, Enqueue, Preserve
      <3> QED
        BY <3>2, <3>3
    <2>5. CASE \E e \in Critical : DispatchCritical(e)
      BY <1>1, <2>3, <2>5 DEF DispatchCritical, OnlySyncQueueBudget
    <2>6. CASE \E e \in Events : DispatchIgnored(e)
      BY <1>1, <2>2, <2>3, <2>6 DEF DispatchIgnored, resourceVars, Events
    <2>7. CASE GovernedPublish
      <3>1. /\ current \in Events /\ LoopAlive /\ fate' = [fate EXCEPT ![current] = "published"]
        BY <1>1, <2>7
           DEF AccountInv, BoundsInv, TypeOK, ControlAgrees, GovernedPublish, Publish, LoopAlive
      <3>2. fate[current] = "held"
        BY <1>1, <3>1, EventsAssumption DEF AccountInv, HeldIsInFlight, InFlight
      <3> QED
        BY <1>1, <2>1, <2>7, <3>1, <3>2 DEF GovernedPublish, OnlySyncQueueBudget
    <2>8. CASE Unreported
      BY <1>1, <2>1, <2>8
         DEF Unreported, Start, Fetch, LoopExit, StopRequest, StopReturn, StopCancelled,
             resourceVars
    <2>9. CASE Elsewhere
      BY <1>1, <2>9
         DEF Elsewhere, Resources!StartRecovery, Resources!RefuseRecovery,
             Resources!RegisterTask, Resources!UnregisterTask, Resources!Elapse,
             dispatcherVars, vars
    <2>10. CASE UNCHANGED governedVars
      BY <1>1, <2>10 DEF governedVars, resourceVars, dispatcherVars, vars
    <2> QED
      BY <1>1, <2>4, <2>5, <2>6, <2>7, <2>8, <2>9, <2>10 DEF GovernedNext
  <1>2. AccountInv /\ policyInstalled /\ [GovernedNext]_governedVars
           => [pressure = "throttled" => pressure' = "throttled" /\ Silent]_governedVars
    BY <1>1
  <1>3. GovernedInit => policyInstalled
    BY DEF GovernedInit
  <1>4. GovernedSpec => []AccountInv
    BY AccountInit, AccountNext, GovernedImplements, PTL
  <1> QED
    BY <1>2, <1>3, <1>4, PolicyStays, PTL DEF GovernedSpec, ThrottleSilencesOrdinary

-----------------------------------------------------------------------------
(***************************************************************************)
(* What the resource manager promises on its own it promises in this wiring *)
(* too.  One step of the composition is at most one admission, with some    *)
(* queue size, besides the reports of that size.                            *)
(***************************************************************************)
Untouched == UNCHANGED <<policyInstalled, pressure, events, recoveries, activeTasks>>

LEMMA ResourceMoves ==
  ASSUME [GovernedNext]_governedVars
  PROVE  \/ Resources!AcceptEvent(Len(queue)) \/ Resources!RefuseEvent(Len(queue))
         \/ Resources!StartRecovery \/ Resources!RefuseRecovery
         \/ \E t \in Tasks : Resources!RegisterTask(t) \/ Resources!UnregisterTask(t)
         \/ Resources!Elapse
         \/ Untouched
  BY DEF GovernedNext, DispatchOrdinary, DispatchCritical, DispatchIgnored, GovernedPublish,
         OnlySyncQueueBudget, Unreported, Elsewhere, governedVars, resourceVars, Untouched

LEMMA SameCardinality == \A S : Resources!Cardinality(S) = Cardinality(S)
  BY DEF Resources!Cardinality, Cardinality

(***************************************************************************)
(* The task budget is kept while events compete with tasks for admission.   *)
(***************************************************************************)
THEOREM GovernedTaskBudget == GovernedSpec => []Resources!TaskBudgetKept
  <1> DEFINE Budget == IsFiniteSet(activeTasks) /\ Resources!TaskBudgetKept
  <1>1. GovernedInit => Budget
    BY WindowsAssumption, FS_EmptySet, SameCardinality
       DEF GovernedInit, Resources!TaskBudgetKept
  <1>2. ASSUME Budget, [GovernedNext]_governedVars
        PROVE  Budget'
    <2>1. MaxTasks \in Nat /\ Cardinality(activeTasks) \in Nat
      BY <1>2, WindowsAssumption, FS_CardinalityType
    <2>2. ASSUME NEW t \in Tasks, Resources!RegisterTask(t)
          PROVE  Budget'
      <3>1. activeTasks' = activeTasks \cup {t} /\ Cardinality(activeTasks) < MaxTasks
        BY <2>1, <2>2, SameCardinality, WindowsAssumption
           DEF Resources!RegisterTask, Resources!TasksExceeded
      <3>2. /\ IsFiniteSet(activeTasks')
            /\ Cardinality(activeTasks') <= Cardinality(activeTasks) + 1
            /\ Cardinality(activeTasks') \in Nat
        BY <1>2, <3>1, FS_AddElement, FS_CardinalityType
      <3> QED
        BY <2>1, <3>1, <3>2, SameCardinality DEF Resources!TaskBudgetKept
    <2>3. CASE activeTasks' \subseteq activeTasks
      <3>1. /\ IsFiniteSet(activeTasks')
            /\ Cardinality(activeTasks') <= Cardinality(activeTasks)
            /\ Cardinality(activeTasks') \in Nat
        BY <1>2, <2>3, FS_Subset, FS_CardinalityType
      <3> QED
        BY <1>2, <2>1, <3>1, SameCardinality DEF Resources!TaskBudgetKept
    <2> QED
      BY <1>2, <2>2, <2>3, ResourceMoves
         DEF Resources!AcceptEvent, Resources!RefuseEvent, Resources!ThrottleEvent,
             Resources!DenyEvent, Resources!StartRecovery, Resources!RefuseRecovery,
             Resources!UnregisterTask, Resources!Elapse, Untouched
  <1> QED
    BY <1>1, <1>2, PTL DEF GovernedSpec

(***************************************************************************)
(* Throttling is for good in the wiring, and closes it to tasks as well.    *)
(***************************************************************************)
THEOREM GovernedThrottling ==
  GovernedSpec => Resources!ThrottlingIsForGood /\ Resources!ThrottledAdmitsNothing
  <1> DEFINE Closed == events' <= events /\ activeTasks' \subseteq activeTasks
  <1>1. ASSUME Resources!TypeOK, [GovernedNext]_governedVars,
               policyInstalled, pressure = "throttled"
        PROVE  pressure' = "throttled" /\ Closed
    <2>1. events \in Nat
      BY <1>1, WindowsAssumption DEF Resources!TypeOK
    <2>2. \A t \in Tasks : ~Resources!RegisterTask(t)
      BY <1>1 DEF Resources!RegisterTask, Resources!PolicyAllows
    <2>3. ~Resources!AcceptEvent(Len(queue))
      BY <1>1, ThrottledRefuses
    <2>4. CASE \/ Resources!RefuseEvent(Len(queue))
               \/ Resources!StartRecovery \/ Resources!RefuseRecovery
      <3>1. pressure' = "throttled" /\ events' = events /\ activeTasks' = activeTasks
        BY <1>1, <2>4
           DEF Resources!RefuseEvent, Resources!ThrottleEvent, Resources!DenyEvent,
               Resources!StartRecovery, Resources!RefuseRecovery
      <3> QED
        BY <2>1, <3>1
    <2>5. CASE Resources!Elapse \/ \E t \in Tasks : Resources!UnregisterTask(t)
      <3>1. /\ pressure' = pressure
            /\ events' = events \/ events' \in 0..events
            /\ activeTasks' \subseteq activeTasks
        BY <2>5 DEF Resources!Elapse, Resources!UnregisterTask
      <3> QED
        BY <1>1, <2>1, <3>1
    <2>6. CASE Untouched
      BY <1>1, <2>1, <2>6 DEF Untouched
    <2> QED
      BY <1>1, <2>2, <2>3, <2>4, <2>5, <2>6, ResourceMoves
  <1>2. Resources!TypeOK /\ [GovernedNext]_governedVars
          => /\ [policyInstalled /\ pressure = "throttled"
                    => pressure' = "throttled"]_(Resources!vars)
             /\ [policyInstalled /\ pressure = "throttled" => Closed]_(Resources!vars)
    BY <1>1
  <1> QED
    BY <1>2, GovernedTypeCorrect, PTL
       DEF GovernedSpec, Resources!ThrottlingIsForGood, Resources!ThrottledAdmitsNothing

(***************************************************************************)
(* A dispatcher whose queue is full is refused without being throttled:     *)
(* only an exhausted window of events or recoveries throttles the runtime.  *)
(***************************************************************************)
THEOREM GovernedRates == GovernedSpec => Resources!OnlyRatesThrottle
  <1> DEFINE Exhausted == events = MaxEvents \/ recoveries = MaxRecoveries
  <1>1. ASSUME Resources!TypeOK, [GovernedNext]_governedVars, policyInstalled,
               pressure # "throttled", pressure' = "throttled"
        PROVE  Exhausted
    <2>1. /\ events \in 0..MaxEvents /\ MaxEvents \in Nat
          /\ recoveries \in 0..MaxRecoveries /\ MaxRecoveries \in Nat
      BY <1>1, WindowsAssumption DEF Resources!TypeOK
    <2>2. CASE Resources!ThrottleEvent(Len(queue))
      <3>1. ~Resources!Overloaded(Len(queue)) /\ ~Resources!TasksExceeded
        BY <1>1, <2>2 DEF Resources!ThrottleEvent, Resources!EventAllowed, Resources!PolicyAllows
      <3>2. events >= MaxEvents
        BY <2>2, <3>1 DEF Resources!ThrottleEvent, Resources!WindowClosed
      <3> QED
        BY <2>1, <3>2
    <2>3. CASE Resources!RefuseRecovery
      BY <2>1, <2>3 DEF Resources!RefuseRecovery
    <2>4. ~Resources!AcceptEvent(Len(queue)) /\ ~Resources!DenyEvent(Len(queue))
      BY <1>1 DEF Resources!AcceptEvent, Resources!DenyEvent
    <2>5. ~Resources!StartRecovery
      BY <1>1 DEF Resources!StartRecovery
    <2>6. ~UNCHANGED pressure
      BY <1>1
    <2> QED
      BY <1>1, <2>2, <2>3, <2>4, <2>5, <2>6, ResourceMoves
         DEF Resources!RefuseEvent, Resources!RegisterTask, Resources!UnregisterTask,
             Resources!Elapse, Untouched
  <1>2. Resources!TypeOK /\ [GovernedNext]_governedVars
          => [(policyInstalled /\ pressure # "throttled" /\ pressure' = "throttled")
                => Exhausted]_(Resources!vars)
    BY <1>1
  <1> QED
    BY <1>2, GovernedTypeCorrect, PTL
       DEF GovernedSpec, Resources!OnlyRatesThrottle

(***************************************************************************)
(* The size the queue budget remembers never understates the queue.         *)
(***************************************************************************)
THEOREM BudgetIsPrudent == GovernedSpec => []BudgetCoversQueue
  <1>1. GovernedInit => BudgetCoversQueue
    BY DEF GovernedInit, Init, BudgetCoversQueue
  <1>2. ASSUME BudgetCoversQueue, Resources!TypeOK, BoundsInv, BoundsInv', [GovernedNext]_governedVars
        PROVE  BudgetCoversQueue'
    <2>1. /\ queue \in Seq(Events) /\ queue' \in Seq(Events) /\ queueSize \in Nat
          /\ Len(queue) \in Nat /\ Len(queue') \in Nat
      BY <1>2, MaxSizeAssumption, LenProperties DEF BoundsInv, TypeOK, Resources!TypeOK
    <2>2. CASE queueSize' = Len(queue')
      BY <2>1, <2>2 DEF BudgetCoversQueue
    <2>3. CASE queueSize' = queueSize /\ Len(queue') <= Len(queue)
      BY <1>2, <2>1, <2>3 DEF BudgetCoversQueue
    <2>4. CASE \/ \E e \in Ordinary : DispatchOrdinary(e)
               \/ \E e \in Critical : DispatchCritical(e)
               \/ GovernedPublish
      BY <2>2, <2>4
         DEF DispatchOrdinary, DispatchCritical, GovernedPublish, OnlySyncQueueBudget,
             SyncQueueBudget
    <2>5. CASE \E e \in Events : DispatchIgnored(e)
      <3>1. queueSize' = queueSize /\ queue' = queue
        BY <2>5
           DEF DispatchIgnored, resourceVars, Offer, Ignore, Refuse, Drop, Enqueue, Preserve
      <3> QED
        BY <2>1, <2>3, <3>1
    <2>6. CASE Unreported
      <3>1. queueSize' = queueSize
        BY <2>6 DEF Unreported, resourceVars
      <3>2. CASE Fetch
        <4>1. queue # <<>> /\ queue' = Tail(queue)
          BY <3>2 DEF Fetch
        <4>2. Len(queue') = Len(queue) - 1
          BY <2>1, <4>1, HeadTailProperties
        <4> QED
          BY <2>1, <2>3, <3>1, <4>2
      <3>3. CASE Start \/ LoopExit \/ StopRequest \/ StopReturn \/ StopCancelled
        BY <2>1, <2>3, <3>1, <3>3
           DEF Start, LoopExit, StopRequest, StopReturn, StopCancelled, Stopped
      <3> QED
        BY <2>6, <3>2, <3>3 DEF Unreported
    <2>7. CASE Elsewhere
      BY <2>1, <2>3, <2>7
         DEF Elsewhere, dispatcherVars, vars, Resources!StartRecovery,
             Resources!RefuseRecovery, Resources!RegisterTask, Resources!UnregisterTask,
             Resources!Elapse
    <2>8. CASE UNCHANGED governedVars
      BY <2>1, <2>3, <2>8 DEF governedVars, dispatcherVars, resourceVars, vars
    <2> QED
      BY <1>2, <2>4, <2>5, <2>6, <2>7, <2>8 DEF GovernedNext
  <1>3. GovernedSpec => []Resources!TypeOK
    BY GovernedTypeCorrect, PTL
  <1> QED
    BY <1>1, <1>2, <1>3, BoundsInit, BoundsNext, GovernedStart, GovernedStep, PTL
       DEF GovernedSpec
=============================================================================
