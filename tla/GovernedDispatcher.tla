-------------------------- MODULE GovernedDispatcher --------------------------
(***************************************************************************)
(* The dispatcher under the resource manager, as RuntimeState wires them    *)
(* (src/runtime/runtime_state.py): dispatch() first reports the queue size  *)
(* to the queue budget, then asks can_accept_event() for an ordinary event, *)
(* and the process loop reports the size again after each publish.  Tasks   *)
(* and recoveries press on the same resource manager.                       *)
(***************************************************************************)
EXTENDS EventDispatcher

CONSTANTS Tasks, MaxTasks, MaxEvents, MaxRecoveries

ASSUME WindowsAssumption == MaxTasks \in Nat /\ MaxEvents \in Nat /\ MaxRecoveries \in Nat

VARIABLES policyInstalled, pressure, events, recoveries, queueSize, activeTasks

Resources == INSTANCE RuntimeResources WITH MaxQueue <- MaxSize

dispatcherVars == vars
resourceVars == <<policyInstalled, pressure, events, recoveries, queueSize, activeTasks>>
governedVars == <<dispatcherVars, resourceVars>>

(***************************************************************************)
(* RuntimeState installs the policy engine before anything runs.            *)
(***************************************************************************)
GovernedInit ==
    /\ Init
    /\ policyInstalled = TRUE
    /\ pressure = "healthy"
    /\ events = 0
    /\ recoveries = 0
    /\ queueSize = 0
    /\ activeTasks = {}

-----------------------------------------------------------------------------
SyncQueueBudget == queueSize' = Len(queue')

OnlySyncQueueBudget ==
    SyncQueueBudget /\ UNCHANGED <<policyInstalled, pressure, events, recoveries, activeTasks>>

\* Mutated form of DispatchOrdinary: the size known to the budget is not refreshed.
DispatchOrdinaryStale(e) ==
    /\ started
    /\ \/ Resources!AcceptEvent(queueSize) /\ Offer(e, TRUE)
       \/ Resources!RefuseEvent(queueSize) /\ Offer(e, FALSE)
    /\ UNCHANGED queueSize

(***************************************************************************)
(* dispatch(e) of an ordinary event: sync, admission, put, sync.            *)
(***************************************************************************)
DispatchOrdinary(e) ==
    /\ started
    /\ \/ Resources!AcceptEvent(Len(queue)) /\ Offer(e, TRUE)
       \/ Resources!RefuseEvent(Len(queue)) /\ Offer(e, FALSE)
    /\ SyncQueueBudget

\* Mutated form of DispatchCritical: shutdown events ask for admission too.
DispatchCriticalGoverned(e) ==
    /\ started
    /\ Resources!AcceptEvent(Len(queue))
    /\ Offer(e, TRUE)
    /\ SyncQueueBudget

DispatchCritical(e) ==
    /\ started
    /\ Offer(e, TRUE)
    /\ OnlySyncQueueBudget

DispatchIgnored(e) ==
    /\ ~started
    /\ Offer(e, TRUE)
    /\ UNCHANGED resourceVars

GovernedPublish == Publish /\ OnlySyncQueueBudget

(***************************************************************************)
(* Everything else the dispatcher does, fetching included, leaves the       *)
(* resource manager alone; the rest of the runtime works on it freely.      *)
(***************************************************************************)
Unreported ==
    /\ Start \/ Fetch \/ LoopExit \/ StopRequest \/ StopReturn \/ StopCancelled
    /\ UNCHANGED resourceVars

Elsewhere ==
    /\ \/ Resources!StartRecovery
       \/ Resources!RefuseRecovery
       \/ \E t \in Tasks : Resources!RegisterTask(t) \/ Resources!UnregisterTask(t)
       \/ Resources!Elapse
    /\ UNCHANGED dispatcherVars

GovernedNext ==
    \/ \E e \in Ordinary : DispatchOrdinary(e)
    \/ \E e \in Critical : DispatchCritical(e)
    \/ \E e \in Events : DispatchIgnored(e)
    \/ GovernedPublish
    \/ Unreported
    \/ Elsewhere

(***************************************************************************)
(* asyncio runs every ready task; a started runtime that has a shutdown     *)
(* event to send does send it (LifecycleManager.shutdown dispatches it      *)
(* whatever the pressure).                                                  *)
(***************************************************************************)
GovernedFairness ==
    /\ WF_governedVars(GovernedPublish)
    /\ WF_governedVars((Fetch \/ LoopExit \/ StopReturn) /\ UNCHANGED resourceVars)
    /\ \A e \in Critical : WF_governedVars(DispatchCritical(e))

GovernedSpec == GovernedInit /\ [][GovernedNext]_governedVars /\ GovernedFairness

-----------------------------------------------------------------------------
(***************************************************************************)
(* The queue never refuses an event the resource manager admitted: dispatch *)
(* reports the real size before it asks, so a full queue is denied by       *)
(* admission and the QueueFull branch serves critical events only.          *)
(***************************************************************************)
AdmittedFits == \A e \in Ordinary : fate[e] # "dropped"

(***************************************************************************)
(* A critical event gets through a runtime that is throttled for good, as   *)
(* long as the dispatcher is not stopped first: the latch of the policy     *)
(* guardrail never silences a shutdown announcement.                        *)
(***************************************************************************)
ShutdownPassesThrottle ==
    \A e \in Critical :
        (fate[e] = "new" /\ started /\ pressure = "throttled")
            ~> (fate[e] \in {"published", "late"} \/ ~started)

(***************************************************************************)
(* Throttling silences the bus for good, except for shutdowns: from then on *)
(* no ordinary event is taken charge of, whoever dispatches it and however  *)
(* calm the runtime has become.                                             *)
(***************************************************************************)
ThrottleSilencesOrdinary ==
    [][pressure = "throttled" =>
          /\ pressure' = "throttled"
          /\ \A e \in Ordinary : fate[e] = "new" => fate'[e] \in {"new", "ignored", "refused"}
      ]_governedVars

(***************************************************************************)
(* The queue budget is stale in one direction only: what it remembers is at *)
(* least what is queued (the loop fetches without reporting), so whoever    *)
(* asks it between two reports is refused too early but never let in late.  *)
(***************************************************************************)
BudgetCoversQueue == Len(queue) <= queueSize
=============================================================================
