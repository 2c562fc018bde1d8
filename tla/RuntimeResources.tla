--------------------------- MODULE RuntimeResources ---------------------------
(***************************************************************************)
(* Resource governance of the runtime: src/runtime/resources/ together with *)
(* the "resource_throttled" guardrail of src/policy/guardrails.py, which    *)
(* RuntimeState installs in front of it.                                    *)
(*                                                                         *)
(* The two sliding windows are deques of timestamps that every operation    *)
(* prunes before it counts them, so only the number of unexpired entries    *)
(* matters; Elapse lets any of the oldest entries expire.                   *)
(***************************************************************************)
EXTENDS Naturals, FiniteSets

CONSTANTS Tasks,            \* asyncio tasks that may be registered
          MaxTasks,         \* max_runtime_tasks
          MaxQueue,         \* the dispatcher queue's maxsize
          MaxEvents,        \* max_events_per_window
          MaxRecoveries     \* max_recovery_attempts_per_window

ASSUME LimitsAssumption ==
    /\ MaxTasks \in Nat
    /\ MaxQueue \in Nat \ {0}
    /\ MaxEvents \in Nat
    /\ MaxRecoveries \in Nat

VARIABLES
    policyInstalled,  \* _policy_engine is set
    pressure,     \* BackpressureController._state
    events,       \* entries of _events inside the window
    recoveries,   \* entries of _recoveries inside the window
    queueSize,    \* QueueBudget._current_size
    activeTasks   \* TaskBudget._active

vars == <<policyInstalled, pressure, events, recoveries, queueSize, activeTasks>>

Pressures == {"healthy", "warning", "throttled"}

TypeOK ==
    /\ policyInstalled \in BOOLEAN
    /\ pressure \in Pressures
    /\ events \in 0..MaxEvents
    /\ recoveries \in 0..MaxRecoveries
    /\ queueSize \in 0..MaxQueue
    /\ activeTasks \subseteq Tasks

Init ==
    /\ policyInstalled = FALSE
    /\ pressure = "healthy"
    /\ events = 0
    /\ recoveries = 0
    /\ queueSize = 0
    /\ activeTasks = {}

-----------------------------------------------------------------------------
(***************************************************************************)
(* set_policy_engine(): a RuntimeState does it while it is constructed; a   *)
(* resource manager used on its own may never get one.                      *)
(***************************************************************************)
InstallPolicy ==
    /\ ~policyInstalled
    /\ policyInstalled' = TRUE
    /\ UNCHANGED <<pressure, events, recoveries, queueSize, activeTasks>>

TasksExceeded == Cardinality(activeTasks) >= MaxTasks

Overloaded(size) == size >= MaxQueue

\* Mutated form of PolicyAllows: the guardrail looks at the budgets only.
PolicyIgnoresPressure(exhausted) == ~policyInstalled \/ ~exhausted

\* Mutated form of PolicyAllows: the guardrail looks at the pressure only.
PolicyIgnoresBudgets(exhausted) == ~policyInstalled \/ pressure # "throttled"

(***************************************************************************)
(* resource_throttled_guardrail: deny when the asked-for budget is          *)
(* exhausted, and deny while the backpressure state is throttled.           *)
(***************************************************************************)
PolicyAllows(exhausted) ==
    ~policyInstalled \/ (~exhausted /\ pressure # "throttled")

(***************************************************************************)
(* can_accept_event(), with size the queue size the queue budget holds: the *)
(* event is counted, or the controller throttles, or the policy denies and  *)
(* the controller is not asked.                                             *)
(***************************************************************************)
EventAllowed(size) == PolicyAllows(Overloaded(size) \/ TasksExceeded)

WindowClosed(size) == events >= MaxEvents \/ Overloaded(size) \/ TasksExceeded

\* Mutated form of AcceptEvent: an admission does not end throttling.
AcceptEventThrottled(size) ==
    /\ EventAllowed(size)
    /\ ~WindowClosed(size)
    /\ events' = events + 1
    /\ pressure' = IF pressure = "throttled" THEN "throttled" ELSE "healthy"
    /\ UNCHANGED <<policyInstalled, recoveries, activeTasks>>

AcceptEvent(size) ==
    /\ EventAllowed(size)
    /\ ~WindowClosed(size)
    /\ events' = events + 1
    /\ pressure' = IF 5 * size >= 4 * MaxQueue THEN "warning" ELSE "healthy"
    /\ UNCHANGED <<policyInstalled, recoveries, activeTasks>>

ThrottleEvent(size) ==
    /\ EventAllowed(size)
    /\ WindowClosed(size)
    /\ pressure' = "throttled"
    /\ UNCHANGED <<policyInstalled, events, recoveries, activeTasks>>

DenyEvent(size) ==
    /\ ~EventAllowed(size)
    /\ UNCHANGED <<policyInstalled, pressure, events, recoveries, activeTasks>>

RefuseEvent(size) == ThrottleEvent(size) \/ DenyEvent(size)

OfferEvent == UNCHANGED queueSize /\ (AcceptEvent(queueSize) \/ RefuseEvent(queueSize))

\* Mutated form of StartRecovery: the window limit is not checked.
StartRecoveryUnbounded ==
    /\ recoveries' = recoveries + 1
    /\ UNCHANGED <<policyInstalled, pressure, events, queueSize, activeTasks>>

(***************************************************************************)
(* can_start_recovery(): a full window throttles the whole runtime; a       *)
(* counted recovery sets the state unless it is throttled.                  *)
(***************************************************************************)
StartRecovery ==
    /\ recoveries < MaxRecoveries
    /\ recoveries' = recoveries + 1
    /\ pressure' = IF pressure = "throttled" THEN "throttled"
                   ELSE IF recoveries + 2 >= MaxRecoveries THEN "warning"
                   ELSE "healthy"
    /\ UNCHANGED <<policyInstalled, events, queueSize, activeTasks>>

RefuseRecovery ==
    /\ recoveries >= MaxRecoveries
    /\ pressure' = "throttled"
    /\ UNCHANGED <<policyInstalled, events, recoveries, queueSize, activeTasks>>

(***************************************************************************)
(* register_task(t), when it is accepted (a refusal changes nothing), and   *)
(* unregister_task(t), which ignores a task it does not know.               *)
(***************************************************************************)
RegisterTask(t) ==
    /\ PolicyAllows(TasksExceeded)
    /\ ~TasksExceeded
    /\ activeTasks' = activeTasks \cup {t}
    /\ UNCHANGED <<policyInstalled, pressure, events, recoveries, queueSize>>

UnregisterTask(t) ==
    /\ activeTasks' = activeTasks \ {t}
    /\ UNCHANGED <<policyInstalled, pressure, events, recoveries, queueSize>>

(***************************************************************************)
(* update_queue_size(n, maxsize), called by the dispatcher.                 *)
(***************************************************************************)
UpdateQueueSize(n) ==
    /\ queueSize' = n
    /\ UNCHANGED <<policyInstalled, pressure, events, recoveries, activeTasks>>

(***************************************************************************)
(* Time passes: some of the oldest entries leave the windows.               *)
(***************************************************************************)
Elapse ==
    /\ events' \in 0..events
    /\ recoveries' \in 0..recoveries
    /\ UNCHANGED <<policyInstalled, pressure, queueSize, activeTasks>>

Next ==
    \/ InstallPolicy
    \/ OfferEvent
    \/ StartRecovery
    \/ RefuseRecovery
    \/ \E t \in Tasks : RegisterTask(t) \/ UnregisterTask(t)
    \/ \E n \in 0..MaxQueue : UpdateQueueSize(n)
    \/ Elapse

Spec == Init /\ [][Next]_vars

(***************************************************************************)
(* The runtime is calm: no window, queue or task budget is exhausted.  The  *)
(* fair specification keeps offering events, at calm moments too.           *)
(***************************************************************************)
Calm == ~WindowClosed(queueSize)

OfferingSpec == Spec /\ SF_vars(Calm /\ OfferEvent)

-----------------------------------------------------------------------------
(***************************************************************************)
(* The task budget is never exceeded, whatever the order of registrations   *)
(* and completions.                                                         *)
(***************************************************************************)
TaskBudgetKept == Cardinality(activeTasks) <= MaxTasks

(***************************************************************************)
(* Without the policy engine throttling is temporary: a runtime that calms  *)
(* down again and again admits events again.                                *)
(***************************************************************************)
ThrottlingEnds ==
    []<>Calm => (pressure = "throttled" ~> (pressure # "throttled" \/ policyInstalled))

(***************************************************************************)
(* With the policy engine RuntimeState installs, throttling is for good:    *)
(* the guardrail denies because the state is throttled, so the call that    *)
(* would reset the state is never made, and a recovery never resets it.     *)
(***************************************************************************)
ThrottlingIsForGood ==
    [][policyInstalled /\ pressure = "throttled" => pressure' = "throttled"]_vars

(***************************************************************************)
(* With the policy engine a full queue or task budget alone never throttles *)
(* (the guardrail denies before the controller sees it): only an exhausted  *)
(* window of events or recoveries does.                                     *)
(***************************************************************************)
OnlyRatesThrottle ==
    [][(policyInstalled /\ pressure # "throttled" /\ pressure' = "throttled")
          => (events = MaxEvents \/ recoveries = MaxRecoveries)]_vars

(***************************************************************************)
(* Once throttled under the policy engine nothing is admitted any more:     *)
(* no event is counted and no task is registered, at any later time.        *)
(***************************************************************************)
ThrottledAdmitsNothing ==
    [][policyInstalled /\ pressure = "throttled" =>
          /\ events' <= events
          /\ activeTasks' \subseteq activeTasks]_vars
=============================================================================
