--------------------------- MODULE LifecycleManager ---------------------------
(***************************************************************************)
(* Startup, rollback and shutdown of the runtime                            *)
(* (src/runtime/lifecycle_manager.py) over the event dispatcher it starts,  *)
(* announces through and stops.                                             *)
(*                                                                         *)
(* startup() and shutdown() run under one asyncio lock, so at most one call *)
(* is in progress and phase tells how far it is.  Steps may suspend, and so *)
(* each step is an action; what follows the last step up to the next await  *)
(* is one action as well.  lifecycle._started and runtime_state.started are *)
(* always assigned together and are one variable, up; so are the two        *)
(* shutting-down flags.                                                     *)
(***************************************************************************)
EXTENDS EventDispatcher

CONSTANTS
    StartSteps,       \* number of registered startup steps
    StopSteps,        \* number of registered shutdown steps
    CriticalStarts,   \* startup steps registered with critical=True
    CriticalStops,    \* shutdown steps registered with critical=True
    TearsDown,        \* which startup steps' resources a shutdown step releases
    StartedEvent,     \* the RuntimeStartedEvent
    ShutdownEvent,    \* the RuntimeShutdownEvent
    MaxStartups       \* bound on the number of startup() calls that get to run

ASSUME LifecycleAssumption ==
    /\ StartSteps \in Nat \ {0}
    /\ StopSteps \in Nat \ {0}
    /\ CriticalStarts \subseteq 1..StartSteps
    /\ CriticalStops \subseteq 1..StopSteps
    /\ TearsDown \in [1..StopSteps -> SUBSET (1..StartSteps)]
    /\ StartedEvent \in Ordinary
    /\ ShutdownEvent \in Critical
    /\ MaxStartups \in Nat

VARIABLES
    failFast,      \* failure_mode = "fail_fast"
    up,            \* _started and runtime_state.started
    shuttingDown,  \* _shutting_down and runtime_state.shutting_down
    phase,         \* what the holder of the lock is doing
    step,          \* the step it is at
    live,          \* how many unreleased runs of each startup handler there are
    startups,      \* startup() calls that ran their steps (bounded)
    completed,     \* history: shutdown() has returned normally
    brokenOff      \* history: the last call ended in mid-work

lifecycleVars == <<failFast, up, shuttingDown, phase, step, live, startups,
                   completed, brokenOff>>
dispatcherVars == vars
runtimeVars == <<dispatcherVars, lifecycleVars>>

Phases == {"idle", "starting", "rollingBack", "stoppingAfterRollback",
           "stopping", "draining"}

LifecycleTypeOK ==
    /\ TypeOK
    /\ failFast \in BOOLEAN
    /\ up \in BOOLEAN
    /\ shuttingDown \in BOOLEAN
    /\ phase \in Phases
    /\ step \in 0..StartSteps + StopSteps
    /\ live \in [1..StartSteps -> 0..2 * MaxStartups]
    /\ startups \in 0..MaxStartups
    /\ completed \in BOOLEAN
    /\ brokenOff \in BOOLEAN

RuntimeInit ==
    /\ Init
    /\ failFast \in BOOLEAN
    /\ up = FALSE
    /\ shuttingDown = FALSE
    /\ phase = "idle"
    /\ step = 0
    /\ live = [s \in 1..StartSteps |-> 0]
    /\ startups = 0
    /\ completed = FALSE
    /\ brokenOff = FALSE

-----------------------------------------------------------------------------
\* Mutated form of EnsureDispatcher: the dispatcher is not started.
DispatcherNotStarted == UNCHANGED dispatcherVars

(***************************************************************************)
(* dispatcher.start() when the dispatcher is not started; it does not       *)
(* suspend, so the caller goes on in the same step.                         *)
(***************************************************************************)
EnsureDispatcher == IF started THEN UNCHANGED dispatcherVars ELSE Start

\* Mutated form of StartupCall: the shutting-down flag is not consulted.
StartupCallAnyTime ==
    /\ phase = "idle"
    /\ ~up
    /\ startups < MaxStartups
    /\ startups' = startups + 1
    /\ brokenOff' = FALSE
    /\ phase' = "starting"
    /\ step' = 1
    /\ shuttingDown' = FALSE
    /\ EnsureDispatcher
    /\ UNCHANGED <<failFast, up, live, completed>>

(***************************************************************************)
(* startup() from the lock to its first step.  It returns at once when the  *)
(* runtime is up and raises when a shutdown was ever begun.                 *)
(***************************************************************************)
StartupCall ==
    /\ phase = "idle"
    /\ ~up /\ ~shuttingDown
    /\ startups < MaxStartups
    /\ startups' = startups + 1
    /\ brokenOff' = FALSE
    /\ phase' = "starting"
    /\ step' = 1
    /\ EnsureDispatcher
    /\ UNCHANGED <<failFast, up, shuttingDown, live, completed>>

(***************************************************************************)
(* A startup step returns, or fails and is not important enough to stop     *)
(* the startup; either way its name joins completed_steps.                  *)
(***************************************************************************)
StartStep(ok) ==
    /\ phase = "starting"
    /\ step <= StartSteps
    /\ ok \/ (step \notin CriticalStarts /\ ~failFast)
    /\ step' = step + 1
    /\ live' = IF ok THEN [live EXCEPT ![step] = @ + 1] ELSE live
    /\ UNCHANGED <<dispatcherVars, failFast, up, shuttingDown, phase, startups,
                   completed, brokenOff>>

(***************************************************************************)
(* A startup step raises: roll back the completed steps, last one first.    *)
(***************************************************************************)
StartStepRaises ==
    /\ phase = "starting"
    /\ step <= StartSteps
    /\ step \in CriticalStarts \/ failFast
    /\ phase' = "rollingBack"
    /\ step' = step - 1
    /\ UNCHANGED <<dispatcherVars, failFast, up, shuttingDown, live, startups,
                   completed, brokenOff>>

(***************************************************************************)
(* After the last step: validate the services.  In fail-fast mode invalid   *)
(* services make startup() raise, without a rollback; otherwise the runtime *)
(* is up and RuntimeStartedEvent is dispatched.                             *)
(***************************************************************************)
StartupRejected ==
    /\ phase = "starting"
    /\ step > StartSteps
    /\ failFast
    /\ phase' = "idle"
    /\ step' = 0
    /\ brokenOff' = TRUE
    /\ UNCHANGED <<dispatcherVars, failFast, up, shuttingDown, live, startups,
                   completed>>

StartupComplete ==
    /\ phase = "starting"
    /\ step > StartSteps
    /\ up' = TRUE
    /\ phase' = "idle"
    /\ step' = 0
    /\ Dispatch(StartedEvent)
    /\ UNCHANGED <<failFast, shuttingDown, live, startups, completed,
                   brokenOff>>

-----------------------------------------------------------------------------
(***************************************************************************)
(* _rollback_startup(): _run_step(step, phase="shutdown") calls the handler *)
(* of the startup step once more; its failure is logged.                    *)
(***************************************************************************)
RollbackStep(ok) ==
    /\ phase = "rollingBack"
    /\ step > 0
    /\ step' = step - 1
    /\ live' = IF ok THEN [live EXCEPT ![step] = @ + 1] ELSE live
    /\ UNCHANGED <<dispatcherVars, failFast, up, shuttingDown, phase, startups,
                   completed, brokenOff>>

\* Mutated form of RollbackStop: the dispatcher is left running.
RollbackWithoutStop ==
    /\ phase = "rollingBack"
    /\ step = 0
    /\ phase' = "idle"
    /\ UNCHANGED <<dispatcherVars, failFast, up, shuttingDown, step, live,
                   startups, completed, brokenOff>>

RollbackStop ==
    /\ phase = "rollingBack"
    /\ step = 0
    /\ StopRequest
    /\ phase' = "stoppingAfterRollback"
    /\ UNCHANGED <<failFast, up, shuttingDown, step, live, startups, completed,
                   brokenOff>>

(***************************************************************************)
(* dispatcher.stop() is over and the rollback ends: startup() raises.       *)
(***************************************************************************)
RollbackComplete ==
    /\ phase = "stoppingAfterRollback"
    /\ up' = FALSE
    /\ phase' = "idle"
    /\ UNCHANGED <<failFast, shuttingDown, step, live, startups, completed,
                   brokenOff>>

-----------------------------------------------------------------------------
(***************************************************************************)
(* shutdown() up to its first step.  It does not ask whether the runtime    *)
(* ever started.                                                            *)
(***************************************************************************)
ShutdownCall ==
    /\ phase = "idle"
    /\ ~shuttingDown
    /\ shuttingDown' = TRUE
    /\ brokenOff' = FALSE
    /\ phase' = "stopping"
    /\ step' = StopSteps
    /\ UNCHANGED <<dispatcherVars, failFast, up, live, startups, completed>>

StopStep(ok) ==
    /\ phase = "stopping"
    /\ step > 0
    /\ ok \/ (step \notin CriticalStops /\ ~failFast)
    /\ step' = step - 1
    /\ live' = [s \in 1..StartSteps |->
                   IF ok /\ s \in TearsDown[step] THEN 0 ELSE live[s]]
    /\ UNCHANGED <<dispatcherVars, failFast, up, shuttingDown, phase, startups,
                   completed, brokenOff>>

(***************************************************************************)
(* A shutdown step raises: shutdown() raises with everything else as it is. *)
(***************************************************************************)
StopStepRaises ==
    /\ phase = "stopping"
    /\ step > 0
    /\ step \in CriticalStops \/ failFast
    /\ phase' = "idle"
    /\ step' = 0
    /\ brokenOff' = TRUE
    /\ UNCHANGED <<dispatcherVars, failFast, up, shuttingDown, live, startups,
                   completed>>

\* Mutated form of AnnounceShutdown: the dispatcher is stopped, nothing announced.
StopUnannounced ==
    /\ phase = "stopping"
    /\ step = 0
    /\ started
    /\ StopRequest
    /\ up' = FALSE
    /\ phase' = "draining"
    /\ UNCHANGED <<failFast, shuttingDown, step, live, startups, completed,
                   brokenOff>>

(***************************************************************************)
(* After the last shutdown step and up to the await inside dispatcher.stop: *)
(* the flags are cleared, the dispatcher is started if it is not, the       *)
(* RuntimeShutdownEvent is dispatched and the stop is requested.            *)
(***************************************************************************)
AnnounceShutdown ==
    /\ phase = "stopping"
    /\ step = 0
    /\ up' = FALSE
    /\ phase' = "draining"
    /\ LET held == IF started THEN queue ELSE <<>>
       IN  IF Len(held) < MaxSize
           THEN /\ queue' = Append(held, ShutdownEvent)
                /\ arrived' = Append(arrived, ShutdownEvent)
                /\ UNCHANGED overflow
           ELSE /\ queue' = held
                /\ overflow' = <<ShutdownEvent>> \o overflow
                /\ UNCHANGED arrived
    /\ loop' = IF started THEN loop ELSE "fetching"
    /\ fate' = [fate EXCEPT ![ShutdownEvent] = "held"]
    /\ started' = TRUE
    /\ stopping' = TRUE
    /\ stopRequested' = TRUE
    /\ UNCHANGED <<failFast, current, published, shuttingDown, step, live,
                   startups, completed, brokenOff>>

ShutdownComplete ==
    /\ phase = "draining"
    /\ phase' = "idle"
    /\ completed' = TRUE
    /\ UNCHANGED <<failFast, up, shuttingDown, step, live, startups, brokenOff>>

(***************************************************************************)
(* The task calling startup() or shutdown() is cancelled while it awaits a  *)
(* step, a startup step that is being rolled back included: the             *)
(* CancelledError passes every "except Exception", so nothing is rolled     *)
(* back or stopped and the call ends with everything else as it is.         *)
(***************************************************************************)
StepCancelled ==
    /\ CancelStops
    /\ \/ phase = "starting" /\ step <= StartSteps
       \/ phase \in {"rollingBack", "stopping"} /\ step > 0
    /\ phase' = "idle"
    /\ step' = 0
    /\ brokenOff' = TRUE
    /\ UNCHANGED <<dispatcherVars, failFast, up, shuttingDown, live, startups,
                   completed>>

(***************************************************************************)
(* The two ways dispatcher.stop() ends under either of them: the drain is   *)
(* done, or the caller is cancelled and stop() swallows the cancellation.   *)
(***************************************************************************)
StopEnds == StopReturn /\ (RollbackComplete \/ ShutdownComplete)

StopInterrupted == StopCancelled /\ (RollbackComplete \/ ShutdownComplete)

-----------------------------------------------------------------------------
(***************************************************************************)
(* The dispatcher's own task, and the rest of the runtime dispatching.      *)
(***************************************************************************)
DispatcherRuns == Loop /\ UNCHANGED lifecycleVars

OtherDispatch ==
    /\ \E e \in Events \ {StartedEvent, ShutdownEvent} : Dispatch(e)
    /\ UNCHANGED lifecycleVars

LifecycleProceeds ==
    \/ \E ok \in BOOLEAN : StartStep(ok) \/ RollbackStep(ok) \/ StopStep(ok)
    \/ StartStepRaises \/ StartupRejected \/ StartupComplete
    \/ RollbackStop
    \/ StopStepRaises \/ AnnounceShutdown
    \/ StopEnds

RuntimeNext ==
    \/ StartupCall
    \/ ShutdownCall
    \/ LifecycleProceeds
    \/ StopInterrupted \/ StepCancelled
    \/ DispatcherRuns
    \/ OtherDispatch

(***************************************************************************)
(* Steps return or raise, and asyncio runs the ready tasks.  Nobody is      *)
(* obliged to call startup() or shutdown(), to cancel, or to dispatch.      *)
(***************************************************************************)
RuntimeSpec ==
    /\ RuntimeInit
    /\ [][RuntimeNext]_runtimeVars
    /\ WF_runtimeVars(LifecycleProceeds)
    /\ WF_runtimeVars(DispatcherRuns)

-----------------------------------------------------------------------------
(***************************************************************************)
(* While the runtime is up its dispatcher is started and its loop runs: no  *)
(* event dispatched by a running service is silently ignored.               *)
(***************************************************************************)
UpHasDispatcher == up => started /\ LoopAlive

(***************************************************************************)
(* With no call in progress and the runtime down, no dispatcher is left     *)
(* running: a failed startup is undone and a shutdown goes through, on all  *)
(* paths but the three on which the code drops its work (services rejected  *)
(* in fail-fast mode, a shutdown step that raises, a cancelled step).       *)
(***************************************************************************)
RestsStopped == (phase = "idle" /\ ~up /\ ~brokenOff) => ~started

(***************************************************************************)
(* shutdown() returns only after the bus has seen RuntimeShutdownEvent,     *)
(* full queue or not (unless its caller is cancelled while it drains).      *)
(***************************************************************************)
ShutdownWasAnnounced ==
    completed => fate[ShutdownEvent] \in {"published", "abandoned"}

(***************************************************************************)
(* Subscribers never hear of a shutdown before the start it ends.           *)
(***************************************************************************)
StartBeforeShutdown ==
    \A i, j \in 1..Len(published) :
        (published[i] = ShutdownEvent /\ published[j] = StartedEvent) => j < i

(***************************************************************************)
(* A shutdown is for good: once begun, completed or failed, no later call   *)
(* brings the runtime up again.                                             *)
(***************************************************************************)
ShutdownIsFinal ==
    [][shuttingDown => shuttingDown' /\ (up' => up)]_runtimeVars

(***************************************************************************)
(* Every startup() and shutdown() call ends and releases the lock, the      *)
(* awaits of dispatcher.stop() under the lock included.                     *)
(***************************************************************************)
CallsEnd == phase # "idle" ~> phase = "idle"

(***************************************************************************)
(* _rollback_startup, "Tear down steps that already ran after a startup     *)
(* failure": once a failed startup() has rolled back, no startup handler    *)
(* has been run more often than the one startup called for.                 *)
(***************************************************************************)
RollbackTearsDown ==
    phase = "stoppingAfterRollback" => \A s \in 1..StartSteps : live[s] <= startups
=============================================================================
