-------------------------- MODULE RuntimeSupervisor --------------------------
(***************************************************************************)
(* Supervision of background services: the health monitor, the watchdog,    *)
(* the recovery manager, the task registry and the supervised loop itself   *)
(* (src/runtime/), wired as in the lifespan of src/api/main.py.             *)
(*                                                                         *)
(* Everything but the to_thread operations runs on the event loop; a        *)
(* segment between two awaits is one action.  Time is counted in ticks of   *)
(* ten seconds.  handle_failure() and its callback do not suspend in this   *)
(* wiring, so the recovery-in-progress flag is never seen set.              *)
(***************************************************************************)
EXTENDS Naturals, Sequences, FiniteSets

CONSTANTS
    Services,        \* services registered with the health monitor
    Mute,            \* those without a loop, a heartbeat and a restart callback
    Period,          \* interval_seconds of each loop
    Timeout,         \* heartbeat_timeout_seconds of the watchdog
    WatchInterval,   \* interval_seconds of the watchdog
    Threshold,       \* unhealthy_threshold of the health monitor
    MaxAttempts,     \* max_attempts of the restart callbacks
    MaxRecoveries,   \* max_recovery_attempts_per_window
    Window,          \* window_seconds
    MaxTasks,        \* max_runtime_tasks
    OtherTasks,      \* tasks other parts of the program have registered
    MaxCrashes,      \* bound on loops that die of an unexpected exception
    EventFloods,     \* other parts of the program may exhaust the event window
    PromptThreads,   \* to_thread operations take less than a tick
    MaxGap           \* bound of the check-age counter

ASSUME SupervisorAssumption ==
    /\ IsFiniteSet(Services)
    /\ Mute \subseteq Services
    /\ Period \in [Services -> Nat \ {0}]
    /\ Timeout \in Nat \ {0} /\ WatchInterval \in Nat \ {0}
    /\ Threshold \in Nat \ {0} /\ MaxAttempts \in Nat
    /\ MaxRecoveries \in Nat /\ Window \in Nat \ {0}
    /\ MaxTasks \in Nat /\ OtherTasks \in Nat
    /\ EventFloods \in BOOLEAN /\ PromptThreads \in BOOLEAN
    /\ MaxCrashes \in Nat /\ MaxGap \in Nat

VARIABLES
    health,      \* ServiceHealth of each service
    loop,        \* where the registered task of each service stands
    timer,       \* ticks left of its sleep
    reaping,     \* services with a cancelled task whose done callback is due
    orphans,     \* thread operations whose task was cancelled under them
    watch,       \* where the watchdog's task stands
    watchTimer,  \* ticks left of its sleep
    snapshot,    \* the statuses the running validate_health() works from
    handled,     \* failed_services of the running validate_health()
    todo,        \* services whose handle_failure() is still to run
    recent,      \* ages of the recoveries counted in the window
    throttled,   \* the backpressure state is "throttled"
    runtime,     \* progress of the shutdown steps
    crashes,     \* loops that crashed (bounded)
    checkAge,    \* ticks since the last auto-release check (bounded)
    manager      \* the honeypot manager has been created

loopVars == <<loop, timer, reaping, orphans>>
watchVars == <<watch, watchTimer, snapshot, handled, todo>>
resourceVars == <<recent, throttled>>
vars == <<health, loopVars, watchVars, resourceVars, runtime, crashes, checkAge, manager>>

Statuses == {"healthy", "degraded", "unhealthy"}
Waiting == {"beating", "reporting", "checking", "failing", "crashing"}
LoopStates == {"absent", "sleeping"} \cup Waiting
Health == [status : Statuses, failures : 0..Threshold, attempts : 0..MaxAttempts,
           age : 0..Timeout + 1]

TypeOK ==
    /\ health \in [Services -> Health]
    /\ loop \in [Services -> LoopStates]
    /\ \A s \in Services : timer[s] \in 0..Period[s]
    /\ reaping \subseteq Services
    /\ orphans \in [Services -> SUBSET {"beat", "report", "check"}]
    /\ watch \in {"sleeping", "stale", "dead", "off"}
    /\ watchTimer \in 0..WatchInterval
    /\ snapshot \in [Services -> Statuses]
    /\ handled \subseteq Services
    /\ todo \subseteq Services
    /\ recent \in Seq(0..Window)
    /\ throttled \in BOOLEAN
    /\ runtime \in {"up", "stopping", "down"}
    /\ crashes \in 0..MaxCrashes
    /\ checkAge \in [Services -> 0..MaxGap]
    /\ manager \in BOOLEAN

(***************************************************************************)
(* The runtime has started, the services have registered with the monitor,  *)
(* the loops have gone to sleep, and the watchdog sleeps its first interval;*)
(* there is no honeypot manager yet.                                        *)
(***************************************************************************)
Init ==
    /\ health = [s \in Services |->
                    [status |-> "healthy", failures |-> 0, attempts |-> 0, age |-> 0]]
    /\ loop = [s \in Services |-> IF s \in Mute THEN "absent" ELSE "sleeping"]
    /\ timer = [s \in Services |-> IF s \in Mute THEN 0 ELSE Period[s]]
    /\ reaping = {}
    /\ orphans = [s \in Services |-> {}]
    /\ watch = "sleeping"
    /\ watchTimer = WatchInterval
    /\ snapshot = [s \in Services |-> "healthy"]
    /\ handled = {}
    /\ todo = {}
    /\ recent = <<>>
    /\ throttled = FALSE
    /\ runtime = "up"
    /\ crashes = 0
    /\ checkAge = [s \in Services |-> 0]
    /\ manager = FALSE

AtMost(n, bound) == IF n <= bound THEN n ELSE bound

-----------------------------------------------------------------------------
\* Mutated form of MarkHealthy: the heartbeat is not refreshed.
MarkHealthyNoBeat(h) == [h EXCEPT !.status = "healthy", !.failures = 0, !.attempts = 0]

\* Mutated form of MarkHealthy: the restart attempts are not forgotten.
MarkHealthyKeepsAttempts(h) == [h EXCEPT !.status = "healthy", !.failures = 0, !.age = 0]

\* Mutated form of MarkFailed: one failure too many is tolerated.
MarkFailedLate(h) ==
    LET n == AtMost(h.failures + 1, Threshold)
    IN  [h EXCEPT !.failures = n, !.age = 0,
                  !.status = IF h.failures >= Threshold THEN "unhealthy" ELSE "degraded"]

\* Mutated form of MarkFailed: the failure is not counted.
MarkFailedUncounted(h) ==
    [h EXCEPT !.age = 0, !.status = IF h.failures >= Threshold THEN "unhealthy" ELSE "degraded"]

(***************************************************************************)
(* mark_healthy() and mark_failed() on one ServiceHealth.  Both refresh the *)
(* heartbeat; success also forgets the failures and the restart attempts.   *)
(* Failures beyond the threshold make no difference and are not counted.    *)
(***************************************************************************)
MarkHealthy(h) == [status |-> "healthy", failures |-> 0, attempts |-> 0, age |-> 0]

MarkFailed(h) ==
    LET n == AtMost(h.failures + 1, Threshold)
    IN  [h EXCEPT !.failures = n, !.age = 0,
                  !.status = IF n >= Threshold THEN "unhealthy" ELSE "degraded"]

MarkServicesFailed(S) ==
    health' = [s \in Services |-> IF s \in S THEN MarkFailed(health[s]) ELSE health[s]]

-----------------------------------------------------------------------------
(***************************************************************************)
(* honeypot_auto_release_loop: sleep; without a manager report a failure;   *)
(* with one report healthy first and then check; report a failed check.     *)
(***************************************************************************)
Awake(s) == loop[s] = "sleeping" /\ timer[s] = 0

Become(s, state) ==
    /\ loop' = [loop EXCEPT ![s] = state]
    /\ timer' = [timer EXCEPT ![s] = IF state = "sleeping" THEN Period[s] ELSE 0]
    /\ UNCHANGED <<reaping, orphans>>

(***************************************************************************)
(* The first request that needs it creates the manager, for good.           *)
(***************************************************************************)
CreateManager ==
    /\ ~manager
    /\ manager' = TRUE
    /\ UNCHANGED <<health, loopVars, watchVars, resourceVars, runtime, crashes, checkAge>>

Wake(s) ==
    /\ Awake(s)
    /\ manager
    /\ Become(s, "beating")
    /\ UNCHANGED <<health, watchVars, resourceVars, runtime, crashes, checkAge, manager>>

WakeWithoutManager(s) ==
    /\ Awake(s)
    /\ ~manager
    /\ Become(s, "reporting")
    /\ UNCHANGED <<health, watchVars, resourceVars, runtime, crashes, checkAge, manager>>

(***************************************************************************)
(* An unexpected exception outside the inner try: it is reported and the    *)
(* task ends.                                                               *)
(***************************************************************************)
Crash(s) ==
    /\ crashes < MaxCrashes
    /\ Awake(s)
    /\ crashes' = crashes + 1
    /\ Become(s, "crashing")
    /\ UNCHANGED <<health, watchVars, resourceVars, runtime, checkAge, manager>>

Beat(s) ==
    /\ loop[s] = "beating"
    /\ health' = [health EXCEPT ![s] = MarkHealthy(@)]
    /\ Become(s, "checking")
    /\ UNCHANGED <<watchVars, resourceVars, runtime, crashes, checkAge, manager>>

Check(s, ok) ==
    /\ loop[s] = "checking"
    /\ checkAge' = [checkAge EXCEPT ![s] = 0]
    /\ Become(s, IF ok THEN "sleeping" ELSE "failing")
    /\ UNCHANGED <<health, watchVars, resourceVars, runtime, crashes, manager>>

Report(s) ==
    /\ loop[s] \in {"reporting", "failing"}
    /\ health' = [health EXCEPT ![s] = MarkFailed(@)]
    /\ Become(s, "sleeping")
    /\ UNCHANGED <<watchVars, resourceVars, runtime, crashes, checkAge, manager>>

ReportCrash(s) ==
    /\ loop[s] = "crashing"
    /\ health' = [health EXCEPT ![s] = MarkFailed(@)]
    /\ loop' = [loop EXCEPT ![s] = "absent"]
    /\ reaping' = reaping \cup {s}
    /\ UNCHANGED <<timer, orphans, watchVars, resourceVars, runtime, crashes, checkAge, manager>>

(***************************************************************************)
(* A thread goes on after the task that awaits it was cancelled.            *)
(***************************************************************************)
FinishOrphan(s, op) ==
    /\ op \in orphans[s]
    /\ orphans' = [orphans EXCEPT ![s] = @ \ {op}]
    /\ health' = [health EXCEPT ![s] = CASE op = "beat"   -> MarkHealthy(@)
                                         [] op = "report" -> MarkFailed(@)
                                         [] op = "check"  -> @]
    /\ checkAge' = IF op = "check" THEN [checkAge EXCEPT ![s] = 0] ELSE checkAge
    /\ UNCHANGED <<loop, timer, reaping, watchVars, resourceVars, runtime, crashes, manager>>

(***************************************************************************)
(* An operation still queued in the executor is cancelled with its task.    *)
(***************************************************************************)
DropOrphan(s, op) ==
    /\ op \in orphans[s]
    /\ orphans' = [orphans EXCEPT ![s] = @ \ {op}]
    /\ UNCHANGED <<health, loop, timer, reaping, watchVars, resourceVars, runtime,
                   crashes, checkAge, manager>>

(***************************************************************************)
(* _on_task_done(): the registry and the task budget forget an ended task.  *)
(***************************************************************************)
Reap(s) ==
    /\ s \in reaping
    /\ reaping' = reaping \ {s}
    /\ UNCHANGED <<health, loop, timer, orphans, watchVars, resourceVars, runtime,
                   crashes, checkAge, manager>>

-----------------------------------------------------------------------------
(***************************************************************************)
(* Cancelling a task leaves the thread operation it awaits running.         *)
(***************************************************************************)
Abandoned(s) ==
    CASE loop[s] = "beating" -> {"beat"}
      [] loop[s] = "checking" -> {"check"}
      [] loop[s] \in {"reporting", "failing", "crashing"} -> {"report"}
      [] OTHER -> {}

Cancel(S) ==
    /\ orphans' = [s \in Services |->
                      IF s \in S THEN orphans[s] \cup Abandoned(s) ELSE orphans[s]]
    /\ reaping' = reaping \cup {s \in S : loop[s] # "absent"}

\* Mutated form of MayRegister: the throttled state is not consulted.
MayRegisterThrottled ==
    Cardinality({s \in Services : loop[s] # "absent"}) + Cardinality(reaping) + OtherTasks
        < MaxTasks

(***************************************************************************)
(* register_task() is admitted: the runtime is not throttled and the budget *)
(* has room for one more task.  A task that was cancelled in this very step *)
(* still holds its place.                                                   *)
(***************************************************************************)
MayRegister ==
    /\ ~throttled
    /\ Cardinality({s \in Services : loop[s] # "absent"}) + Cardinality(reaping) + OtherTasks
          < MaxTasks

(***************************************************************************)
(* handle_failure(s), with restart_honeypot_task as its callback: cancel    *)
(* the old task, register a new one; if that is denied the callback raises  *)
(* and the service is marked failed.                                        *)
(***************************************************************************)
GiveUp(s) ==
    /\ health[s].attempts >= MaxAttempts
    /\ UNCHANGED <<health, loopVars, resourceVars>>

Throttle(s) ==
    /\ health[s].attempts < MaxAttempts
    /\ Len(recent) >= MaxRecoveries
    /\ throttled' = TRUE
    /\ UNCHANGED <<health, loopVars, recent>>

\* Mutated form of Restart: the attempt limit is not checked.
RestartUnlimited(s) ==
    /\ Len(recent) < MaxRecoveries
    /\ recent' = Append(recent, 0)
    /\ Cancel({s})
    /\ loop' = [loop EXCEPT ![s] = IF MayRegister THEN "sleeping" ELSE "absent"]
    /\ timer' = [timer EXCEPT ![s] = IF MayRegister THEN Period[s] ELSE 0]
    /\ LET counted == [health[s] EXCEPT !.attempts = @ + 1]
       IN  health' = [health EXCEPT ![s] =
                         IF MayRegister THEN counted ELSE MarkFailed(counted)]
    /\ UNCHANGED throttled

\* Mutated form of Restart: a restarted service counts as healthy.
RestartMarksHealthy(s) ==
    /\ health[s].attempts < MaxAttempts
    /\ Len(recent) < MaxRecoveries
    /\ recent' = Append(recent, 0)
    /\ Cancel({s})
    /\ MayRegister
    /\ loop' = [loop EXCEPT ![s] = "sleeping"]
    /\ timer' = [timer EXCEPT ![s] = Period[s]]
    /\ health' = [health EXCEPT ![s] = MarkHealthy(@)]
    /\ UNCHANGED throttled

Restart(s) ==
    /\ health[s].attempts < MaxAttempts
    /\ Len(recent) < MaxRecoveries
    /\ recent' = Append(recent, 0)
    /\ Cancel({s})
    /\ loop' = [loop EXCEPT ![s] = IF MayRegister THEN "sleeping" ELSE "absent"]
    /\ timer' = [timer EXCEPT ![s] = IF MayRegister THEN Period[s] ELSE 0]
    /\ LET counted == [health[s] EXCEPT !.attempts = @ + 1]
       IN  health' = [health EXCEPT ![s] =
                         IF MayRegister THEN counted ELSE MarkFailed(counted)]
    /\ UNCHANGED throttled

(***************************************************************************)
(* A burst of events elsewhere exhausts the event window: can_accept_event  *)
(* throttles the same resource manager.                                     *)
(***************************************************************************)
EventFlood ==
    /\ EventFloods
    /\ ~throttled
    /\ throttled' = TRUE
    /\ UNCHANGED <<health, loopVars, watchVars, recent, runtime, crashes, checkAge, manager>>

Recover(s) ==
    /\ s \in todo
    /\ todo' = todo \ {s}
    /\ GiveUp(s) \/ Throttle(s) \/ Restart(s)
    /\ UNCHANGED <<watch, watchTimer, snapshot, handled, runtime, crashes, checkAge, manager>>

-----------------------------------------------------------------------------
(***************************************************************************)
(* validate_health(): healthy or degraded services whose heartbeat is older *)
(* than the timeout.  An age of exactly Timeout ticks may be a little over. *)
(***************************************************************************)
Status == [s \in Services |-> health[s].status]

Stale(s) == health[s].status # "unhealthy" /\ health[s].age > Timeout
MaybeStale(s) == health[s].status # "unhealthy" /\ health[s].age >= Timeout

StaleSets == {S \in SUBSET {s \in Services : MaybeStale(s)} :
                 \A s \in Services : Stale(s) => s \in S}

(***************************************************************************)
(* The sets of services the scan for dead tasks may find: those with a      *)
(* restart callback whose task is gone, by the statuses of the snapshot     *)
(* taken when validate_health() began.  Of a task whose done callback is    *)
(* due, done() already holds when it has ended and does not hold yet when   *)
(* it was only told to: it may be found or not.                             *)
(***************************************************************************)
Gone(statuses, skip) ==
    {s \in Services \ (skip \cup Mute) : statuses[s] # "unhealthy" /\ loop[s] = "absent"}

DeadSets(statuses, skip) ==
    {D \in SUBSET Gone(statuses, skip) : Gone(statuses, skip) \subseteq D \cup reaping}

FinishScan(dead) ==
    /\ MarkServicesFailed(dead)
    /\ todo' = dead
    /\ watch' = IF dead = {} THEN "sleeping" ELSE "dead"
    /\ watchTimer' = IF dead = {} THEN WatchInterval ELSE 0

WatchDue == watch = "sleeping" /\ watchTimer = 0

WatchQuiet ==
    /\ WatchDue
    /\ {} \in StaleSets
    /\ snapshot' = Status
    /\ handled' = {}
    /\ \E dead \in DeadSets(Status, {}) : FinishScan(dead)
    /\ UNCHANGED <<loopVars, resourceVars, runtime, crashes, checkAge, manager>>

WatchStale ==
    /\ WatchDue
    /\ \E S \in StaleSets \ {{}} :
          /\ MarkServicesFailed(S)
          /\ handled' = S
          /\ todo' = S \ Mute
    /\ snapshot' = Status
    /\ watch' = "stale"
    /\ UNCHANGED <<loopVars, watchTimer, resourceVars, runtime, crashes, checkAge, manager>>

WatchScan ==
    /\ watch = "stale"
    /\ todo = {}
    /\ \E dead \in DeadSets(snapshot, handled) : FinishScan(dead)
    /\ UNCHANGED <<loopVars, snapshot, handled, resourceVars, runtime, crashes, checkAge, manager>>

WatchDone ==
    /\ watch = "dead"
    /\ todo = {}
    /\ watch' = "sleeping"
    /\ watchTimer' = WatchInterval
    /\ UNCHANGED <<health, loopVars, snapshot, handled, todo, resourceVars, runtime,
                   crashes, checkAge, manager>>

-----------------------------------------------------------------------------
(***************************************************************************)
(* The shutdown steps run in reverse order of registration: the watchdog is *)
(* stopped, with the recoveries it awaits, and then all tasks are cancelled.*)
(***************************************************************************)
StopWatchdog ==
    /\ runtime = "up"
    /\ runtime' = "stopping"
    /\ watch' = "off"
    /\ todo' = {}
    /\ UNCHANGED <<health, loopVars, watchTimer, snapshot, handled, resourceVars,
                   crashes, checkAge, manager>>

\* Mutated form of CancelAllTasks: the tasks are cancelled before the watchdog.
CancelAllTasksFirst ==
    /\ runtime # "down"
    /\ runtime' = "down"
    /\ Cancel(Services)
    /\ loop' = [s \in Services |-> "absent"]
    /\ UNCHANGED <<health, timer, watchVars, resourceVars, crashes, checkAge, manager>>

CancelAllTasks ==
    /\ runtime = "stopping"
    /\ runtime' = "down"
    /\ Cancel(Services)
    /\ loop' = [s \in Services |-> "absent"]
    /\ UNCHANGED <<health, timer, watchVars, resourceVars, crashes, checkAge, manager>>

-----------------------------------------------------------------------------
\* Mutated form of AgeWindow: nothing leaves the window.
AgeWindowKeepsAll == recent' = [i \in 1..Len(recent) |-> AtMost(recent[i] + 1, Window)]

(***************************************************************************)
(* Recoveries leave the window from its left end, the oldest first, until   *)
(* one is young enough; the others grow older.                              *)
(***************************************************************************)
AgeWindow ==
    \E n \in 0..Len(recent) :
        /\ \A i \in 1..n : recent[i] >= Window
        /\ n < Len(recent) => recent[n + 1] < Window
        /\ recent' = [i \in 1..Len(recent) - n |-> recent[n + i] + 1]

(***************************************************************************)
(* Time passes when the event loop has nothing to do; thread operations may *)
(* or may not last longer.                                                  *)
(***************************************************************************)
ThreadsIdle == \A s \in Services : loop[s] \notin Waiting /\ orphans[s] = {}

Tick ==
    /\ \A s \in Services : ~Awake(s)
    /\ reaping = {}
    /\ watch = "off" \/ (watch = "sleeping" /\ watchTimer > 0)
    /\ PromptThreads => ThreadsIdle
    /\ timer' = [s \in Services |-> IF loop[s] = "sleeping" THEN timer[s] - 1 ELSE timer[s]]
    /\ watchTimer' = IF watch = "sleeping" THEN watchTimer - 1 ELSE watchTimer
    /\ health' = [s \in Services |-> [health[s] EXCEPT !.age = AtMost(@ + 1, Timeout + 1)]]
    /\ checkAge' = [s \in Services |->
                        IF s \in Mute \/ ~manager THEN 0 ELSE AtMost(checkAge[s] + 1, MaxGap)]
    /\ AgeWindow
    /\ UNCHANGED <<loop, reaping, orphans, watch, snapshot, handled, todo, throttled,
                   runtime, crashes, manager>>

EventLoopStep ==
    \/ \E s \in Services : Wake(s) \/ WakeWithoutManager(s) \/ Crash(s) \/ Reap(s) \/ Recover(s)
    \/ WatchQuiet \/ WatchStale \/ WatchScan \/ WatchDone

(***************************************************************************)
(* A thread operation ends, its task still waiting for it or not.           *)
(***************************************************************************)
EndOrphan(s, op) == FinishOrphan(s, op) \/ DropOrphan(s, op)

EndBeat(s) == Beat(s) \/ EndOrphan(s, "beat")
EndCheck(s) == (\E ok \in BOOLEAN : Check(s, ok)) \/ EndOrphan(s, "check")
EndReport(s) == Report(s) \/ ReportCrash(s) \/ EndOrphan(s, "report")

ThreadStep(s) == EndBeat(s) \/ EndCheck(s) \/ EndReport(s)

Shutdown == StopWatchdog \/ CancelAllTasks

Next ==
    \/ EventLoopStep
    \/ \E s \in Services : ThreadStep(s)
    \/ CreateManager
    \/ EventFlood
    \/ Shutdown
    \/ Tick

(***************************************************************************)
(* The event loop runs what is ready, thread operations end, time goes on.  *)
(***************************************************************************)
Spec ==
    /\ Init
    /\ [][Next]_vars
    /\ WF_vars(EventLoopStep)
    /\ \A s \in Services : WF_vars(EndBeat(s)) /\ WF_vars(EndCheck(s)) /\ WF_vars(EndReport(s))
    /\ WF_vars(Tick)

-----------------------------------------------------------------------------
(***************************************************************************)
(* The status always tells the failure count, whichever of the loop, an     *)
(* orphaned thread, the watchdog and a failed restart reported last.        *)
(***************************************************************************)
StatusTellsFailures ==
    \A s \in Services :
        LET h == health[s]
        IN  /\ h.status = "healthy" <=> h.failures = 0
            /\ h.status = "unhealthy" <=> h.failures >= Threshold

(***************************************************************************)
(* Once the tasks are cancelled none comes back: no recovery that was under *)
(* way re-registers a loop during or after the shutdown.                    *)
(***************************************************************************)
DownStaysDown == runtime = "down" => \A s \in Services : loop[s] = "absent"

(***************************************************************************)
(* Restarts are spent on failures: since a service was last heard of it has *)
(* had at most one restart more than failures.  The odd one is real: a      *)
(* heartbeat that lands between the watchdog's verdict and the recovery     *)
(* clears the failures, and the recovered loop is restarted all the same.   *)
(***************************************************************************)
RestartsFollowFailures == \A s \in Services : health[s].attempts <= health[s].failures + 1

(***************************************************************************)
(* A recovery storm is an outage: when the window overflows, the throttle   *)
(* denies every later registration, and a service that is down stays down.  *)
(***************************************************************************)
ThrottledOutageIsForGood ==
    [][\A s \in Services :
          (throttled /\ loop[s] = "absent") => (throttled /\ loop[s] = "absent")']_vars

(***************************************************************************)
(* At the deployed settings, and unless events elsewhere throttle the       *)
(* runtime, two checks are never further apart than this, nor is the first  *)
(* one from the moment there is a manager to ask.                           *)
(***************************************************************************)
CheckGapBounded == \A s \in Services \ Mute : runtime = "up" => checkAge[s] < MaxGap

(***************************************************************************)
(* At the deployed settings the supervisor never throttles the runtime by   *)
(* its own restarts, and so never takes down the loop it means to restore.  *)
(***************************************************************************)
RestartsFitTheWindow ==
    runtime = "up" => ~throttled /\ \A s \in Services \ Mute : loop[s] # "absent"

(***************************************************************************)
(* The watchdog restarts a loop whose heartbeat period is below the timeout *)
(* only when it crashed, whatever becomes of its neighbours.                *)
(***************************************************************************)
LiveLoopsUndisturbed == \A s \in Services : Period[s] < Timeout => health[s].attempts <= crashes

(***************************************************************************)
(* A service that registers with the monitor and never beats, as the        *)
(* innovation services of main.py do, ends up unhealthy and stays so: the   *)
(* overall status of a runtime that has them is "unhealthy" for good.       *)
(***************************************************************************)
MuteEndsUnhealthy == \A s \in Mute : <>[](runtime = "up" => health[s].status = "unhealthy")

(***************************************************************************)
(* A loop that died is not forgotten: the watchdog brings it back, unless   *)
(* it is marked unhealthy or the runtime is throttled or stopped.           *)
(***************************************************************************)
DeadLoopReturns ==
    \A s \in Services \ Mute :
        (loop[s] = "absent" /\ runtime = "up")
            ~> \/ loop[s] # "absent"
               \/ health[s].status = "unhealthy"
               \/ throttled
               \/ runtime # "up"
=============================================================================
