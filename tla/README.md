# AegisGraph Sentinel 2.0: models, checks and proofs of the runtime core

This directory is a TLA+ development of the parts of AegisGraph Sentinel that
decide when things happen: the event dispatcher, the resource governance in
front of it, the lifecycle of the process, the supervision of background
services, and three services with state of their own that several threads or
coroutines work on: the honeypot escrow, the log archival and the WebSocket
manager. Source paths are relative to the repository; the Python package root
is `src/`. `PROJECT.json` lists, machine-readably, the components, the runs, the
mutants that show each property can fail, the source lines every definition
stands for, the findings, the hazards and the theorems.

    tlc -workers 2 -config dispatcher.cfg MCEventDispatcher.tla
    tlapm EventDispatcherProofs.tla

## 1. Inventory

### Modelled

| Component | State | Operations | Interacts with |
|---|---|---|---|
| Event dispatcher, `runtime/events/dispatcher.py` | `_started`, `_stopping`, `_stop_requested`, a bounded `asyncio.Queue`, an unbounded overflow deque, the loop's task | `start`, `dispatch`, `_process_loop` with `_fetch_next_event` and `_drain_overflow`, `stop` | publishes to the event bus; asks the resource manager for admission; started and stopped by the lifecycle manager |
| Event bus, `runtime/events/event_bus.py` | handlers per event type | `publish` (a handler's exception is contained) | called by the dispatcher's loop only |
| Runtime resources, `runtime/resources/` | backpressure state and two sliding windows, queue budget, set of active tasks | `can_accept_event`, `can_start_recovery`, `register_task`, `unregister_task`, `update_queue_size` | asks the policy engine (`policy/guardrails.py`) first; called by dispatcher, task registry and recovery manager |
| Runtime state wiring, `runtime/runtime_state.py` | owns all of the above | construction, `check_invariants` | installs the policy engine into the resource manager |
| Lifecycle manager, `runtime/lifecycle_manager.py` | `_started`, `_shutting_down` (mirrored in the runtime state), ordered startup and shutdown steps, one lock | `startup`, `_rollback_startup`, `shutdown`, `_run_step` | drives the dispatcher, announces start and shutdown through it |
| Health monitor, `runtime/health_monitor.py` | per service: status, failures, restart attempts, last heartbeat | `register_service`, `mark_healthy`, `mark_failed`, `increment_restart_attempts`, snapshots | written by loops (from worker threads), watchdog and recovery manager |
| Watchdog, `runtime/watchdog.py` | its task | `start`, `stop`, `validate_health` | reads the health monitor and the task registry, calls the recovery manager |
| Recovery manager, `runtime/recovery_manager.py` | callbacks, attempt limits | `handle_failure` | asks policy and resource manager, calls the restart callback of `api/main.py` |
| Task registry, `runtime/task_registry.py` | tasks and their info | `register_task`, done callback, `cancel_all_tasks` | asks the resource manager |
| Background loop, `runtime/background_tasks.py` | where it stands | sleep, heartbeat, check, report | worker threads through `asyncio.to_thread` |
| Honeypot escrow, `features/honeypot_escrow.py` | active honeypots, an index by account, history, statistics, one `RLock` | `activate_honeypot`, `record_withdrawal_attempt`, `record_arrest`, `trace_network`, `check_auto_release` with `_auto_release_honeypot` | called by request threads and, through the background loop above, by its worker threads |
| Archival, `archival/` | hot deque, cold collection, run summaries under the store's `RLock`; the scheduler's thread and stop event | `add_log`, `ArchivalService.run` (scan, batches, purge, summary), `ArchivalScheduler.start`, `stop`, worker loop | cycles of the scheduler overlap with cycles triggered through the API (`archival/routes.py`) |
| WebSocket manager, `api/websocket_manager.py` | registered socket per client, heartbeats, disconnect history, one `asyncio.Lock` | `connect`, `disconnect`, `update_heartbeat`, `cleanup_stale_connections`, `evict_stale_disconnect_history` | the route's handler and the cleanup loop of `api/main.py` |

### What is hard here, and what correctness means

* **Dispatcher.** Coroutines interleave at every `await`: dispatches meet a
  draining `stop()`, the queue fills, critical events take a detour through the
  overflow deque, `stop()` may be cancelled, sessions follow each other on one
  object. Correct: nothing accepted is lost by a graceful stop, nothing is
  published twice, the order of arrival is kept where the code keeps it, the
  drain ends, nothing leaks into the next session.
* **Resources.** The throttle is set by one call and reset by another, and the
  guardrail decides whether that other call is made. Correct: budgets hold;
  what throttles, for how long, and what a throttled runtime still lets through.
* **Lifecycle.** Any step may fail; calls queue on a lock; the dispatcher is
  awaited under it. Correct: a runtime that is up has a running dispatcher, a
  stopped one has none, a shutdown is final and announced, every call ends.
* **Supervision.** Heartbeats come from worker threads that outlive their task;
  the watchdog decides on snapshots and acts after awaits; restarts compete for
  one recovery window; shutdown meets recoveries. Correct: a loop that dies
  comes back or is given up visibly, a loop that lives is left alone, limits
  hold, nothing comes back after shutdown.
* **Escrow.** Check and removal are in different critical sections, so two
  threads can close one honeypot; an exception leaves a batch half done; the
  index by account is shared by the honeypots of one account. Correct: the
  statistics agree with the history, the index never leads to a closed honeypot,
  what has expired is released.
* **Archival.** Cycles overlap, batches raise between two store calls, the hot
  deque drops its oldest entry meanwhile, and `stop()` gives up waiting for a
  worker that `start()` then revives. Correct: no log is lost, none is counted
  twice, old logs are archived in the end, a stopped scheduler has no worker.
* **WebSockets.** The handler of a replaced connection leaves after its
  successor came; the cleanup acts on a snapshot and awaits in the middle; a
  handler may die without `disconnect()`. Correct: a socket that is served is
  registered, a dead one does not stay so.

### Not modelled

| Part | Why |
|---|---|
| Audit chain, circuit breaker, SaaS authentication | on the plan below |
| SOAR engines, defense grid, case workflow, blockchain evidence, configuration reload | candidates after those |
| Agent packages, collaboration, streaming | sequential logic over in-memory stores |
| HTTP API | validation and I/O around the services |
| Inference, models, training, feature detectors, graph analytics | numerical code |
| `phase_*` packages and the enterprise, intelligence and platform packages | one CRUD-and-report template repeated; no protocol |
| Observability, sanitizers, redaction, encoders | pure output or stateless |

## 2. Modules

| Module | What it is |
|---|---|
| `EventDispatcher` | the dispatcher; EXTENDed by the two compositions below |
| `EventDelivery` | the abstract service: open (also for the sake of an event), take, deliver exactly once, close owing nothing |
| `EventDispatcherProofs` | inductive invariants, safety theorems, refinement of `EventDelivery` |
| `RuntimeResources` | budgets, windows, throttle, guardrail |
| `RuntimeResourcesProofs` | theorems about them |
| `GovernedDispatcher` | dispatcher and resources as `RuntimeState` wires them |
| `LifecycleManager` | startup, rollback, shutdown over the dispatcher |
| `RuntimeSupervisor` | loop, health monitor, watchdog, recovery manager, task registry |
| `HoneypotEscrow` | the escrow manager, its callers and auto-release passes |
| `SentinelArchival` | log store, archive cycles, scheduler threads, manual triggers |
| `LogLedger` | the abstract archive: accept, push out the oldest, archive, discard only what is archived, report each log once |
| `WebSocketManager` | connection registry, route handlers, stale cleanup |
| `GovernedDispatcherProofs`, `LifecycleManagerProofs` | the compositions keep what the dispatcher promises; their own invariants. They EXTEND `EventDispatcherProofs` and reuse its invariants |
| `RuntimeSupervisorProofs`, `HoneypotEscrowProofs`, `SentinelArchivalProofs`, `WebSocketManagerProofs` | inductive invariants and safety theorems of these modules |
| `MC*` | the instances TLC checks |

Operators commented "Mutated form of X" are plausible bugs of the code. They are
not part of any specification; each exists to show that a property notices it.

### EventDispatcher

A coroutine segment between two awaits is one action. `dispatch()` does not
suspend, so it is one action with five outcomes (`Ignore`, `Refuse`, `Drop`,
`Enqueue`, `Preserve`), each with the guard of its branch; admission by the
resource manager is an input here and is decided in `GovernedDispatcher`.
`Fetch` is a successful `_fetch_next_event()`; one that times out changes
nothing. `Publish` is the end of `bus.publish()` with the drain that follows it
in the same segment. `LoopExit` and `StopReturn` are separate because the return
of the task only schedules the awaiting `stop()`. `StopCancelled` is the branch
that swallows `CancelledError`: cancelling the caller cancels the awaited task.
A cross-event-loop `RuntimeError` that `stop()` swallows ends the same way; any
other one it re-raises with `_stopping` set for ever (lines 115-116), which takes
a second event loop over one dispatcher and is not modelled.
`fate`, `arrived` and `published` are history; every event object is dispatched
at most once, which bounds behaviours by the number of events.

### RuntimeResources

Deques of timestamps are counters, since every use prunes first; `Elapse` lets
any number of the oldest entries expire. The order inside `can_accept_event()`
is kept: guardrail, then controller; a denial by the guardrail never reaches the
controller. Whether the policy engine is installed is a variable.

### GovernedDispatcher

`DispatchOrdinary` is the whole of `dispatch()`: report the queue size, ask for
admission with it, put, report again. Fetching does not report, publishing does.
Recoveries and tasks press on the same resource manager through `Elsewhere`.

### LifecycleManager

The lock is a `phase`: at most one call is past it. Each step is an action
(steps suspend), and what runs from the last step to the next await is one
action. `failFast` is chosen initially; note that the code reads `failure_mode`
from `runtime_state.settings`, an attribute `RuntimeState` does not have (the
settings are kept on the API's application state), so with the shipped wiring
the mode is always "degraded". Both modes are explored. `StepCancelled` is the
cancellation of the calling task in a step, a rolled-back one included:
`CancelledError` passes every `except Exception`, so nothing is undone and the
call ends with flags and dispatcher as they are. `brokenOff` remembers that the
last call ended like this, or by `StartupRejected` or `StopStepRaises`.
`live[s]` counts runs of a startup handler that nothing released; a shutdown
step releases the startup steps it corresponds to (`TearsDown`).

### RuntimeSupervisor

One tick is ten seconds. The event loop finishes what is ready before time goes
on; thread operations may last longer (`PromptThreads = FALSE`) or not. A task
cancelled while it awaits a thread leaves an orphan that may still report
(`FinishOrphan`) or, if it was still queued, is dropped (`DropOrphan`).
`validate_health()` is two segments: the stale pass up to the gather of the
recoveries, and the dead-task pass, which uses the snapshot of the first.
`handle_failure()` with the callback of `api/main.py` never suspends, so it is
one action, `Recover`. Staleness is decided with a strict comparison on real
time; an age of exactly the timeout may fall on either side, hence `StaleSets`.
Failures beyond the threshold are not counted (they change nothing). `Mute`
services are those `api/main.py` registers with the monitor and nobody beats for.
`lifespan()` starts without a honeypot manager and the first request that needs
one creates it; `CreateManager` may happen at any time or never, and until then
the loop reports failures and has nothing to check (`checkAge` starts with the
manager). The scan for dead tasks (`DeadSets`) may or may not see a task whose
done callback is due: it has ended, or was only told to.
The recovery window is a sequence of ages; `AgeWindow` drops expired ones from
the left, as `_prune()` does.

### HoneypotEscrow

Every section under the `RLock` is one action of a thread, and `step` and
`subject` are what the thread carries from one section to the next: an alert, a
trace or an arrest goes on with the honeypot object it found, whatever became of
it. `Close` is the second section of `record_arrest()` and
`_auto_release_honeypot()`: the history entry is written before the `del` that
raises `KeyError` when another thread was first, and an exception in an
auto-release abandons the rest of the pass. `attempted` are the honeypots whose
`withdrawal_attempts` list is not empty; `Due` does not read it, as the code
does not. Amounts, averages and daily figures
are left out, and so is the limit of the history (10000 entries, not reached).

### SentinelArchival

A cycle is a sequence of store calls, each atomic under the store's lock:
`Scan`, then per batch `Commit` and `Mark`, then `Purge` and `Save`. A batch may
raise before its write (`CommitFails`) or between write and mark (`MarkFails`);
the cycle goes on, as the code does. What a cycle counts is kept as a set of
logs, which makes double counting visible. A thread runs the scheduler's loop or
one triggered cycle. `StopReturns` needs no guard on the thread because the
code's `join` has a timeout and forgets the thread either way; the stop event is
one object for all workers, and `Start` clears it. A cycle triggered by hand may
take every hot log (threshold zero). A scan or a purge that raises
(`CycleFails`) ends the cycle with a summary of zero. The limit of the cold
collection (500000) is not reached.

### WebSocketManager

One handler per socket; a step ends where a coroutine awaits the network.
`connect()` is `Admit` or `Reject`, the accept, `Register`, `CloseReplaced`.
`Leave` is the handler's `except WebSocketDisconnect`, `Crash` any other
exception, which skips `disconnect()`. The cleanup is `Collect` (the snapshot),
then per target `CloseStale` and, after the awaited close, `DropStale`. Of the
disconnect history the number of recent entries is kept. `broadcast()` only
sends, and the limit of 2048 remembered clients is not modelled.

## 3. Runs

| Run | Instance | Properties |
|---|---|---|
| `dispatcher` | 2 critical, 2 ordinary events, `MaxSize` 2, cancellable stop | `TypeOK`, `HeldIsInFlight` (accounting), `OverflowOnlyBehindFullQueue`, `StoppedIsClean`, `PublishedOnce`, `DirectFifo`, `StopCompletes`, `HeldIsPublished`, `ServiceSpec` (refinement) |
| `dispatcher_gap` | 1 critical, 1 ordinary, `MaxSize` 1 | `CriticalNeverDropped` is violated |
| `resources` | all limits 2, 3 tasks | `TypeOK`, `ThrottlingIsForGood`, `OnlyRatesThrottle`, `ThrottlingEnds` |
| `governed` | 1 critical, 2 ordinary, `MaxSize` 1, all limits 1 | `AdmittedFits`, `ShutdownPassesThrottle` |
| `lifecycle` | 3 startup steps (second critical), 2 shutdown steps (first critical), `MaxSize` 1, 2 startups | `UpHasDispatcher`, `RestsStopped`, `ShutdownWasAnnounced`, `StartBeforeShutdown`, `ShutdownIsFinal`, `CallsEnd` |
| `lifecycle_rollback` | same | `RollbackTearsDown` is violated |
| `supervisor_deployed` | deployed timing, a quick loop and a mute service beside the honeypot loop, the manager created at any time | `CheckGapBounded`, `RestartsFitTheWindow`, `LiveLoopsUndisturbed` |
| `supervisor_storm` | a quick loop and a mute service, 2 attempts, 2 recoveries per window, 1 task, 2 crashes, slow threads, event floods, the manager created at any time | `TypeOK`, `StatusTellsFailures`, `DownStaysDown`, `RestartsFollowFailures`, `ThrottledOutageIsForGood`, `MuteEndsUnhealthy`, `DeadLoopReturns` |
| `escrow` | 2 honeypots of one account, 2 auto-release threads, 1 caller | `CountsMatchHistory`, `IndexPointsToActive`, `ExpiredIsReleased` |
| `escrow_attempted` | same | `ReleasesUnattempted` is violated |
| `archival` | 3 logs, a hot collection of 2, batches of 1, 2 threads, 1 failing batch or cycle | `NoLogLost`, `CountedOnce`, `OldLogsArchived`, `StopEndsWorkers` |
| `websocket` | 1 client that connects 3 times, reconnect limit 2 | `ServedIsRegistered`, `DeadEntriesGo` |

### Bounds, and why they are enough

* Dispatcher: with a two-slot queue and one event at the bus, four events fill
  queue and overflow, so that the overflow holds two critical events, is drained
  partly and wholly, and is dispatched to before, while and after `stop()`. What
  holds for every number of events and every `maxsize` is proved.
* Resources: limits of two make "below", "warning" and "exhausted" different
  states of each window and budget; the third task is the one refused.
* Governed: a one-slot queue is full, and a window of one is exhausted, after a
  single event.
* Lifecycle: three startup steps give a rollback of none, one or two steps, a
  non-critical failure before and after; two `startup()` calls allow a retry
  after a rollback. One ordinary event besides the lifecycle's own keeps the
  queue full when the shutdown is announced. `MaxStartups` bounds the retries.
  Deadlock is not an error: after a shutdown the runtime stops.
* Supervisor: `supervisor_deployed` uses the deployed numbers (threshold 3,
  three attempts, window 60 s, five recoveries) and so has no bound beyond the
  counter `MaxGap`, without crashes and floods. In `supervisor_storm` the loop
  reaches the attempt limit (of two), the recovery window (of two) and the task
  budget (of one: a cancelled task still holds it when the loop is to be
  restarted), `MaxCrashes` is 2 and thread operations may last for ticks. One
  loop does it because loops meet only in the window and the budget; that its
  safety properties hold for any number of them is proved. `MaxGap` is 0 there:
  the age of the last check is not asked about.
* Escrow: two honeypots of one account share the index entry; the second
  auto-release thread is the pass of a loop that was restarted while its
  predecessor's thread still ran, and the caller races both. Deadlock is not an
  error: when every honeypot is closed nothing has to happen.
* Archival: the third log finds the hot collection full; with batches of one a
  cycle has a second batch after a failed one; two threads are a worker and its
  successor, or a worker and a trigger, and are reused when they end.
  `MaxFailures` and `MaxLogs` bound failures and additions.
* WebSockets: three sockets of one client make a chain of two replacements with
  a late handler on each; clients share only the cleanup's list. Deadlock is not
  an error: sockets that are used up are not offered again.

### What the runs show

* The dispatcher keeps its accounts under every interleaving, but a critical
  event dispatched between the return of the loop and the end of `stop()` is lost
  (`dispatcher_gap`). The lifecycle manager never dispatches there itself, so
  `ShutdownWasAnnounced` holds.
* With the policy engine in place a throttle is for good: the guardrail refuses
  because the state is throttled, and the call that would reset it is the one
  refused. A burst of events or recoveries in one window silences ordinary
  events and refuses tasks until the process ends; shutdown still gets through.
* A failed startup is "rolled back" by running the startup handlers once more
  (`lifecycle_rollback`). In fail-fast mode a failed validation leaves the
  dispatcher running, a critical shutdown step that raises leaves the runtime up
  and shutting down for ever, and so does a cancelled shutdown; a cancelled
  startup leaves the dispatcher running too, for the next call to take over.
  `RestsStopped` excludes exactly these paths (`brokenOff`), so it does not
  speak of what they leave behind. While shutdown steps run the runtime is both
  started and shutting down, which `RuntimeState.check_invariants` reports as a
  violation.
* The 60 s loop under the 30 s timeout is restarted although it is alive; its
  checks can be 180 s apart (`CheckGapBounded` with `MaxGap` 19 ticks), never
  more, because it becomes unhealthy and is then left alone.
* A loop that dies while its service is unhealthy is not restarted by anybody:
  `DeadLoopReturns` has to except it. A service that never beats ends up
  unhealthy, and with it the overall status (`MuteEndsUnhealthy`).
* Two threads can close one honeypot: both outcomes are counted, the history has
  it twice, and the loser's `KeyError` ends its pass, although counts and
  history agree (`CountsMatchHistory`) and later passes release what was left
  (`ExpiredIsReleased`). A late alert or trace overwrites a final status
  (listed as a hazard).
* The auto-release does not ask whether a withdrawal was attempted
  (`escrow_attempted`): a honeypot whose alert has gone out is picked, released
  and counted a false positive when its time is up, while the class
  (`honeypot_escrow.py:121`), the reason the loop records (line 554) and
  `docs/INNOVATIONS.md:80` say that it releases only if nothing was attempted.
  `ExpiredIsReleased` therefore promises a release for the others only.
* Overlapping and failing archive cycles lose no log and count none twice. A
  worker that outlived a `stop()` is revived by the next `start()` and works
  beside its successor until the next `stop()` (`StopEndsWorkers` speaks of the
  last one). After a failed mark the purge waits for a later cycle that commits
  something. A cycle whose purge raises reports zero: its logs are counted by no
  summary.
* A client's new connection is never unregistered by its old one, nor by the
  cleanup. The entry of a handler that died without `disconnect()` stays until
  the cleanup finds it stale (`DeadEntriesGo`). Replaced connections count as
  disconnections of the client as long as it has an entry, and towards its
  reconnect limit.

### Fairness

Weak fairness of the dispatcher's loop and of the awaiting `stop()`: asyncio
runs every ready task, and bus handlers are taken to return. No fairness of
`dispatch`, `start`, a stop request or a cancellation. `GovernedSpec` adds that
a pending shutdown event is dispatched as long as the dispatcher is started
(`LifecycleManager.shutdown` does it whatever the pressure). `RuntimeSpec`:
lifecycle steps return or raise; nobody is obliged to call anything, and
`StopInterrupted` is not fair, so `CallsEnd` does not rest on cancellations.
`OfferingSpec` uses strong fairness of an event offered at a calm moment; it
serves only to show that throttling ends without the policy engine, for a
program that keeps dispatching. The supervisor's event loop, its threads and
time go on; shutdown, crashes and event floods are never obliged to happen.
Escrow: threads run, and the loop calls `check_auto_release()` again and again
(the supervisor sees to the loop); no caller owes anything. Archival: threads
run and their sleeps end; nobody has to add, trigger, start or stop.
WebSockets: the event loop runs what is ready, the cleanup comes round every 15
seconds, and a heartbeat that is not renewed expires; clients and network owe
nothing.

## 4. Proofs

`EventDispatcherProofs` proves, for any sets of events, any `MaxSize >= 1` and
cancellable or not (assumptions `EventsAssumption`, `MaxSizeAssumption`,
`CancelStopsAssumption`):

* `TypeCorrect`, `QueueBounded`, `RestIsClean` from the inductive invariant
  `BoundsInv`: `TypeOK`, the agreement of the control variables
  (`ControlAgrees`: who may be where, by `started`, `stopping` and `loop`),
  `StoppedIsClean` and `OverflowOnlyBehindFullQueue`. None is inductive alone:
  that `start()` may empty the queue needs `StoppedIsClean`, which needs to know
  that a stopped dispatcher has no loop that could fetch or drain; that a
  publish restores "full queue" needs the slack of one slot that a fetch opens.
* `Accounting` and `NoDuplicates` from `AccountInv`: `BoundsInv`, the events in
  queue and overflow read as one line are distinct (`LineDistinct`), the history
  says "published" of exactly what was published, and `HeldIsInFlight`. The
  drain moves events within the line and so preserves its set.
* `ImplementsDelivery`: the initial state maps to the abstract one, and every
  step under `AccountInv` is `Open`, `Take`, `Deliver`, `Close`, `Abandon` or a
  stutter of `EventDelivery`. The liveness half of `ServiceSpec` is checked by
  TLC only.
* `ArrivalOrder` from `FifoInv`: of the events that found room, those published
  precede the one at the bus, which precedes those in the queue, each part in
  order, and the overflow deque holds none of them (`DequeIsApart`). The last
  conjunct is what makes a drain harmless: it appends events that have no place
  in the order.

`RuntimeResourcesProofs` proves from `LimitsAssumption`: type correctness,
`TaskBudgetHolds`, and the three action properties that make the throttle a
latch (`ThrottlingNeverEnds`, `ThrottledIsClosed`, `ThrottledByRates`), for
every value of the limits; the budget needs that active tasks form a finite set.

`GovernedDispatcherProofs`, with `WindowsAssumption` besides, proves that the
wired dispatcher implements the dispatcher (`GovernedImplements`), so that
accounting carries over (`GovernedAccounting`); that the queue never refuses
what admission let through (`AdmissionIsExact`), because the size is reported
in the same step; and type correctness of both halves. The same
implementation carries over the refinement (`GovernedDelivers`: admission only
makes the service take less) and the order of arrival (`GovernedArrivalOrder`).
Of the resource manager it carries over the task budget (`GovernedTaskBudget`)
and the latch (`GovernedThrottling`, `GovernedRates`): every step of the wiring
is one of the manager's, or leaves it alone, or only reports a queue size
(`ResourceMoves`). Two theorems speak of both halves: `ThrottledIsSilent`, that
a throttled runtime never again takes an ordinary event, and `BudgetIsPrudent`,
that the size the queue budget remembers may overstate the queue (fetching does
not report) and never understates it.

`LifecycleManagerProofs` proves from `RuntimeInv`: the dispatcher's `AccountInv`
(kept although the lifecycle starts, dispatches and requests the stop in one
step), `PhaseAgrees` (position of the call, `up`, `shuttingDown` and the
dispatcher's flags), `StepAgrees`, `LiveBounded` (a startup handler has run at
most twice per startup) and `ShutdownFate` (where the announcement is by phase).
From it: `UpIsServed`, `RestLeavesNothing`, `ShutdownIsAnnounced`,
`LifecycleAccounting`, the action property `ShutdownNeverUndone`, and
`LifecycleTypeCorrect`; for any number of steps, startups and events, any
`MaxSize`, both failure modes. That a shutdown is announced rests on the fact
that a critical event dispatched to a live loop is held, and that the loop ends
only with queue and overflow empty. `StartIsHeardFirst` needs the order as well:
wherever both announcements are, the started event is nearer the bus
(`StartLeads`); it is kept because events join the queue at its end and once a
shutdown has begun no startup announces anything. `LifecycleImplementsDelivery`
shows that the dispatcher as the lifecycle drives it is still an
`EventDelivery`. One step of the lifecycle may start the dispatcher and dispatch
to it, which is why the abstract service may open for the sake of an event
(`OpenFor`); `LifecycleDeliversOnce` carries over that nothing is published
twice.

`RuntimeSupervisorProofs` proves from `SupervisorInv`: `TypeCorrect`,
`StatusIsTrue`, `NoneComesBack`, `OutageIsForGood`, for
any services, periods and limits. `NoneComesBack` needs `ShutdownDisarms` (once
shutdown has begun the watchdog is off and no recovery is pending), the type of
the window needs `WindowInOrder` (what expires is at its left end). All follow
from one lemma, `HealthStep`, on what a step may do to a service.
`RestartsAreEarned` assumes that the restart limit does not exceed the failure
threshold (both are 3 as deployed), since failures are counted up to the
threshold only; it needs that a recovery that is due has a failure to spend
(`AttemptsCovered`).

Two theorems of that module are about time.

* `QuickLoopsUndisturbed` assumes that thread calls take less than a tick
  (`PromptThreads`) and that nothing crashes. Then a loop with `Period < Timeout`
  is never found stale: `QuickLeftAlone` relates its timer to the age of its
  heartbeat (`BeatsInTime`). It holds whatever happens beside it: other loops
  refused, event floods, no honeypot manager yet, a throttled runtime. Both
  assumptions are needed, TLC refutes the property without either: a heartbeat
  that waits for a worker thread ages beyond the timeout as well, and one crash
  can cost several attempts when the restart is refused.
* `ChecksKeepComing` generalises the 180 seconds of the deployed settings. Its
  hypotheses are `Deployed(h)`: prompt threads, no crash, no flood of events
  elsewhere; every loop but `h` has a period below the timeout, and `h`, if not
  quick itself, sleeps longer than a timeout and a watch interval, so that the
  watchdog is sure to notice before it wakes (in between, whether a restart
  comes depends on how the two timers happen to stand, and the bound would be a
  different one); `Threshold <= MaxAttempts`, the window is shorter than
  `MaxRecoveries` timeouts, and there is room for the tasks. The honeypot
  manager is no hypothesis: `app.state` starts without one and a route creates
  it on first use (`CreateManager`), which may happen at any time or never; a
  loop that finds none still beats, and the age of its last check counts from
  the creation. The deployed numbers satisfy all of it (run
  `supervisor_deployed`: timeout 3, interval 1, period 6, three failures, window
  6, five recoveries, gap below 19 = 3 * 4 + 6 + 1 ticks).
  The invariant, `ChecksGoOn`: what a loop has not checked for is what it has
  slept plus one `Span` (timeout and interval) per failure (`ChecksInTime`); a slow
  loop is noticed before it has slept longer than that (`CaughtInTime`,
  `RecoverySoon`, `NotDue`); and its restarts lie at least a timeout apart
  (`Spaced`), so that the window always has room for the next.
  `RestartsAlwaysFit` is the other half: under the same hypotheses the
  supervisor's own restarts never throttle the runtime, and no loop is missing.

`HoneypotEscrowProofs` (`StatisticsAgree`, `IndexSound`, `EscrowAccounted`,
`TypeCorrect` from `EscrowInv`), `SentinelArchivalProofs` (`NothingLost`,
`SummariesDisjoint`, `TypeCorrect` from `ArchivalInv`) and
`WebSocketManagerProofs` (`NoGhostConnection`, `TypeCorrect` from `ManagerInv`)
hold for any number of honeypots, threads, logs and sockets. Their inductive
invariants add what a thread between two sections knows. `EscrowInv`: a
honeypot some thread is closing was activated, and so was every active one and
every one in the history (`Holding`, `Data`). `ArchivalInv`: a log a cycle has
committed or is about to count is counted by no other cycle and not yet
(`Claims`), and what is marked, or in the batch of a cycle, is in the cold
collection (`Commits`). `ManagerInv`: a registered socket belongs to its client
and was accepted (`EntriesOwned`), what the cleanup is about to drop is closed
(`ClosingClosed`), and a connection being served is registered, or a handler is
about to close it (`ServedIsRegistered`).

Beyond these invariants:

* `DoubleClosingBounded`: a honeypot enters the history at most once per thread.
  The entries of a honeypot and the threads about to write one together never
  outnumber the threads (`Filings`), because a thread joins them only while the
  honeypot is active, and then it has no entry. The bound is reached with three
  threads. `ClosingIsFinal`: a closed honeypot is never held again.
* `ImplementsLedger`: the archival implements `LogLedger`. It needs `Claims` for
  the reports, `Commits` for the purge, and that a cycle works on logs that were
  added (`RestAdded`). A batch may be archived after a full hot collection pushed
  its logs out; the ledger allows it, since it archives any accepted log.
* `LiveIsKept`: an entry is removed only when the connection it names is closed.
  The handler saw it closed; the cleanup closed it before it awaited, and no
  registration can have come in between under the same socket (`ClosingClosed`).

The type invariants of the lifecycle, escrow, archival and WebSocket modules,
`NothingForgotten`, `ClosedOncePerThread`, `ClosedForGood`, `LedgerSpec`,
`LiveStaysRegistered`, `ThrottledAdmitsNothing`, `ThrottleSilencesOrdinary`
and `BudgetCoversQueue` are theorems and not run properties: proved, they need
no instance.

Every invariant and every action property of the passing runs is a theorem.
Only model-checked is liveness (`StopCompletes`, `HeldIsPublished`, the fairness
half of `ServiceSpec`, `CallsEnd`, `ShutdownPassesThrottle`, `ThrottlingEnds`,
`DeadLoopReturns`, `MuteEndsUnhealthy`, `ExpiredIsReleased`, `OldLogsArchived`,
`StopEndsWorkers`, `DeadEntriesGo`), which is out of the prover's reach: it does
not handle `ENABLED`, on which weak fairness rests. The hypotheses of the
timing theorems and of `RestartsAreEarned` narrow them to settings like the
deployed ones; outside of those, `supervisor_storm` checks what
can be said.

## 5. Plan

Done: dispatcher, resources, their composition, lifecycle, supervisor, escrow,
archival and WebSocket manager, each with its proofs. Next, in this order:

1. The escrow model driven by the supervised loop instead of a fair one.
2. `AuditChain` (`audit/`): bounded log, integrity chain, export under
   concurrent appends; abstract specification: the exported prefix verifies.
3. `CircuitBreaker` (`utils/circuit_breaker.py`) under concurrent calls, and the
   SaaS token rotation (`saas/auth`).
4. Case workflow, SOAR approvals and configuration reload, if they prove to hold
   more than guarded assignments.
