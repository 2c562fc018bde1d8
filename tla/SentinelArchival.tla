--------------------------- MODULE SentinelArchival ---------------------------
(***************************************************************************)
(* Log archival: SentinelLogStore (src/archival/store.py), the cycle of     *)
(* ArchivalService.run() and the ArchivalScheduler's worker threads, next   *)
(* to cycles triggered by hand.  Store methods hold the store's RLock and   *)
(* are single steps; a cycle is a sequence of them, and cycles overlap.     *)
(*                                                                         *)
(* Logs are numbered in the order they are added.  What a cycle counts is   *)
(* kept as the set of logs counted (archived += committed), so that a log   *)
(* counted twice shows.  The cold collection's own limit is not reached.    *)
(***************************************************************************)
EXTENDS Naturals, FiniteSets

CONSTANTS MaxLogs,      \* logs added (bound of the model)
          HotMax,       \* hot_max_size
          BatchSize,    \* batch_size
          Threads,      \* threads that run cycles
          MaxFailures,  \* batches and cycles that raise (bound of the model)
          NoThread

ASSUME ArchivalAssumption ==
    /\ MaxLogs \in Nat
    /\ HotMax \in Nat \ {0}
    /\ BatchSize \in Nat \ {0}
    /\ MaxFailures \in Nat
    /\ NoThread \notin Threads

VARIABLES
    added,      \* logs added so far: 1..added
    hot,        \* hot collection
    old,        \* hot logs whose created_at lies before the threshold
    evicted,    \* logs the full hot collection pushed out
    marked,     \* hot logs with the archived flag
    archive,    \* cold collection, by log_id
    reported,   \* logs counted by the saved run summaries
    failures,   \* batches and cycles that have raised
    workers,    \* threads that run the scheduler's loop, not a manual trigger
    step,       \* where each thread stands in its cycle
    rest,       \* candidates not processed yet
    batch,      \* the batch being archived
    committed,  \* what add_archive_records() newly committed of it
    counted,    \* archived, of the cycle
    stopEvent,  \* _stop_event
    thread,     \* _thread
    joining     \* stop() is waiting for the thread

storeVars == <<added, hot, old, evicted, marked, archive, reported>>
cycleVars == <<step, rest, batch, committed, counted>>
localVars == <<rest, batch, committed, counted>>
schedulerVars == <<workers, stopEvent, thread, joining>>
vars == <<storeVars, failures, cycleVars, schedulerVars>>

Logs == 1..MaxLogs

Steps == {"off", "looping", "scan", "batches", "mark", "save"}

TypeOK ==
    /\ added \in 0..MaxLogs
    /\ hot \subseteq 1..added
    /\ old \subseteq hot
    /\ evicted \subseteq 1..added
    /\ marked \subseteq hot
    /\ archive \subseteq Logs
    /\ reported \subseteq Logs
    /\ failures \in 0..MaxFailures
    /\ workers \subseteq Threads
    /\ step \in [Threads -> Steps]
    /\ rest \in [Threads -> SUBSET Logs]
    /\ batch \in [Threads -> SUBSET Logs]
    /\ committed \in [Threads -> SUBSET Logs]
    /\ counted \in [Threads -> SUBSET Logs]
    /\ stopEvent \in BOOLEAN
    /\ thread \in Threads \cup {NoThread}
    /\ joining \in BOOLEAN

Init ==
    /\ added = 0
    /\ hot = {}
    /\ old = {}
    /\ evicted = {}
    /\ marked = {}
    /\ archive = {}
    /\ reported = {}
    /\ failures = 0
    /\ workers = {}
    /\ step = [c \in Threads |-> "off"]
    /\ rest = [c \in Threads |-> {}]
    /\ batch = [c \in Threads |-> {}]
    /\ committed = [c \in Threads |-> {}]
    /\ counted = [c \in Threads |-> {}]
    /\ stopEvent = FALSE
    /\ thread = NoThread
    /\ joining = FALSE

-----------------------------------------------------------------------------
(***************************************************************************)
(* add_log(): a full deque drops its oldest entry, archived or not.         *)
(***************************************************************************)
Dropped ==
    IF Cardinality(hot) < HotMax THEN {} ELSE {l \in hot : \A k \in hot : l <= k}

AddLog ==
    /\ added < MaxLogs
    /\ added' = added + 1
    /\ hot' = (hot \ Dropped) \cup {added + 1}
    /\ old' = old \ Dropped
    /\ marked' = marked \ Dropped
    /\ evicted' = evicted \cup Dropped
    /\ UNCHANGED <<archive, reported, failures, cycleVars, schedulerVars>>

Age(l) ==
    /\ l \in hot \ old
    /\ old' = old \cup {l}
    /\ UNCHANGED <<added, hot, evicted, marked, archive, reported, failures,
                   cycleVars, schedulerVars>>

-----------------------------------------------------------------------------
(***************************************************************************)
(* The start of a cycle: the hot logs older than the threshold that are not *)
(* archived.  A manual trigger may ask for threshold zero: all of them.     *)
(***************************************************************************)
Alive(c) == step[c] # "off"

Goto(c, s) == step' = [step EXCEPT ![c] = s]

Thresholds(c) == IF c \in workers THEN {old} ELSE {old, hot}

Scan(c) ==
    /\ step[c] = "scan"
    /\ \E eligible \in Thresholds(c) :
          rest' = [rest EXCEPT ![c] = eligible \ marked]
    /\ Goto(c, "batches")
    /\ UNCHANGED <<storeVars, failures, batch, committed, counted, schedulerVars>>

(***************************************************************************)
(* One batch, in two store calls: add_archive_records(), idempotent by      *)
(* log_id, then mark_archived() for those still in the hot collection.      *)
(***************************************************************************)
Batch(c) == {l \in rest[c] : Cardinality({k \in rest[c] : k < l}) < BatchSize}

\* Mutated form of Commit: the records already in the cold collection are
\* counted as well.
CommitCountingAll(c) ==
    /\ step[c] = "batches"
    /\ rest[c] # {}
    /\ archive' = archive \cup Batch(c)
    /\ committed' = [committed EXCEPT ![c] = Batch(c)]
    /\ batch' = [batch EXCEPT ![c] = Batch(c)]
    /\ rest' = [rest EXCEPT ![c] = @ \ Batch(c)]
    /\ Goto(c, "mark")
    /\ UNCHANGED <<added, old, hot, evicted, marked, reported, failures, counted,
                   schedulerVars>>

Commit(c) ==
    /\ step[c] = "batches"
    /\ rest[c] # {}
    /\ archive' = archive \cup Batch(c)
    /\ committed' = [committed EXCEPT ![c] = Batch(c) \ archive]
    /\ batch' = [batch EXCEPT ![c] = Batch(c)]
    /\ rest' = [rest EXCEPT ![c] = @ \ Batch(c)]
    /\ Goto(c, "mark")
    /\ UNCHANGED <<added, old, hot, evicted, marked, reported, failures, counted,
                   schedulerVars>>

BatchEnds(c) ==
    /\ batch' = [batch EXCEPT ![c] = {}]
    /\ committed' = [committed EXCEPT ![c] = {}]

Mark(c) ==
    /\ step[c] = "mark"
    /\ marked' = marked \cup (batch[c] \cap hot)
    /\ counted' = [counted EXCEPT ![c] = @ \cup committed[c]]
    /\ BatchEnds(c)
    /\ Goto(c, "batches")
    /\ UNCHANGED <<added, old, hot, evicted, archive, reported, failures, rest,
                   schedulerVars>>

(***************************************************************************)
(* The batch raises, before the write or between write and mark: it counts  *)
(* as failed and the cycle goes on with the next one.                       *)
(***************************************************************************)
Fail(c, s) ==
    /\ failures < MaxFailures
    /\ failures' = failures + 1
    /\ Goto(c, s)

\* Mutated form of CommitFails: the batch is marked although it was not
\* written.
CommitFailsMarked(c) ==
    /\ step[c] = "batches"
    /\ rest[c] # {}
    /\ Fail(c, "batches")
    /\ rest' = [rest EXCEPT ![c] = @ \ Batch(c)]
    /\ marked' = marked \cup (Batch(c) \cap hot)
    /\ UNCHANGED <<added, old, hot, evicted, archive, reported, batch, committed,
                   counted, schedulerVars>>

CommitFails(c) ==
    /\ step[c] = "batches"
    /\ rest[c] # {}
    /\ Fail(c, "batches")
    /\ rest' = [rest EXCEPT ![c] = @ \ Batch(c)]
    /\ UNCHANGED <<storeVars, batch, committed, counted, schedulerVars>>

MarkFails(c) ==
    /\ step[c] = "mark"
    /\ Fail(c, "batches")
    /\ BatchEnds(c)
    /\ UNCHANGED <<storeVars, rest, counted, schedulerVars>>

(***************************************************************************)
(* The end of a cycle: purge_archived_from_hot() when it committed anything *)
(* (it purges what other cycles marked, too), then the saved summary.       *)
(***************************************************************************)
Purged(c) == IF counted[c] # {} THEN marked ELSE {}

Purge(c) ==
    /\ step[c] = "batches"
    /\ rest[c] = {}
    /\ hot' = hot \ Purged(c)
    /\ old' = old \ Purged(c)
    /\ marked' = marked \ Purged(c)
    /\ Goto(c, "save")
    /\ UNCHANGED <<added, evicted, archive, reported, failures, localVars,
                   schedulerVars>>

(***************************************************************************)
(* The scan or the purge raises: run() saves a summary that counts nothing, *)
(* whatever the cycle has archived.                                         *)
(***************************************************************************)
CycleFails(c) ==
    /\ \/ step[c] = "scan"
       \/ step[c] = "batches" /\ rest[c] = {} /\ counted[c] # {}
    /\ Fail(c, "save")
    /\ counted' = [counted EXCEPT ![c] = {}]
    /\ UNCHANGED <<storeVars, rest, batch, committed, schedulerVars>>

Save(c) ==
    /\ step[c] = "save"
    /\ reported' = reported \cup counted[c]
    /\ counted' = [counted EXCEPT ![c] = {}]
    /\ Goto(c, IF c \in workers THEN "looping" ELSE "off")
    /\ UNCHANGED <<added, old, hot, evicted, marked, archive, failures, rest,
                   batch, committed, schedulerVars>>

Trigger(c) ==
    /\ ~Alive(c)
    /\ workers' = workers \ {c}
    /\ Goto(c, "scan")
    /\ UNCHANGED <<storeVars, failures, localVars, stopEvent, thread, joining>>

-----------------------------------------------------------------------------
(***************************************************************************)
(* The worker: one cycle after another, with an interruptible sleep between *)
(* them, until it sees the stop event.                                      *)
(***************************************************************************)
\* Mutated form of Loop: the worker leaves only when it is the scheduler's.
LoopUntilDisowned(w) ==
    /\ step[w] = "looping"
    /\ Goto(w, IF stopEvent /\ thread = w THEN "off" ELSE "scan")
    /\ UNCHANGED <<storeVars, failures, localVars, schedulerVars>>

Loop(w) ==
    /\ step[w] = "looping"
    /\ Goto(w, IF stopEvent THEN "off" ELSE "scan")
    /\ UNCHANGED <<storeVars, failures, localVars, schedulerVars>>

(***************************************************************************)
(* start(): refused while the thread it knows is alive, else the event all  *)
(* workers share is cleared and a thread started.  stop(): set the event,   *)
(* wait for the thread, and forget it, also when the wait timed out.        *)
(***************************************************************************)
Start(w) ==
    /\ ~joining
    /\ thread # NoThread => ~Alive(thread)
    /\ ~Alive(w)
    /\ stopEvent' = FALSE
    /\ thread' = w
    /\ workers' = workers \cup {w}
    /\ Goto(w, "looping")
    /\ UNCHANGED <<storeVars, failures, localVars, joining>>

Stop ==
    /\ ~joining
    /\ stopEvent' = TRUE
    /\ joining' = (thread # NoThread)
    /\ UNCHANGED <<storeVars, failures, cycleVars, workers, thread>>

StopReturns ==
    /\ joining
    /\ joining' = FALSE
    /\ thread' = NoThread
    /\ UNCHANGED <<storeVars, failures, cycleVars, workers, stopEvent>>

-----------------------------------------------------------------------------
Proceed(c) == Loop(c) \/ Scan(c) \/ Commit(c) \/ Mark(c) \/ Purge(c) \/ Save(c)

Next ==
    \/ AddLog
    \/ \E l \in Logs : Age(l)
    \/ \E c \in Threads :
          \/ Proceed(c) \/ CommitFails(c) \/ MarkFails(c) \/ CycleFails(c)
          \/ Trigger(c) \/ Start(c)
    \/ Stop
    \/ StopReturns

(***************************************************************************)
(* Threads run and sleeps end; nobody has to add, trigger, start or stop.   *)
(***************************************************************************)
Spec ==
    /\ Init
    /\ [][Next]_vars
    /\ \A c \in Threads : WF_vars(Proceed(c))

-----------------------------------------------------------------------------
(***************************************************************************)
(* No log is lost: one that is no longer hot is in the cold collection,     *)
(* unless the full hot collection pushed it out, whatever batches raise and *)
(* however cycles overlap.                                                  *)
(***************************************************************************)
NoLogLost == 1..added \subseteq hot \cup archive \cup evicted

(***************************************************************************)
(* Run summaries add up: no log is counted as archived by two cycles, and   *)
(* none that is not in the cold collection, although cycles overlap, fail   *)
(* and repeat batches.  (A failed cycle's logs may be counted by none.)     *)
(***************************************************************************)
CountedOnce ==
    /\ reported \subseteq archive
    /\ \A c \in Threads : counted[c] \subseteq archive \ reported
    /\ \A c, d \in Threads : c # d => counted[c] \cap counted[d] = {}

(***************************************************************************)
(* The store with its overlapping and failing cycles is such an archive.    *)
(***************************************************************************)
Ledger == INSTANCE LogLedger
          WITH accepted <- 1..added, kept <- hot, archived <- archive,
               pushedOut <- evicted

LedgerSpec == Ledger!Spec

(***************************************************************************)
(* While the scheduler runs, a log past the threshold is archived or pushed *)
(* out, at the latest when batches and cycles stop raising.                 *)
(***************************************************************************)
Running == ~stopEvent /\ thread # NoThread

OldLogsArchived ==
    \A l \in Logs :
        Running /\ l \in old ~> ~Running \/ l \in archive \cup evicted

(***************************************************************************)
(* After the last stop() no worker thread goes on for ever, those included  *)
(* that earlier stop() calls gave up waiting for.                           *)
(***************************************************************************)
StopEndsWorkers == <>[]stopEvent => <>[](\A w \in workers : ~Alive(w))
=============================================================================
