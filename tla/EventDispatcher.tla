--------------------------- MODULE EventDispatcher ---------------------------
(***************************************************************************)
(* The bounded runtime event dispatcher of src/runtime/events/dispatcher.py *)
(* running on one asyncio event loop.  Every segment of a coroutine between *)
(* two awaits is one action; dispatch() is synchronous and so is atomic.    *)
(*                                                                         *)
(* Each event object is dispatched at most once.  fate[e] and the two       *)
(* sequences arrived and published are history: the code does not keep      *)
(* them, the properties speak of them.                                      *)
(***************************************************************************)
EXTENDS Naturals, Sequences, FiniteSets

CONSTANTS Critical,     \* RuntimeShutdownEvent objects
          Ordinary,     \* all other event objects
          NoEvent,      \* "the loop holds no event"
          MaxSize,      \* maxsize of the asyncio.Queue
          CancelStops   \* whether a caller awaiting stop() may be cancelled

Events == Critical \cup Ordinary

ASSUME EventsAssumption ==
    /\ Critical \cap Ordinary = {}
    /\ NoEvent \notin Events
ASSUME MaxSizeAssumption == MaxSize \in Nat \ {0}
ASSUME CancelStopsAssumption == CancelStops \in BOOLEAN

VARIABLES
    started,        \* _started
    stopping,       \* _stopping
    stopRequested,  \* _stop_requested (an asyncio.Event)
    queue,          \* _queue
    overflow,       \* _overflow, leftmost element first
    loop,           \* where _process_loop stands
    current,        \* the event _process_loop has fetched
    fate,           \* history: what became of each event object
    arrived,        \* history: events dispatch() put straight into the queue
    published       \* history: events handed to the bus, in order

vars == <<started, stopping, stopRequested, queue, overflow, loop, current,
          fate, arrived, published>>

Elements(s) == {s[i] : i \in 1..Len(s)}

LoopStates == {"none", "fetching", "publishing", "done"}

Fates == {"new", "ignored", "refused", "dropped", "held", "late", "published",
          "abandoned"}

TypeOK ==
    /\ started \in BOOLEAN
    /\ stopping \in BOOLEAN
    /\ stopRequested \in BOOLEAN
    /\ queue \in Seq(Events)
    /\ overflow \in Seq(Critical)
    /\ loop \in LoopStates
    /\ current \in Events \cup {NoEvent}
    /\ fate \in [Events -> Fates]
    /\ arrived \in Seq(Events)
    /\ published \in Seq(Events)

(***************************************************************************)
(* The process loop is running: somebody will look at the queue again.      *)
(***************************************************************************)
LoopAlive == loop \in {"fetching", "publishing"}

Init ==
    /\ started = FALSE
    /\ stopping = FALSE
    /\ stopRequested = FALSE
    /\ queue = <<>>
    /\ overflow = <<>>
    /\ loop = "none"
    /\ current = NoEvent
    /\ fate = [e \in Events |-> "new"]
    /\ arrived = <<>>
    /\ published = <<>>

-----------------------------------------------------------------------------
(***************************************************************************)
(* start(): a no-op while started or stopping.  The queue and the stop flag *)
(* are new objects; overflow is not touched.                                *)
(***************************************************************************)
Start ==
    /\ ~started /\ ~stopping
    /\ started' = TRUE
    /\ queue' = <<>>
    /\ stopRequested' = FALSE
    /\ loop' = "fetching"
    /\ UNCHANGED <<stopping, overflow, current, fate, arrived, published>>

(***************************************************************************)
(* dispatch(e) with the admission decision of the resource manager.  A      *)
(* critical event does not ask; a full queue pushes it on the left of the   *)
(* overflow deque, and drops an ordinary event.  An event that arrives when *)
(* the loop has already returned is "late": no loop will look at it.        *)
(***************************************************************************)
Ignore(e) ==
    /\ ~started
    /\ fate' = [fate EXCEPT ![e] = "ignored"]
    /\ UNCHANGED <<queue, overflow, arrived>>

Refuse(e, admitted) ==
    /\ started
    /\ e \in Ordinary
    /\ ~admitted
    /\ fate' = [fate EXCEPT ![e] = "refused"]
    /\ UNCHANGED <<queue, overflow, arrived>>

Drop(e, admitted) ==
    /\ started
    /\ e \in Ordinary
    /\ admitted
    /\ Len(queue) >= MaxSize
    /\ fate' = [fate EXCEPT ![e] = "dropped"]
    /\ UNCHANGED <<queue, overflow, arrived>>

Hold(e) == fate' = [fate EXCEPT ![e] = IF LoopAlive THEN "held" ELSE "late"]

Enqueue(e, admitted) ==
    /\ started
    /\ e \in Critical \/ admitted
    /\ Len(queue) < MaxSize
    /\ queue' = Append(queue, e)
    /\ arrived' = Append(arrived, e)
    /\ Hold(e)
    /\ UNCHANGED overflow

\* Mutated form of Preserve: ordinary events overflow too.
PreserveAnyEvent(e) ==
    /\ started
    /\ Len(queue) >= MaxSize
    /\ overflow' = <<e>> \o overflow
    /\ Hold(e)
    /\ UNCHANGED <<queue, arrived>>

Preserve(e) ==
    /\ started
    /\ e \in Critical
    /\ Len(queue) >= MaxSize
    /\ overflow' = <<e>> \o overflow
    /\ Hold(e)
    /\ UNCHANGED <<queue, arrived>>

Offer(e, admitted) ==
    /\ fate[e] = "new"
    /\ \/ Ignore(e)
       \/ Refuse(e, admitted)
       \/ Drop(e, admitted)
       \/ Enqueue(e, admitted)
       \/ Preserve(e)
    /\ UNCHANGED <<started, stopping, stopRequested, loop, current, published>>

Dispatch(e) == \E admitted \in BOOLEAN : Offer(e, admitted)

-----------------------------------------------------------------------------
\* Mutated form of Fetch: the newest event first.
FetchNewest ==
    /\ loop = "fetching"
    /\ queue # <<>>
    /\ current' = queue[Len(queue)]
    /\ queue' = SubSeq(queue, 1, Len(queue) - 1)
    /\ loop' = "publishing"
    /\ UNCHANGED <<started, stopping, stopRequested, overflow, fate, arrived, published>>

\* Mutated form of Fetch: the event is read and not removed.
FetchWithoutRemoval ==
    /\ loop = "fetching"
    /\ queue # <<>>
    /\ current' = Head(queue)
    /\ loop' = "publishing"
    /\ UNCHANGED <<started, stopping, stopRequested, queue, overflow, fate, arrived, published>>

(***************************************************************************)
(* The loop head and _fetch_next_event(): an event is taken as soon as      *)
(* there is one, at once or after waiting.  A wait that times out comes     *)
(* back to the loop head and changes nothing.                               *)
(***************************************************************************)
Fetch ==
    /\ loop = "fetching"
    /\ queue # <<>>
    /\ current' = Head(queue)
    /\ queue' = Tail(queue)
    /\ loop' = "publishing"
    /\ UNCHANGED <<started, stopping, stopRequested, overflow, fate, arrived, published>>

(***************************************************************************)
(* _drain_overflow(): critical events go from the left of the overflow      *)
(* deque to the tail of the queue while it has room.                        *)
(***************************************************************************)
Room == IF Len(overflow) <= MaxSize - Len(queue)
        THEN Len(overflow)
        ELSE MaxSize - Len(queue)

\* Mutated form of DrainOverflow: the drain is forgotten.
NoDrain == UNCHANGED <<queue, overflow>>

\* Mutated form of DrainOverflow: the deque is cleared once it has been read.
DrainAndClear ==
    /\ queue' = queue \o SubSeq(overflow, 1, Room)
    /\ overflow' = <<>>

DrainOverflow ==
    /\ queue' = queue \o SubSeq(overflow, 1, Room)
    /\ overflow' = SubSeq(overflow, Room + 1, Len(overflow))

(***************************************************************************)
(* publish() returns (a handler's exception is contained by the bus), then  *)
(* the overflow is drained and the loop goes back to its head.              *)
(***************************************************************************)
Publish ==
    /\ loop = "publishing"
    /\ published' = Append(published, current)
    /\ fate' = [fate EXCEPT ![current] = "published"]
    /\ current' = NoEvent
    /\ loop' = "fetching"
    /\ DrainOverflow
    /\ UNCHANGED <<started, stopping, stopRequested, arrived>>

\* Mutated form of LoopExit: a stop request ends the loop at once.
LoopExitAtOnce ==
    /\ loop = "fetching"
    /\ stopRequested
    /\ loop' = "done"
    /\ UNCHANGED <<started, stopping, stopRequested, queue, overflow, current,
                   fate, arrived, published>>

(***************************************************************************)
(* The loop condition is false: the task returns.                           *)
(***************************************************************************)
LoopExit ==
    /\ loop = "fetching"
    /\ stopRequested
    /\ queue = <<>>
    /\ overflow = <<>>
    /\ loop' = "done"
    /\ UNCHANGED <<started, stopping, stopRequested, queue, overflow, current,
                   fate, arrived, published>>

-----------------------------------------------------------------------------
(***************************************************************************)
(* stop() up to the await of the loop's task.                               *)
(***************************************************************************)
StopRequest ==
    /\ started /\ ~stopping
    /\ stopping' = TRUE
    /\ stopRequested' = TRUE
    /\ UNCHANGED <<started, queue, overflow, loop, current, fate, arrived, published>>

\* Mutated form of Stopped: the overflow deque survives the stop.
StoppedKeepingOverflow ==
    /\ started' = FALSE
    /\ stopping' = FALSE
    /\ loop' = "none"
    /\ UNCHANGED <<stopRequested, queue, overflow, arrived, published>>

Stopped ==
    /\ overflow' = <<>>
    /\ started' = FALSE
    /\ stopping' = FALSE
    /\ loop' = "none"
    /\ UNCHANGED <<stopRequested, queue, arrived, published>>

(***************************************************************************)
(* stop() after the await.  Other callbacks of the event loop may run       *)
(* between the return of the task and this step.                            *)
(***************************************************************************)
StopReturn ==
    /\ stopping
    /\ loop = "done"
    /\ Stopped
    /\ UNCHANGED <<current, fate>>

(***************************************************************************)
(* The caller of stop() is cancelled while it awaits: the await cancels the *)
(* loop's task, stop() swallows the CancelledError and finishes.            *)
(***************************************************************************)
StopCancelled ==
    /\ CancelStops
    /\ stopping
    /\ LoopAlive
    /\ fate' = [e \in Events |-> IF fate[e] = "held" THEN "abandoned" ELSE fate[e]]
    /\ current' = NoEvent
    /\ Stopped

-----------------------------------------------------------------------------
Loop == Fetch \/ Publish \/ LoopExit

Next ==
    \/ Start
    \/ \E e \in Events : Dispatch(e)
    \/ Loop
    \/ StopRequest
    \/ StopReturn
    \/ StopCancelled

(***************************************************************************)
(* asyncio runs every ready task: the loop's task and the awaiting stop().  *)
(***************************************************************************)
Fairness == WF_vars(Loop) /\ WF_vars(StopReturn)

Spec == Init /\ [][Next]_vars /\ Fairness

-----------------------------------------------------------------------------
(***************************************************************************)
(* The events the running loop still owes to the bus.                       *)
(***************************************************************************)
InFlight ==
    IF LoopAlive
    THEN Elements(queue) \cup Elements(overflow) \cup ({current} \ {NoEvent})
    ELSE {}

(***************************************************************************)
(* Exact accounting across overflow, drain and shutdown: an event the       *)
(* dispatcher took charge of is in flight until it is published, nothing    *)
(* else is in flight, and so a graceful stop (LoopExit) loses none.         *)
(***************************************************************************)
HeldIsInFlight == \A e \in Events : fate[e] = "held" <=> e \in InFlight

(***************************************************************************)
(* A critical event waits in the overflow deque only behind a full queue    *)
(* (one slot may be free while the event that held it is being published).  *)
(* Otherwise _process_loop would wait on an empty queue and never drain.    *)
(***************************************************************************)
OverflowOnlyBehindFullQueue ==
    /\ Len(queue) <= MaxSize
    /\ overflow # <<>> =>
          IF loop = "publishing" THEN Len(queue) + 1 >= MaxSize
                                 ELSE Len(queue) = MaxSize

(***************************************************************************)
(* Every event reaches the bus at most once, whatever the number of         *)
(* overflows, drains and restarts.                                          *)
(***************************************************************************)
PublishedOnce ==
    \A i, j \in 1..Len(published) : published[i] = published[j] => i = j

(***************************************************************************)
(* Events that found room are published in the order they were dispatched;  *)
(* only those that went through the overflow deque may be overtaken.        *)
(***************************************************************************)
DirectFifo ==
    \A i, j \in 1..Len(published) : \A k, l \in 1..Len(arrived) :
        (i < j /\ published[i] = arrived[k] /\ published[j] = arrived[l]) => k < l

(***************************************************************************)
(* A dispatcher that reports "not started" is at rest: nobody is inside     *)
(* stop(), no task is left behind, and no critical event is left in the     *)
(* overflow deque, which start() would carry into the next session.         *)
(***************************************************************************)
StoppedIsClean ==
    ~started => ~stopping /\ loop = "none" /\ overflow = <<>> /\ current = NoEvent

(***************************************************************************)
(* stop() returns: the drain ends once the (finitely many) events are out.  *)
(***************************************************************************)
StopCompletes == stopping ~> ~started

(***************************************************************************)
(* Every event the dispatcher took charge of is published, critical events  *)
(* in the overflow deque included, unless stop() is cancelled.              *)
(***************************************************************************)
HeldIsPublished ==
    \A e \in Events : fate[e] = "held" ~> fate[e] \in {"published", "abandoned"}

(***************************************************************************)
(* What dispatcher.py promises: "critical events ... are never dropped".    *)
(***************************************************************************)
CriticalNeverDropped == \A e \in Critical : fate[e] # "late"

(***************************************************************************)
(* The abstract delivery service the dispatcher implements.                 *)
(***************************************************************************)
Delivered == {e \in Events : fate[e] = "published"}
Service == INSTANCE EventDelivery
           WITH open <- LoopAlive, inFlight <- InFlight, delivered <- Delivered,
                MayAbandon <- CancelStops
ServiceSpec == Service!Spec
=============================================================================
