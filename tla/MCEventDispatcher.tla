-------------------------- MODULE MCEventDispatcher --------------------------
(***************************************************************************)
(* Small instances of EventDispatcher: two shutdown events and two ordinary *)
(* events against a queue of one or two slots, so that the queue fills, the *)
(* overflow deque holds more than one event, and dispatches meet stop().    *)
(***************************************************************************)
EXTENDS EventDispatcher
=============================================================================
