---------------------------- MODULE EventDelivery ----------------------------
(***************************************************************************)
(* What an event delivery service with a graceful shutdown promises: while  *)
(* it is open it takes events, it delivers each event it took exactly once, *)
(* in any order, and it closes only when it owes nothing.  It may abandon   *)
(* what it owes only when its shutdown is itself interrupted.               *)
(***************************************************************************)
CONSTANTS Events, MayAbandon

VARIABLES open, inFlight, delivered

vars == <<open, inFlight, delivered>>

Init == open = FALSE /\ inFlight = {} /\ delivered = {}

Open ==
    /\ ~open
    /\ open' = TRUE
    /\ UNCHANGED <<inFlight, delivered>>

(***************************************************************************)
(* It may open for the sake of an event, which it owes from the start.      *)
(***************************************************************************)
OpenFor(e) ==
    /\ ~open
    /\ e \notin inFlight \cup delivered
    /\ open' = TRUE
    /\ inFlight' = inFlight \cup {e}
    /\ UNCHANGED delivered

Take(e) ==
    /\ open
    /\ e \notin inFlight \cup delivered
    /\ inFlight' = inFlight \cup {e}
    /\ UNCHANGED <<open, delivered>>

Deliver(e) ==
    /\ open
    /\ e \in inFlight
    /\ inFlight' = inFlight \ {e}
    /\ delivered' = delivered \cup {e}
    /\ UNCHANGED open

Close ==
    /\ open
    /\ inFlight = {}
    /\ open' = FALSE
    /\ UNCHANGED <<inFlight, delivered>>

Abandon ==
    /\ MayAbandon
    /\ open
    /\ open' = FALSE
    /\ inFlight' = {}
    /\ UNCHANGED delivered

Next ==
    \/ Open
    \/ \E e \in Events : OpenFor(e) \/ Take(e) \/ Deliver(e)
    \/ Close
    \/ Abandon

Spec == Init /\ [][Next]_vars /\ \A e \in Events : WF_vars(Deliver(e))
=============================================================================
