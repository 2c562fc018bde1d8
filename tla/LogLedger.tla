------------------------------ MODULE LogLedger ------------------------------
(***************************************************************************)
(* What a log archive promises, whoever runs its cycles: an accepted log is *)
(* kept until it is in the archive, except that a new log may push out the  *)
(* oldest one kept; what is archived stays archived; and a report counts    *)
(* only archived logs that no earlier report has counted.  Logs are         *)
(* numbered in the order they come.                                         *)
(***************************************************************************)
EXTENDS Naturals

CONSTANT Logs

VARIABLES accepted, kept, archived, pushedOut, reported

vars == <<accepted, kept, archived, pushedOut, reported>>

Init ==
    /\ accepted = {}
    /\ kept = {}
    /\ archived = {}
    /\ pushedOut = {}
    /\ reported = {}

Oldest == {l \in kept : \A k \in kept : l <= k}

Accept(l) ==
    /\ l \in Logs \ accepted
    /\ accepted' = accepted \cup {l}
    /\ \E out \in SUBSET Oldest :
          /\ kept' = (kept \ out) \cup {l}
          /\ pushedOut' = pushedOut \cup out
    /\ UNCHANGED <<archived, reported>>

Archive(batch) ==
    /\ batch \subseteq accepted
    /\ archived' = archived \cup batch
    /\ UNCHANGED <<accepted, kept, pushedOut, reported>>

Discard(purged) ==
    /\ purged \subseteq kept \cap archived
    /\ kept' = kept \ purged
    /\ UNCHANGED <<accepted, archived, pushedOut, reported>>

Report(counted) ==
    /\ counted \subseteq archived \ reported
    /\ reported' = reported \cup counted
    /\ UNCHANGED <<accepted, kept, archived, pushedOut>>

Next ==
    \/ \E l \in Logs : Accept(l)
    \/ \E ls \in SUBSET Logs : Archive(ls) \/ Discard(ls) \/ Report(ls)

Spec == Init /\ [][Next]_vars
=============================================================================
