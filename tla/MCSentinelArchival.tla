-------------------------- MODULE MCSentinelArchival --------------------------
(***************************************************************************)
(* Two threads, each the scheduler's worker or a manual trigger at a time,   *)
(* over three logs and a hot collection of two: a worker that outlives      *)
(* stop() next to its successor, two overlapping cycles, a full collection. *)
(***************************************************************************)
EXTENDS SentinelArchival
=============================================================================
