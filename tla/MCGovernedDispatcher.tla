------------------------ MODULE MCGovernedDispatcher ------------------------
(***************************************************************************)
(* A one-slot dispatcher, two ordinary events and one shutdown event,       *)
(* under a resource manager whose every limit is small enough to be hit.    *)
(***************************************************************************)
EXTENDS GovernedDispatcher
=============================================================================
