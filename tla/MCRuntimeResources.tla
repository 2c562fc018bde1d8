------------------------- MODULE MCRuntimeResources -------------------------
(***************************************************************************)
(* Small instances of RuntimeResources, with and without the policy engine. *)
(***************************************************************************)
EXTENDS RuntimeResources
=============================================================================
