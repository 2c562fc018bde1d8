--------------------------- MODULE MCHoneypotEscrow ---------------------------
(***************************************************************************)
(* Two honeypots of one account, two passes of the auto-release loop (the   *)
(* second from a restarted loop) and one caller.                            *)
(***************************************************************************)
EXTENDS HoneypotEscrow

CONSTANT a1

MCTarget == [h \in Honeypots |-> a1]
=============================================================================
