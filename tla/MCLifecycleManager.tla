------------------------- MODULE MCLifecycleManager -------------------------
(***************************************************************************)
(* Three startup steps (the second one critical) and two shutdown steps     *)
(* over a one-slot dispatcher; the first shutdown step to run releases the  *)
(* third startup step, the other one the first two.                         *)
(***************************************************************************)
EXTENDS LifecycleManager

MCTearsDown == [s \in 1..2 |-> IF s = 2 THEN {3} ELSE {1, 2}]
=============================================================================
