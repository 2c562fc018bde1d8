------------------------- MODULE MCRuntimeSupervisor -------------------------
(***************************************************************************)
(* The deployed settings (the honeypot loop with its 60 s period under a    *)
(* 30 s timeout and a 10 s watchdog), next to a loop that beats in time;    *)
(* and a quick loop that crashes, fails and exhausts every limit.           *)
(***************************************************************************)
EXTENDS RuntimeSupervisor

CONSTANT Honeypot

MCPeriod == [s \in Services |-> IF s = Honeypot THEN 6 ELSE 2]
=============================================================================
