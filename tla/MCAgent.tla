------------------------------ MODULE MCAgent ------------------------------
(* Instance of Agent for TLC: an attach, whose handler makes two calls, for  *)
(* a client that sends and reads at once, and a click for one that need not. *)
(* A tick is twenty to thirty seconds.                                       *)
EXTENDS Agent

CONSTANTS attach, click

Timeouts == [r \in Callers |-> 2]
Calls == [r \in Callers |-> IF r = attach THEN 2 ELSE 1]
=============================================================================
