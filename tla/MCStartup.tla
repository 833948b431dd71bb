----------------------------- MODULE MCStartup -----------------------------
(* Instance of Startup for TLC.  A tick is one pause; the real values are  *)
(* 40 attempts, pauses of 1, a client timeout of 8 and a startup timeout   *)
(* of 40 ticks.  The configurations keep their proportions: the pauses     *)
(* between the attempts last just less than the timeout, and two hanging   *)
(* probes use up a good part of it.                                        *)
EXTENDS Startup
=============================================================================
