---------------------------- MODULE MCNavigation ----------------------------
(* Instance of Navigation for TLC. *)
EXTENDS Navigation
=============================================================================
