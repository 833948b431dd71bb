----------------------------- MODULE MCBrowser -----------------------------
(* Instance of Browser for TLC.  A profile attach makes two runs, one       *)
(* command for all its cookies and two for its storage values; a click      *)
(* makes one run of three commands.                                         *)
EXTENDS Browser, TLC

CONSTANTS attach, click

SomeRuns == [r \in Requests |-> IF r = attach THEN <<1, 2>> ELSE <<3>>]
Timeouts == [r \in Requests |-> IF r = attach THEN 1 ELSE 2]
=============================================================================
