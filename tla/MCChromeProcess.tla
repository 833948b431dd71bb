-------------------------- MODULE MCChromeProcess --------------------------
(* Instances of ChromeProcess for TLC: a line on one pipe, and one and a    *)
(* half on the other.                                                       *)
EXTENDS ChromeProcess

CONSTANTS stdout, stderr

Output == [p \in Pipes |-> IF p = stdout THEN 2 ELSE 3]
=============================================================================
