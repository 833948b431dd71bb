---------------------------- MODULE MCLogEmitter ----------------------------
(* Instances of LogEmitter for TLC.  The run without fairness exchanges      *)
(* publishers and streams; the run that checks liveness uses no symmetry.    *)
EXTENDS LogEmitter, TLC

Symmetry == Permutations(Publishers) \cup Permutations(Streams)
=============================================================================
