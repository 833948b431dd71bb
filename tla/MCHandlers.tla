----------------------------- MODULE MCHandlers -----------------------------
(* Instances of Handlers for TLC: durations of 12 bits and milliseconds of *)
(* ten nanoseconds, so that 204 ms is the longest that can be expressed,   *)
(* 205 and 250 ms wrap to negative durations, 409 ms to one just below     *)
(* zero and 410 ms to a small positive one.                                *)
EXTENDS Handlers

SomeSettings == {-7, 0, 45}
SomeMillis == {-1, 0, 1, 204, 205, 250, 409, 410}
=============================================================================
