---------------------------- MODULE MCSetnxLock -----------------------------
(* The instance of SetnxLock for TLC: a unit of time is the 50 ms of the   *)
(* first delay, the other times are scaled down.  No symmetry: liveness.   *)
EXTENDS SetnxLock
=============================================================================
