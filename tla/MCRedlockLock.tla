--------------------------- MODULE MCRedlockLock ----------------------------
(* The instance of RedlockLock for TLC.  No symmetry: liveness.            *)
EXTENDS RedlockLock
=============================================================================
