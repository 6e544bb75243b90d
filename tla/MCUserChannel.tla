--------------------------- MODULE MCUserChannel ----------------------------
(* The instances of UserChannel for TLC: MCUserChannel.cfg (three streams  *)
(* of one user) and MCUserChannelTabs.cfg (two).  No symmetry: liveness.   *)
EXTENDS UserChannel
=============================================================================
