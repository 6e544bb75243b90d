--------------------------- MODULE MCIssueCoupon ----------------------------
(* The instance of IssueCoupon for TLC.  No symmetry: liveness.            *)
EXTENDS IssueCoupon
=============================================================================
