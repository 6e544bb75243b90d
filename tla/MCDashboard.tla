---------------------------- MODULE MCDashboard ----------------------------
(* The instance of Dashboard for TLC: two users and one notification, to   *)
(* either of them, to all, or stored for one and sent to all.              *)
EXTENDS Dashboard

AllBodies == Body
=============================================================================
