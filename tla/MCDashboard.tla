---------------------------- MODULE MCDashboard ----------------------------
(* An instance of Dashboard for TLC: one queue, a timeout of two intervals, a  *)
(* fetch by key press beside the ticks, a restart and a failed fetch.          *)
EXTENDS Dashboard
CONSTANTS k1, t1, t2, t3, t4, p1
=============================================================================
