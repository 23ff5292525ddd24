-------------------------- MODULE MCMonitorRegistry --------------------------
(* MonitorRegistry on small sets. *)
EXTENDS MonitorRegistry

CONSTANTS n1, m1, m2, p1, p2, r1
==============================================================================
