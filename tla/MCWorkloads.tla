----------------------------- MODULE MCWorkloads -----------------------------
(* Workloads with one name that has a dot, and the name it is converted to. *)
EXTENDS Workloads, TLC

CONSTANTS dotted, dashed

MCDashed == dotted :> dashed @@ dashed :> dashed
==============================================================================
