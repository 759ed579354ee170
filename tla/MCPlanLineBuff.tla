--------------------------- MODULE MCPlanLineBuff ---------------------------
(* PlanLineBuff on a ring of four slots, for TLC. *)
EXTENDS PlanLineBuff
=============================================================================
