-------------------------- MODULE MCPlanningGraph ---------------------------
(* Model-checking instances of the planning graph. *)
EXTENDS PlanningGraphProperties
=============================================================================
