----------------------------- MODULE MCBOMAgent -----------------------------
(***************************************************************************)
(* BOMAgent on every task, registry, retrieval service and planner mode.   *)
(***************************************************************************)
EXTENDS BOMAgent

MCIds == {"step_1", "step_2"}
MCTools == AgentTools
MCPlans == AgentPlans

=============================================================================
