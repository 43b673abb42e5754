---------------------------- MODULE MCAgentGraph ----------------------------
(***************************************************************************)
(* AgentGraph on every task, registry and retrieval service.               *)
(***************************************************************************)
EXTENDS AgentGraph

MCIds == {"step_1", "step_2"}
MCTools == AgentTools
MCPlans == AgentPlans

=============================================================================
