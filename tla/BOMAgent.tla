------------------------------ MODULE BOMAgent ------------------------------
(***************************************************************************)
(* BOMAgent.run of agents/bom_agent.py: plan, execute, retrieve evidence,  *)
(* respond, in that order and within one call.                             *)
(***************************************************************************)
EXTENDS AgentSession

VARIABLES
  strict,        \* AgentPlanner's validate_registered_tools
  stage          \* where the call is: see Stages

agentVars == <<executorVars, sessionVars, strict, stage>>

Stages == {"idle", "planning", "executing", "responding", "answered"}

AgentInit ==
  /\ SessionInit
  /\ strict \in BOOLEAN
  /\ stage = "idle"

Receive(r) ==
  /\ stage = "idle"
  /\ stage' = "planning"
  /\ request' = r
  /\ UNCHANGED <<executorVars, ragService, agentErrors, evidence, response, strict>>

(* Faulty: only the error for a blank task is caught.                      *)
FailBlankTask ==
  /\ stage = "planning"
  /\ request.blank
  /\ RefuseTask(strict)
  /\ stage' = "responding"
  /\ UNCHANGED strict

(* create_execution_plan raises ValueError: respond at once.               *)
FailPlanning ==
  /\ stage = "planning"
  /\ RefuseTask(strict)
  /\ stage' = "responding"
  /\ UNCHANGED strict

StartExecution ==
  /\ stage = "planning"
  /\ ~Refused(request, registry, strict)
  /\ Submit(PlanFor(request.words, registry))
  /\ stage' = "executing"
  /\ UNCHANGED <<sessionVars, strict>>

ExecutePlan ==
  /\ stage = "executing"
  /\ Execute
  /\ UNCHANGED <<sessionVars, strict, stage>>

(* _collect_rag_evidence                                                   *)
CollectEvidence ==
  /\ stage = "executing"
  /\ phase = "finished"
  /\ stage' = "responding"
  /\ UNCHANGED strict
  /\ \/ Retrieve
     \/ ~request.evidence /\ UNCHANGED <<executorVars, sessionVars>>

GiveResponse ==
  /\ stage = "responding"
  /\ Respond
  /\ stage' = "answered"
  /\ UNCHANGED strict

AgentWork == FailPlanning \/ StartExecution \/ ExecutePlan \/ CollectEvidence \/ GiveResponse

AgentNext == (\E r \in Requests : Receive(r)) \/ AgentWork

AgentSpec == AgentInit /\ [][AgentNext]_agentVars

(* Planning, the awaits of the tools and of the retrieval all come back.   *)
FairAgentSpec == AgentSpec /\ WF_agentVars(AgentWork)

-----------------------------------------------------------------------------

(* Every request is answered, whatever the planner, the tools and the      *)
(* retrieval do.                                                           *)
AgentAnswers == stage = "planning" ~> response # NoResponse

=============================================================================
