---------------------------- MODULE AgentSession ----------------------------
(***************************************************************************)
(* What the two agents of this code share for one request: the planner,    *)
(* the executor (ToolExecutor) that runs the plan, the retrieval of        *)
(* evidence after it, and the response built from the state they leave.    *)
(* BOMAgent and AgentGraph are the two orders in which they are called.    *)
(*                                                                         *)
(* AgentState.status is the executor's status variable, which the planner  *)
(* and the retrieval change too; the entries of AgentState.errors that are *)
(* not the executor's are in agentErrors.                                  *)
(***************************************************************************)
EXTENDS ToolExecutor, AgentPlanner, FiniteSets

CONSTANTS
  NoRequest,     \* before the agent is called
  NoResponse     \* before it answers

(* AgentResponse, without the words of its summary.                        *)
Summaries == {"completed", "one or more tools failed", "failed", "not completed"}
Responses == [status : {"success", "partial", "failed"}, succeeded : Nat, failed : Nat,
              executed : Nat, summary : Summaries]

ASSUME AgentAssumption ==
  /\ AgentTools \subseteq Tools /\ AgentPlans \subseteq Plans
  /\ NoRequest \notin Requests /\ NoResponse \notin Responses

VARIABLES
  request,       \* the AgentRequest, or none yet
  ragService,    \* whether a retrieval service is configured
  agentErrors,   \* errors recorded outside the executor, by origin
  evidence,      \* whether retrieval answered
  response       \* the AgentResponse, or none yet

sessionVars == <<request, ragService, agentErrors, evidence, response>>

SessionInit ==
  /\ Init
  /\ request = NoRequest
  /\ ragService \in {"configured", "absent"}
  /\ agentErrors = {}
  /\ evidence = FALSE
  /\ response = NoResponse

(* Faulty: trouble with the evidence is only noted, or always partial.     *)
DowngradeNothing == UNCHANGED status
DowngradeAll == status' = "partial"

(* Trouble with the evidence turns a success into a partial one.           *)
Downgrade ==
  status' = IF status = "success" THEN "partial" ELSE status

(* The plan is refused: no step of it will run.                            *)
RefuseTask(strict) ==
  /\ Refused(request, registry, strict)
  /\ status' = "failed"
  /\ agentErrors' = agentErrors \cup {"planner"}
  /\ UNCHANGED <<registry, plan, phase, stepStatus, executions, outputs, results, errors>>
  /\ UNCHANGED <<request, ragService, evidence, response>>

(* Retrieval is asked for, and answers, raises or is not configured.       *)
Retrieve ==
  /\ request.evidence
  /\ \/ /\ ragService = "configured"
        /\ evidence' = TRUE
        /\ UNCHANGED <<status, agentErrors>>
     \/ \* no service, or retrieve_evidence raises
        /\ agentErrors' = agentErrors \cup {"evidence"}
        /\ Downgrade
        /\ UNCHANGED evidence
  /\ UNCHANGED <<registry, plan, phase, stepStatus, executions, outputs, results, errors>>
  /\ UNCHANGED <<request, ragService, response>>

ExecutedAs(s) == {i \in DOMAIN executions : executions[i].status = s}

ResponseStatus == IF status \in {"success", "partial"} THEN status ELSE "failed"

(* _build_response.  The confidence is succeeded / executed, 0 when        *)
(* nothing was executed; the summary is worded by the status.              *)
Answer ==
  [status |-> ResponseStatus,
   succeeded |-> Cardinality(ExecutedAs("success")),
   failed |-> Cardinality(ExecutedAs("failed")),
   executed |-> Len(executions),
   summary |-> CASE status = "success" -> "completed"
                 [] status = "partial" -> "one or more tools failed"
                 [] status = "failed"  -> "failed"
                 [] OTHER              -> "not completed"]

Respond ==
  /\ response = NoResponse
  /\ response' = Answer
  /\ UNCHANGED executorVars
  /\ UNCHANGED <<request, ragService, agentErrors, evidence>>

-----------------------------------------------------------------------------
(* Correctness of an answer, whichever agent gives it.                     *)

(* The plans the planner makes from the registry are never refused by the  *)
(* executor's validation, and a refused task executes nothing.             *)
PlansAreRunnable ==
  /\ phase \notin {"idle", "submitted"} => Valid(plan)
  /\ "planner" \in agentErrors => phase = "idle" /\ executions = <<>>

(* Alternatives are only analysed after the BOM analysis they depend on    *)
(* has succeeded in the same request, and with its output.                 *)
AlternativesNeedBom ==
  \A i \in DOMAIN executions :
     plan[i].tool = AlternativeTool /\ executions[i].attempts > 0 =>
       \E j \in 1..(i - 1) :
          /\ plan[j].tool = BomTool
          /\ executions[j].status = "success"
          /\ plan[j].id \in executions[i].given

(* A request is answered with success only when every tool its task calls  *)
(* for ran and succeeded, nothing was recorded as an error, and evidence,  *)
(* if asked for, was retrieved.                                            *)
SuccessIsComplete ==
  response # NoResponse /\ response.status = "success" =>
    /\ [i \in DOMAIN plan |-> plan[i].tool] = PlannedTools(request.words)
    /\ ExecutedAs("success") = DOMAIN plan
    /\ errors = {} /\ agentErrors = {}
    /\ request.evidence = evidence

(* Once the executor has given a final status, it is never improved: the   *)
(* evidence stage can only turn a success into a partial one.              *)
NeverUpgraded ==
  [][phase = "finished" =>
       status' = status \/ (status = "success" /\ status' = "partial")]_<<phase, status>>

=============================================================================
