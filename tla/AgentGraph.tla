----------------------------- MODULE AgentGraph -----------------------------
(***************************************************************************)
(* GraphBOMAgent: the same request carried through the LangGraph nodes of  *)
(* agents/graph/graph.py, from initialize to a terminal node.  The graph   *)
(* keeps a status and errors of its own beside those of AgentState.  It    *)
(* implements BOMAgent with the planner that does not insist on registered *)
(* tools.                                                                  *)
(***************************************************************************)
EXTENDS AgentSession

VARIABLES
  node,           \* GraphState.current_node, the node last executed
  executionPlan,  \* AgentState.execution_plan, before it is executed
  graphStatus,    \* GraphState.graph_status
  graphErrors     \* GraphState.graph_errors, by origin

graphVars == <<executorVars, sessionVars, node, executionPlan, graphStatus, graphErrors>>

Terminals == {"completed", "partial", "failed"}
Nodes == {"start", "initialize", "planner", "unsupported", "executor", "rag"}
           \cup AgentTools \cup Terminals

GraphInit ==
  /\ SessionInit
  /\ node = "start"
  /\ executionPlan = <<>>
  /\ graphStatus = "pending"
  /\ graphErrors = {}

Ask(r) ==
  /\ request = NoRequest
  /\ request' = r
  /\ UNCHANGED <<executorVars, ragService, agentErrors, evidence, response>>
  /\ UNCHANGED <<node, executionPlan, graphStatus, graphErrors>>

Initialize ==
  /\ node = "start"
  /\ request # NoRequest
  /\ node' = "initialize"
  /\ graphStatus' = "running"
  /\ UNCHANGED <<executorVars, sessionVars, executionPlan, graphErrors>>

PlannerNode ==
  /\ node = "initialize"
  /\ node' = "planner"
  /\ \/ /\ RefuseTask(FALSE)
        /\ graphStatus' = "failed"
        /\ graphErrors' = graphErrors \cup {"planner"}
        /\ UNCHANGED executionPlan
     \/ /\ ~Refused(request, registry, FALSE)
        /\ executionPlan' = PlanFor(request.words, registry)
        /\ graphStatus' = "planned"
        /\ UNCHANGED <<executorVars, sessionVars, graphErrors>>

RouteAfterPlanner ==
  LET planned == {executionPlan[i].tool : i \in DOMAIN executionPlan}
  IN  CASE graphStatus = "failed" \/ planned = {}                -> "unsupported"
        [] graphStatus # "failed" /\ BomTool \in planned         -> BomTool
        [] graphStatus # "failed" /\ planned = {ComponentTool}   -> ComponentTool
        [] graphStatus # "failed" /\ planned = {AlternativeTool} -> AlternativeTool

RouteNode ==
  /\ node = "planner"
  /\ RouteAfterPlanner \in AgentTools
  /\ node' = RouteAfterPlanner
  /\ graphStatus' = "routed"
  /\ UNCHANGED <<executorVars, sessionVars, executionPlan, graphErrors>>

UnsupportedNode ==
  /\ node = "planner"
  /\ RouteAfterPlanner = "unsupported"
  /\ node' = "unsupported"
  /\ status' = "failed"
  /\ agentErrors' = agentErrors \cup {"unsupported"}
  /\ graphStatus' = "failed"
  /\ graphErrors' = graphErrors \cup {"unsupported"}
  /\ UNCHANGED <<registry, plan, phase, stepStatus, executions, outputs, results, errors>>
  /\ UNCHANGED <<request, ragService, evidence, response, executionPlan>>

(* The executor node: execute() is awaited, and its status read after it.  *)
EnterExecutor ==
  /\ node \in AgentTools
  /\ Submit(executionPlan)
  /\ UNCHANGED <<sessionVars, node, executionPlan, graphStatus, graphErrors>>

InExecutor ==
  /\ node \in AgentTools
  /\ Execute
  /\ UNCHANGED <<sessionVars, node, executionPlan, graphStatus, graphErrors>>

GraphStatusOf(agentStatus) ==
  CASE agentStatus = "success" -> "completed"
    [] agentStatus = "partial" -> "partial"
    [] OTHER                   -> "failed"

LeaveExecutor ==
  /\ node \in AgentTools
  /\ phase = "finished"
  /\ node' = "executor"
  /\ graphStatus' = GraphStatusOf(status)
  /\ UNCHANGED <<executorVars, sessionVars, executionPlan, graphErrors>>

(* Faulty: only the agent's errors are extended.                           *)
RagNodeUnrecorded ==
  /\ node = "executor"
  /\ request.evidence
  /\ node' = "rag"
  /\ Retrieve
  /\ graphStatus' = CASE status' = "success" -> "rag_completed"
                      [] status' = "partial" -> "partial"
                      [] OTHER               -> "failed"
  /\ UNCHANGED <<executionPlan, graphErrors>>

RagNode ==
  /\ node = "executor"
  /\ request.evidence
  /\ node' = "rag"
  /\ Retrieve
  /\ graphStatus' = CASE status' = "success" -> "rag_completed"
                      [] status' = "partial" -> "partial"
                      [] OTHER               -> "failed"
  /\ graphErrors' = graphErrors \cup (IF evidence' THEN {} ELSE {"evidence"})
  /\ UNCHANGED executionPlan

(* Faulty: the terminal node keeps the graph's status; retrieval is passed *)
(* by.                                                                     *)
TerminalNodeKeeping ==
  /\ node = "rag" \/ (node = "executor" /\ ~request.evidence)
  /\ node' = GraphStatusOf(status)
  /\ UNCHANGED <<executorVars, sessionVars, executionPlan, graphStatus, graphErrors>>

TerminalNodePastRag ==
  /\ node \in {"rag", "executor"}
  /\ node' = GraphStatusOf(status)
  /\ graphStatus' = GraphStatusOf(status)
  /\ UNCHANGED <<executorVars, sessionVars, executionPlan, graphErrors>>

(* route_after_execution without evidence, and route_after_rag, choose by  *)
(* the status of the agent, not by that of the graph.                      *)
TerminalNode ==
  /\ node = "rag" \/ (node = "executor" /\ ~request.evidence)
  /\ node' = GraphStatusOf(status)
  /\ graphStatus' = GraphStatusOf(status)
  /\ UNCHANGED <<executorVars, sessionVars, executionPlan, graphErrors>>

(* Faulty: the unsupported node has no edge to END.                        *)
GraphRespondTerminal ==
  /\ node \in Terminals
  /\ Respond
  /\ UNCHANGED <<node, executionPlan, graphStatus, graphErrors>>

(* END is reached; GraphBOMAgent.run builds the response.                  *)
GraphRespond ==
  /\ node \in Terminals \cup {"unsupported"}
  /\ Respond
  /\ UNCHANGED <<node, executionPlan, graphStatus, graphErrors>>

GraphWork ==
  \/ Initialize \/ PlannerNode \/ RouteNode \/ UnsupportedNode
  \/ EnterExecutor \/ InExecutor \/ LeaveExecutor
  \/ RagNode \/ TerminalNode \/ GraphRespond

GraphNext == (\E r \in Requests : Ask(r)) \/ GraphWork

GraphSpec == GraphInit /\ [][GraphNext]_graphVars

(* ainvoke runs the graph to its end: nodes are awaited one after another. *)
FairGraphSpec == GraphSpec /\ WF_graphVars(GraphWork)

-----------------------------------------------------------------------------

(* Where BOMAgent would be.                                                *)
LinearStage ==
  CASE request = NoRequest     -> "idle"
    [] response # NoResponse   -> "answered"
    [] request # NoRequest /\ response = NoResponse ->
         IF \/ node \in {"rag", "unsupported"} \cup Terminals
            \/ node = "planner" /\ graphStatus = "failed"
         THEN "responding"
         ELSE IF phase = "idle" THEN "planning" ELSE "executing"

Linear == INSTANCE BOMAgent WITH
            stage <- LinearStage, strict <- FALSE,
            agentErrors <- agentErrors \ {"unsupported"}

(* The graph gives the answers of BOMAgent: the nodes plan, execute and    *)
(* retrieve in its order, and never skip, repeat or reorder one of them.   *)
ImplementsBOMAgent == Linear!AgentSpec

(* The two statuses agree when the graph ends, although each node sets its *)
(* own: the response of a completed graph is a success, and so on.         *)
StatusesAgree ==
  response # NoResponse =>
    /\ response.status = "success" <=> graphStatus = "completed"
    /\ response.status = "partial" <=> graphStatus = "partial"
    /\ response.status = "failed"  <=> graphStatus = "failed"

(* graph_errors has what the nodes record and nothing of what the executor *)
(* adds to AgentState.errors: after a failed tool the two lists differ.    *)
(* What they tell apart is sound all the same: the answer is the verdict   *)
(* on the executions, unless the graph lists an error of its own, which    *)
(* turns a success into a partial one; and a request without a route has   *)
(* run no tool.                                                            *)
NodeErrorsAgree ==
  /\ graphErrors = agentErrors
  /\ response # NoResponse =>
       response.status = IF graphErrors # {} /\ FinalStatus = "success"
                         THEN "partial" ELSE FinalStatus
  /\ "unsupported" \in graphErrors => executions = <<>>

(* The graph always reaches its end and the request is answered.           *)
GraphAnswers == node = "initialize" ~> response # NoResponse

=============================================================================
