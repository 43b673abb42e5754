---------------------------- MODULE AgentProofs ----------------------------
(***************************************************************************)
(* Proofs about the two agents, for every set of tools, every retry budget *)
(* and every request: first what holds of a request in either agent (facts *)
(* about the planner's plans, and what the executor's invariants say once  *)
(* it runs such a plan), then BOMAgent, AgentGraph, and that AgentGraph    *)
(* implements BOMAgent.  The two agents do not run together: a theorem is  *)
(* about the specification it names, and leaves the other one's variables  *)
(* alone.                                                                  *)
(***************************************************************************)
EXTENDS BOMAgent, AgentGraph, ToolExecutorProofs, FiniteSetTheorems

-----------------------------------------------------------------------------
(* What the executor concludes from its executions.                        *)

FinalOr(s) == s = FinalStatus \/ (FinalStatus = "success" /\ s = "partial")

(* Only registered tools are called; an error is about the plan, which was *)
(* refused, or about an execution that failed or was skipped; the final    *)
(* status is the summary of the executions, or was lowered since.          *)
Concluded ==
  /\ \A i \in DOMAIN executions : executions[i].attempts > 0 => plan[i].tool \in registry
  /\ \A i \in errors :
       \/ i = 0 /\ phase = "finished" /\ ~Valid(plan)
       \/ i \in DOMAIN executions /\ executions[i].status \in {"failed", "skipped"}
  /\ phase = "finished" /\ Valid(plan) => FinalOr(status)

(* Nothing has been concluded at the start.                                *)
LEMMA ConcludedInit == Init => Concluded
  BY DEF Init, Concluded

(* The executor keeps Concluded, whatever the tools answer.                *)
LEMMA ConcludedNext ==
  ASSUME Inv, Concluded, [Next]_executorVars
  PROVE  Concluded'
<1> DEFINE n == Len(executions)
<1>0. TypeOK /\ Shape /\ DOMAIN executions = 1..n /\ n \in Nat
  BY PlanType DEF Inv
<1>1. ASSUME NEW p \in Plans, Submit(p) PROVE Concluded'
  <2>1. /\ DOMAIN executions = {} /\ phase = "idle" /\ phase' = "submitted"
        /\ UNCHANGED <<executions, errors>>
    BY <1>0, <1>1, EmptySeq, LenProperties DEF Submit, Shape
  <2> QED
    BY <2>1 DEF Concluded
<1>2. CASE Reject
  BY <1>0, <1>2 DEF Reject, Concluded
<1>3. CASE Accept
  BY <1>0, <1>3 DEF Accept, Concluded
<1>4. CASE SkipBlocked \/ FailUnregistered
  <2>1. Upcoming \in DOMAIN plan /\ phase = "stepping"
    BY <1>4 DEF SkipBlocked, FailUnregistered
  <2>2. PICK end \in {"skipped", "failed"}, fault \in Faults : EndUncalled(end, fault)
    BY <1>4 DEF SkipBlocked, FailUnregistered, Faults
  <2> end \in ToolStatus
    BY DEF ToolStatus
  <2>3. /\ DOMAIN executions' = 1..(n + 1)
        /\ \A i \in 1..n : executions'[i] = executions[i]
        /\ executions'[n + 1] =
             [status |-> end, attempts |-> 0, error |-> fault, given |-> {}]
        /\ errors' = errors \cup {n + 1}
        /\ UNCHANGED <<registry, plan, phase>>
    BY <1>0, <2>1, <2>2, UncalledStep
  <2>4. \A i \in DOMAIN executions' : i \in DOMAIN executions \/ i = n + 1
    BY <1>0, <2>3
  <2>5. executions'[n + 1].status = end /\ executions'[n + 1].attempts = 0
    BY <2>3
  <2>6. DOMAIN executions \subseteq DOMAIN executions' /\ n + 1 \in DOMAIN executions'
    BY <1>0, <2>3
  <2> HIDE DEF n
  <2> QED
    BY <1>0, <2>1, <2>3, <2>4, <2>5, <2>6 DEF Concluded
<1>5. CASE Call
  <2>1. /\ phase = "stepping" /\ phase' = "calling"
        /\ DOMAIN executions' = 1..(n + 1)
        /\ \A i \in 1..n : executions'[i] = executions[i]
        /\ UNCHANGED <<registry, plan, errors>>
    BY <1>0, <1>5, CallStep
  <2>2. plan[n + 1].tool \in registry
    BY <1>5 DEF Call, Upcoming
  <2>3. \A i \in DOMAIN executions' : i \in DOMAIN executions \/ i = n + 1
    BY <1>0, <2>1
  <2>4. DOMAIN executions \subseteq DOMAIN executions'
    BY <1>0, <2>1
  <2> HIDE DEF n
  <2> QED
    BY <1>0, <2>1, <2>2, <2>3, <2>4 DEF Concluded
<1>6. CASE Retry
  <2>1. /\ phase = "calling" /\ DOMAIN executions' = DOMAIN executions
        /\ \A i \in 1..(n - 1) : executions'[i] = executions[i]
        /\ executions'[n].status = executions[n].status
        /\ UNCHANGED <<registry, plan, phase, errors>>
    BY <1>0, <1>6, RetryStep
  <2>2. n \in DOMAIN executions /\ executions[n].attempts > 0
    BY <1>0, <2>1, CallInProgress DEF Shape
  <2>3. \A i \in DOMAIN executions : i = n \/ i \in 1..(n - 1)
    BY <1>0
  <2> HIDE DEF n
  <2> QED
    BY <1>0, <2>1, <2>2, <2>3 DEF Concluded
<1>7. CASE GiveUp \/ BreakContract \/ Succeed \/ ReportSkip \/ ReportFailure
  <2>1. phase = "calling" /\ n \in DOMAIN executions
    BY <1>0, <1>7, CallEnds, CallInProgress
  <2>2. PICK end \in {"success", "failed", "skipped"}, fault \in Faults :
          /\ EndCall(end, fault)
          /\ errors' \in {errors, errors \cup {n}}
          /\ end = "success" => errors' = errors
    BY <1>0, <1>7, CallEnds
  <2> end \in ToolStatus
    BY DEF ToolStatus
  <2>3. /\ DOMAIN executions' = DOMAIN executions
        /\ \A i \in 1..(n - 1) : executions'[i] = executions[i]
        /\ executions'[n].status = end
        /\ executions'[n].attempts = executions[n].attempts
        /\ phase' = "stepping" /\ UNCHANGED <<registry, plan>>
    BY <1>0, <2>1, <2>2, EndCallStep
  <2>4. \A i \in DOMAIN executions : i = n \/ i \in 1..(n - 1)
    BY <1>0
  <2>5. executions[n].status = "running"
    BY <1>0, <2>1 DEF Shape
  <2> HIDE DEF n
  <2>6. \A i \in DOMAIN executions' : executions'[i].attempts > 0 => plan[i].tool \in registry
    BY <2>3, <2>4 DEF Concluded
  <2>7. \A i \in errors' :
          i \in DOMAIN executions /\ executions'[i].status \in {"failed", "skipped"}
    BY <2>1, <2>2, <2>3, <2>4, <2>5 DEF Concluded
  <2> QED
    BY <2>3, <2>6, <2>7 DEF Concluded
<1>8. CASE Finalize
  <2>1. /\ phase = "stepping" /\ phase' = "finished"
        /\ status' = FinalStatus
        /\ registry' = registry /\ plan' = plan
        /\ executions' = executions /\ errors' = errors
    BY <1>8 DEF Finalize
  <2>2. FinalStatus' = FinalStatus
    BY <2>1 DEF FinalStatus
  <2>3. FinalOr(status)'
    BY <2>1, <2>2 DEF FinalOr
  <2>4. \A i \in DOMAIN executions' :
          executions'[i].attempts > 0 => plan'[i].tool \in registry'
    BY <2>1 DEF Concluded
  <2>5. \A i \in errors' :
          i \in DOMAIN executions' /\ executions'[i].status \in {"failed", "skipped"}
    BY <2>1 DEF Concluded
  <2> QED
    BY <2>3, <2>4, <2>5 DEF Concluded
<1>9. CASE UNCHANGED executorVars
  BY <1>9 DEF executorVars, Concluded, FinalOr, FinalStatus
<1> QED
  BY <1>1, <1>2, <1>3, <1>4, <1>5, <1>6, <1>7, <1>8, <1>9 DEF Next, Execute

(* The planner and the retrieval only touch the status, before the run or  *)
(* to lower it after.                                                      *)
LEMMA StatusMoves ==
  ASSUME Inv, Concluded,
         UNCHANGED <<registry, plan, phase, stepStatus, executions, outputs, results, errors>>,
         \/ status' = status
         \/ phase = "idle" /\ status' \in AgentStatus
         \/ status = "success" /\ status' = "partial"
  PROVE  Inv' /\ Concluded'
<1>1. TypeOK' /\ Shape' /\ Untouched'
  BY DEF Inv, TypeOK, Shape, Untouched, AgentStatus
<1>2. CallsAreReady' /\ RecordsAgree' /\ FailuresExplained' /\ RetriesExhausted'
  BY DEF Inv, CallsAreReady, RecordsAgree, FailuresExplained, RetriesExhausted, Ended
<1>3. AllOrNothing'
  BY DEF Inv, AllOrNothing, Promise!Sound
<1>4. Concluded'
  BY DEF Concluded, FinalOr, FinalStatus
<1> QED
  BY <1>1, <1>2, <1>3, <1>4 DEF Inv

-----------------------------------------------------------------------------
(* The planner's plans.                                                    *)

ToolLists == {<<BomTool>>, <<ComponentTool>>, <<AlternativeTool>>, <<BomTool, AlternativeTool>>}

(* A task calls for one tool, or for the BOM analysis and the alternatives. *)
LEMMA PlannedToolsForm ==
  ASSUME NEW words
  PROVE  PlannedTools(words) \in ToolLists
<1>1. <<BomTool>> \o <<AlternativeTool>> = <<BomTool, AlternativeTool>>
  <2>1. /\ <<BomTool>> \in Seq(AgentTools) /\ <<AlternativeTool>> \in Seq(AgentTools)
        /\ <<BomTool, AlternativeTool>> \in Seq(AgentTools)
    BY DEF AgentTools
  <2> DEFINE s == <<BomTool>> \o <<AlternativeTool>>
  <2>2. /\ s \in Seq(AgentTools) /\ Len(s) = 2 /\ s[1] = BomTool /\ s[2] = AlternativeTool
    BY <2>1, ConcatProperties
  <2> HIDE DEF s
  <2>3. s = <<BomTool, AlternativeTool>>
    BY <2>1, <2>2, SeqEqual
  <2> QED
    BY <2>3 DEF s
<1>2. <<>> \o <<AlternativeTool>> = <<AlternativeTool>>
  BY DEF AlternativeTool
<1> QED
  BY <1>1, <1>2 DEF PlannedTools, ToolLists

(* A plan has one step, or two of which only the second can depend on the  *)
(* other.                                                                  *)
LEMMA PlanForForm ==
  ASSUME NEW words, NEW registered
  PROVE  LET tools == PlannedTools(words)  p == PlanFor(words, registered)
         IN  /\ DOMAIN p = DOMAIN tools
             /\ DOMAIN tools = 1..1 \/ DOMAIN tools = 1..2
             /\ DOMAIN tools = 1..Len(tools) /\ Len(tools) \in {1, 2}
             /\ \A i \in DOMAIN p : /\ p[i].tool = tools[i] /\ tools[i] \in AgentTools
                                   /\ p[i].id = IF i = 1 THEN "step_1" ELSE "step_2"
             /\ p[1].deps = {}
             /\ DOMAIN tools = 1..2 =>
                  /\ tools[1] = BomTool /\ tools[2] = AlternativeTool
                  /\ p[2].deps = IF AlternativeTool \in registered THEN {"step_1"} ELSE {}
<1> DEFINE tools == PlannedTools(words)
           p == PlanFor(words, registered)
<1>1. tools \in ToolLists
  BY PlannedToolsForm
<1>2. /\ DOMAIN tools = 1..1 \/ DOMAIN tools = 1..2
      /\ DOMAIN tools = 1..Len(tools) /\ Len(tools) \in {1, 2}
      /\ \A i \in DOMAIN tools : tools[i] \in AgentTools
      /\ DOMAIN tools = 1..2 => tools[1] = BomTool /\ tools[2] = AlternativeTool
      /\ 1 \in DOMAIN tools
  BY <1>1 DEF ToolLists, AgentTools, BomTool, ComponentTool, AlternativeTool
<1>3. /\ DOMAIN p = DOMAIN tools
      /\ \A i \in DOMAIN tools : /\ p[i].id = StepName[i] /\ p[i].tool = tools[i]
                                /\ p[i].deps = {StepName[j] : j \in Providers(tools, i, registered)}
  BY DEF PlanFor
<1> HIDE DEF tools, p
<1>4. StepName[1] = "step_1" /\ StepName[2] = "step_2"
  BY DEF StepName
<1>5. \A i \in DOMAIN p : p[i].id = IF i = 1 THEN "step_1" ELSE "step_2"
  BY <1>2, <1>3, <1>4
<1>6. p[1].deps = {}
  <2>1. Providers(tools, 1, registered) = {}
    BY DEF Providers
  <2> QED
    BY <1>2, <1>3, <2>1
<1>7. ASSUME DOMAIN tools = 1..2
      PROVE  p[2].deps = IF AlternativeTool \in registered THEN {"step_1"} ELSE {}
  <2>1. Providers(tools, 2, registered) = IF AlternativeTool \in registered THEN {1} ELSE {}
    BY <1>2, <1>7 DEF Providers, Dependencies
  <2>2. 2 \in DOMAIN tools
    BY <1>7
  <2> QED
    <3>1. p[2].deps = {StepName[j] : j \in Providers(tools, 2, registered)}
      BY <1>3, <2>2
    <3>2. CASE AlternativeTool \in registered
      BY <1>4, <2>1, <3>1, <3>2
    <3>3. CASE AlternativeTool \notin registered
      BY <2>1, <3>1, <3>3
    <3> QED
      BY <3>2, <3>3
<1> QED
  BY <1>2, <1>3, <1>5, <1>6, <1>7 DEF tools, p

(* What the planner makes passes the executor's validation.                *)
LEMMA PlanForIsValid ==
  ASSUME NEW words, NEW registered
  PROVE  Valid(PlanFor(words, registered))
<1> DEFINE p == PlanFor(words, registered)
<1>1. /\ DOMAIN p = 1..1 \/ DOMAIN p = 1..2
      /\ \A i \in DOMAIN p : p[i].id = IF i = 1 THEN "step_1" ELSE "step_2"
      /\ p[1].deps = {}
      /\ DOMAIN p = 1..2 => p[2].deps \subseteq {"step_1"}
  BY PlanForForm
<1> HIDE DEF p
<1>2. \A i \in DOMAIN p : i \in {1, 2}
  BY <1>1
<1>3. p # <<>>
  BY <1>1
<1>4. ~HasDuplicateIds(p)
  BY <1>1, <1>2 DEF HasDuplicateIds
<1>5. 1 \in DOMAIN p /\ "step_1" \in Ids(p)
  BY <1>1 DEF Ids
<1>6. ~HasUnknownDependency(p)
  BY <1>1, <1>2, <1>5 DEF HasUnknownDependency
<1>7. \A i \in DOMAIN p : PositionOf(p, p[i].id) = i
  BY <1>1, <1>2 DEF PositionOf
<1>8. \A i \in DOMAIN p : \A d \in p[i].deps : i = 2 /\ d = "step_1" /\ d = p[1].id
  BY <1>1, <1>2, <1>5
<1>9. ~HasLateDependency(p)
  <2> SUFFICES ASSUME NEW i \in DOMAIN p, NEW d \in p[i].deps
               PROVE  ~(PositionOf(p, d) >= PositionOf(p, p[i].id))
    BY DEF HasLateDependency
  <2>1. PositionOf(p, d) = 1 /\ PositionOf(p, p[i].id) = 2
    BY <1>5, <1>7, <1>8
  <2> QED
    BY <2>1
<1>10. ~HasDependencyCycle(p)
  <2> SUFFICES ASSUME NEW S \in (SUBSET Ids(p)) \ {{}},
                      \A id \in S : p[PositionOf(p, id)].deps \cap S # {}
               PROVE  FALSE
    BY DEF HasDependencyCycle
  <2>1. \A id \in S : \E i \in DOMAIN p : p[i].id = id /\ PositionOf(p, id) = i
    BY <1>7 DEF Ids
  <2>2. \A id \in S : "step_1" \in S
    BY <1>8, <2>1
  <2>3. "step_1" \in S
    BY <2>2
  <2>4. p[1].deps \cap S # {}
    BY <1>1, <1>5, <1>7, <2>3
  <2> QED
    BY <1>1, <2>4
<1> QED
  BY <1>3, <1>4, <1>6, <1>9, <1>10 DEF Valid, p

(* Only the agents' own tools matter to the planner.                       *)
LEMMA PlanForInPlans ==
  ASSUME NEW words \in SUBSET Words, NEW registered
  PROVE  PlanFor(words, registered) \in Plans
<1> DEFINE tools == PlannedTools(words)
           known == registered \cap AgentTools
<1>1. \A i \in DOMAIN tools : tools[i] \in AgentTools
  BY PlanForForm
<1>2. \A i \in DOMAIN tools : Providers(tools, i, registered) = Providers(tools, i, known)
  BY <1>1 DEF Providers
<1>3. PlanFor(words, registered) = PlanFor(words, known)
  BY <1>2 DEF PlanFor
<1>4. known \in SUBSET AgentTools
  OBVIOUS
<1>5. PlanFor(words, known) \in AgentPlans
  BY <1>4 DEF AgentPlans
<1> QED
  BY <1>3, <1>5, AgentAssumption

-----------------------------------------------------------------------------
(* A request whose plan the executor has.                                  *)

Planned ==
  phase # "idle" =>
    /\ request \in Requests
    /\ plan = PlanFor(request.words, registry)
    /\ ~Unprovided(PlannedTools(request.words), registry)

SessionInv == Inv /\ Concluded /\ Planned

(* Whatever the words of the task and the registry, the plan is valid.     *)
LEMMA RunnablePlans ==
  ASSUME SessionInv, phase # "idle"
  PROVE  Valid(plan)
  BY PlanForIsValid DEF SessionInv, Planned

(* A tool that was called is registered, and the planner refuses a         *)
(* registered alternative analysis without a BOM analysis before it.       *)
LEMMA AlternativesAfterBom ==
  ASSUME SessionInv
  PROVE  AlternativesNeedBom
<1> SUFFICES ASSUME NEW i \in DOMAIN executions,
                    plan[i].tool = AlternativeTool, executions[i].attempts > 0
             PROVE  \E j \in 1..(i - 1) : /\ plan[j].tool = BomTool
                                          /\ executions[j].status = "success"
                                          /\ plan[j].id \in executions[i].given
  BY DEF AlternativesNeedBom
<1> DEFINE tools == PlannedTools(request.words)
<1>1. /\ DOMAIN plan = 1..Len(plan) /\ Len(plan) \in Nat
      /\ DOMAIN executions = 1..Len(executions) /\ Len(executions) <= Len(plan)
      /\ Len(executions) \in Nat
  BY PlanType DEF SessionInv, Inv, Shape
<1>2. phase # "idle" /\ i \in DOMAIN plan
  BY <1>1 DEF SessionInv, Inv, Shape
<1>3. /\ plan = PlanFor(request.words, registry) /\ ~Unprovided(tools, registry)
      /\ plan[i].tool \in registry
  BY <1>2 DEF SessionInv, Planned, Concluded
<1>4. /\ DOMAIN plan = DOMAIN tools /\ \A k \in DOMAIN plan : plan[k].tool = tools[k]
      /\ DOMAIN tools = 1..1 \/ DOMAIN tools = 1..2
      /\ DOMAIN tools = 1..2 =>
           /\ tools[1] = BomTool
           /\ plan[2].deps = IF AlternativeTool \in registry THEN {"step_1"} ELSE {}
      /\ \A k \in DOMAIN plan : plan[k].id = IF k = 1 THEN "step_1" ELSE "step_2"
  BY <1>3, PlanForForm
<1> HIDE DEF tools
<1>5. PICK j \in 1..(i - 1) : tools[j] = BomTool
  BY <1>2, <1>3, <1>4 DEF Unprovided, Dependencies
<1>6. i = 2 /\ j = 1 /\ DOMAIN tools = 1..2
  BY <1>2, <1>4, <1>5
<1>7. plan[2].deps = {"step_1"} /\ plan[1].id = "step_1" /\ plan[1].tool = BomTool
  BY <1>2, <1>3, <1>4, <1>6
<1>8. /\ executions[i].given = plan[i].deps
      /\ \A d \in plan[i].deps : \E k \in 1..(i - 1) :
           plan[k].id = d /\ executions[k].status = "success"
  BY DEF SessionInv, Inv, CallsAreReady
<1>9. executions[1].status = "success" /\ "step_1" \in executions[2].given
  BY <1>6, <1>7, <1>8
<1> QED
  BY <1>6, <1>7, <1>9

(* A final success is one of every tool the task calls for, and of nothing *)
(* recorded as an error.                                                   *)
LEMMA SuccessOfAll ==
  ASSUME SessionInv, phase = "finished", status = "success"
  PROVE  /\ [i \in DOMAIN plan |-> plan[i].tool] = PlannedTools(request.words)
         /\ ExecutedAs("success") = DOMAIN plan
         /\ errors = {}
<1> DEFINE tools == PlannedTools(request.words)
<1>1. Valid(plan) /\ Promise!Sound(plan)
  BY RunnablePlans, ValidIsSound, PlanType DEF SessionInv, Inv
<1>2. FinalStatus = "success"
  BY <1>1 DEF SessionInv, Concluded, FinalOr
<1>3. DOMAIN executions = DOMAIN plan
  BY <1>1, PlanType DEF SessionInv, Inv, AllOrNothing
<1>4. \A i \in DOMAIN executions : executions[i].status \notin {"failed", "skipped"}
  BY <1>2 DEF FinalStatus
<1>5. \A i \in DOMAIN executions : executions[i].status \in ToolStatus
  <2>1. executions \in Seq(Execution) /\ DOMAIN executions = 1..Len(executions)
    BY PlanType DEF SessionInv, Inv
  <2>2. \A i \in DOMAIN executions : executions[i] \in Execution
    BY <2>1, ElementOfSeq
  <2> QED
    BY <2>2 DEF Execution
<1>6. \A i \in DOMAIN executions : executions[i].status = "success"
  BY <1>4, <1>5 DEF SessionInv, Inv, Shape, ToolStatus
<1>7. errors = {}
  BY <1>1, <1>4 DEF SessionInv, Concluded
<1>8. /\ DOMAIN plan = DOMAIN tools /\ \A i \in DOMAIN plan : plan[i].tool = tools[i]
  BY PlanForForm DEF SessionInv, Planned
<1>9. [i \in DOMAIN plan |-> plan[i].tool] = tools
  <2>1. tools \in ToolLists
    BY PlannedToolsForm
  <2>2. tools = [i \in DOMAIN tools |-> tools[i]]
    BY <2>1 DEF ToolLists
  <2> HIDE DEF tools
  <2> QED
    BY <1>8, <2>2
<1> QED
  BY <1>3, <1>6, <1>7, <1>9 DEF ExecutedAs

-----------------------------------------------------------------------------
(* BOMAgent.                                                               *)

(* What each stage of the call has left.                                   *)
StageInv ==
  /\ stage \in Stages
  /\ stage \in {"idle", "planning"} => phase = "idle" /\ agentErrors = {} /\ evidence = FALSE
  /\ stage = "planning" => request \in Requests
  /\ stage = "executing" => phase # "idle" /\ agentErrors = {} /\ evidence = FALSE
  /\ "planner" \in agentErrors => phase = "idle"
  /\ stage \in {"responding", "answered"} =>
       \/ phase = "idle" /\ status = "failed"
       \/ /\ phase = "finished"
          /\ status = "success" => agentErrors = {} /\ evidence = request.evidence
  /\ stage # "answered" => response = NoResponse
  /\ stage = "answered" => response.status = ResponseStatus

AgentInv == SessionInv /\ StageInv

(* Before the request.                                                     *)
LEMMA AgentInvInit == AgentInit => AgentInv
<1> SUFFICES ASSUME AgentInit PROVE AgentInv
  OBVIOUS
<1>1. Inv /\ Concluded
  BY InvInit, ConcludedInit DEF AgentInit, SessionInit
<1>2. Planned /\ StageInv
  BY DEF AgentInit, SessionInit, Init, Planned, StageInv, Stages
<1> QED
  BY <1>1, <1>2 DEF AgentInv, SessionInv

(* The executor changes its own variables only; a plan in it stays.        *)
LEMMA ExecutorKeeps ==
  ASSUME Execute
  PROVE  phase \notin {"idle", "finished"} /\ phase' # "idle" /\ UNCHANGED <<registry, plan>>
  BY DEF Execute, Reject, Accept, SkipBlocked, FailUnregistered, Call, Retry, GiveUp,
         BreakContract, Succeed, ReportSkip, ReportFailure, Finalize, EndUncalled, EndCall

(* Every step of the agent keeps the invariant.                            *)
LEMMA AgentInvNext ==
  ASSUME AgentInv, [AgentNext]_agentVars
  PROVE  AgentInv'
<1> SessionInv /\ StageInv /\ Inv /\ Concluded /\ Planned
  BY DEF AgentInv, SessionInv
<1>1. ASSUME NEW r \in Requests, Receive(r) PROVE AgentInv'
  <2>1. UNCHANGED executorVars
    BY <1>1 DEF Receive
  <2>2. Inv' /\ Concluded'
    BY <2>1, InvNext, ConcludedNext
  <2>3. Planned' /\ StageInv'
    BY <1>1, <2>1 DEF Receive, Planned, StageInv, Stages, executorVars
  <2> QED
    BY <2>2, <2>3 DEF AgentInv, SessionInv
<1>2. CASE FailPlanning
  <2>1. /\ stage = "planning" /\ phase = "idle" /\ status' = "failed"
        /\ UNCHANGED <<registry, plan, phase, stepStatus, executions, outputs, results, errors>>
    BY <1>2 DEF FailPlanning, RefuseTask, StageInv
  <2>2. Inv' /\ Concluded'
    BY <2>1, StatusMoves DEF AgentStatus
  <2>3. Planned' /\ StageInv'
    BY <1>2, <2>1 DEF FailPlanning, RefuseTask, Planned, StageInv, Stages
  <2> QED
    BY <2>2, <2>3 DEF AgentInv, SessionInv
<1>3. CASE StartExecution
  <2>1. /\ stage = "planning" /\ request \in Requests /\ request.words \in SUBSET Words
        /\ Submit(PlanFor(request.words, registry))
        /\ ~Refused(request, registry, strict)
        /\ stage' = "executing" /\ UNCHANGED sessionVars
    BY <1>3 DEF StartExecution, StageInv, Requests
  <2>2. PlanFor(request.words, registry) \in Plans
    BY <2>1, PlanForInPlans
  <2>3. Inv' /\ Concluded'
    BY <2>1, <2>2, InvNext, ConcludedNext DEF Next
  <2>4. Planned' /\ StageInv'
    BY <2>1 DEF Submit, Refused, Planned, StageInv, Stages, sessionVars
  <2> QED
    BY <2>3, <2>4 DEF AgentInv, SessionInv
<1>4. CASE ExecutePlan
  <2>1. stage = "executing" /\ Execute /\ UNCHANGED <<sessionVars, stage>>
    BY <1>4 DEF ExecutePlan
  <2>2. Inv' /\ Concluded'
    BY <2>1, InvNext, ConcludedNext DEF Next
  <2>3. phase # "idle" /\ phase' # "idle" /\ UNCHANGED <<registry, plan>>
    BY <2>1, ExecutorKeeps
  <2>4. Planned' /\ StageInv'
    BY <2>1, <2>3 DEF Planned, StageInv, sessionVars
  <2> QED
    BY <2>2, <2>4 DEF AgentInv, SessionInv
<1>5. CASE CollectEvidence
  <2>1. /\ stage = "executing" /\ phase = "finished" /\ stage' = "responding"
        /\ UNCHANGED <<registry, plan, phase, stepStatus, executions, outputs, results, errors>>
        /\ UNCHANGED <<request, response>>
        /\ status' = status \/ (status = "success" /\ status' = "partial")
    BY <1>5 DEF CollectEvidence, Retrieve, Downgrade, executorVars, sessionVars
  <2>2. Inv' /\ Concluded'
    BY <2>1, StatusMoves
  <2>3. request.evidence \in BOOLEAN
    BY <2>1 DEF Planned, Requests
  <2>4. /\ "planner" \notin agentErrors'
        /\ status' = "success" => agentErrors' = {} /\ evidence' = request.evidence
    <3>1. CASE Retrieve
      BY <2>1, <2>3, <3>1 DEF Retrieve, Downgrade, StageInv
    <3>2. CASE ~request.evidence /\ UNCHANGED <<executorVars, sessionVars>>
      BY <2>1, <2>3, <3>2 DEF StageInv, sessionVars
    <3> QED
      BY <1>5, <3>1, <3>2 DEF CollectEvidence
  <2>5. Planned' /\ StageInv'
    BY <2>1, <2>4 DEF Planned, StageInv, Stages
  <2> QED
    BY <2>2, <2>5 DEF AgentInv, SessionInv
<1>6. CASE GiveResponse
  <2>1. /\ stage = "responding" /\ stage' = "answered" /\ response' = Answer
        /\ UNCHANGED executorVars /\ UNCHANGED <<request, agentErrors, evidence>>
    BY <1>6 DEF GiveResponse, Respond
  <2>2. Inv' /\ Concluded'
    BY <2>1, InvNext, ConcludedNext
  <2>3. response'.status = ResponseStatus'
    BY <2>1 DEF Answer, ResponseStatus, executorVars
  <2>4. Planned' /\ StageInv'
    BY <2>1, <2>3 DEF Planned, StageInv, Stages, executorVars
  <2> QED
    BY <2>2, <2>4 DEF AgentInv, SessionInv
<1>7. CASE UNCHANGED agentVars
  <2>1. UNCHANGED executorVars
    BY <1>7 DEF agentVars
  <2>2. Inv' /\ Concluded'
    BY <2>1, InvNext, ConcludedNext
  <2>3. Planned' /\ StageInv'
    BY <1>7 DEF agentVars, executorVars, sessionVars, Planned, StageInv, ResponseStatus
  <2> QED
    BY <2>2, <2>3 DEF AgentInv, SessionInv
<1> QED
  BY <1>1, <1>2, <1>3, <1>4, <1>5, <1>6, <1>7 DEF AgentNext, AgentWork

(* AgentInv is an invariant of every request.                              *)
THEOREM AgentInductive == AgentSpec => []AgentInv
<1>1. AgentInv /\ [AgentNext]_agentVars => AgentInv'
  BY AgentInvNext
<1> QED
  BY AgentInvInit, <1>1, PTL DEF AgentSpec

(* The executor never refuses a plan of the planner, whatever the registry *)
(* (create_execution_plan against _validate_execution_plan).               *)
THEOREM PlansRunnable == AgentSpec => []PlansAreRunnable
<1>1. AgentInv => PlansAreRunnable
  BY RunnablePlans DEF AgentInv, StageInv, SessionInv, Inv, Shape, PlansAreRunnable
<1> QED
  BY AgentInductive, <1>1, PTL

(* The alternatives of a request are those of its BOM.                     *)
THEOREM AlternativesOrdered == AgentSpec => []AlternativesNeedBom
<1>1. AgentInv => AlternativesNeedBom
  BY AlternativesAfterBom DEF AgentInv
<1> QED
  BY AgentInductive, <1>1, PTL

(* No answer is better than the run: a success is one of every tool the    *)
(* task calls for, without an error, and with the evidence asked for.      *)
THEOREM CompleteSuccess == AgentSpec => []SuccessIsComplete
<1>1. ASSUME AgentInv, response # NoResponse, response.status = "success"
      PROVE  /\ [i \in DOMAIN plan |-> plan[i].tool] = PlannedTools(request.words)
             /\ ExecutedAs("success") = DOMAIN plan
             /\ errors = {} /\ agentErrors = {}
             /\ request.evidence = evidence
  <2>1. stage = "answered" /\ ResponseStatus = "success"
    BY <1>1 DEF AgentInv, StageInv
  <2>2. status = "success"
    BY <2>1 DEF ResponseStatus
  <2>3. phase = "finished" /\ agentErrors = {} /\ evidence = request.evidence
    BY <1>1, <2>1, <2>2 DEF AgentInv, StageInv
  <2> QED
    BY <1>1, <2>2, <2>3, SuccessOfAll DEF AgentInv
<1>2. AgentInv => SuccessIsComplete
  BY <1>1 DEF SuccessIsComplete
<1> QED
  BY AgentInductive, <1>2, PTL

(* Nothing after the executor improves its status (_collect_rag_evidence). *)
THEOREM StatusNeverRises == AgentSpec => NeverUpgraded
<1>1. ASSUME AgentInv, [AgentNext]_agentVars, phase = "finished"
      PROVE  status' = status \/ (status = "success" /\ status' = "partial")
  <2>1. stage \notin {"idle", "planning"}
    BY <1>1 DEF AgentInv, StageInv
  <2>2. ~ExecutePlan
    BY <1>1, ExecutorKeeps DEF ExecutePlan
  <2>3. CASE CollectEvidence
    BY <2>3 DEF CollectEvidence, Retrieve, Downgrade, executorVars
  <2>4. CASE GiveResponse
    BY <2>4 DEF GiveResponse, Respond, executorVars
  <2>5. CASE UNCHANGED agentVars
    BY <2>5 DEF agentVars, executorVars
  <2> QED
    BY <1>1, <2>1, <2>2, <2>3, <2>4, <2>5
    DEF AgentNext, AgentWork, Receive, FailPlanning, StartExecution
<1>2. AgentInv /\ [AgentNext]_agentVars =>
        [phase = "finished" =>
           status' = status \/ (status = "success" /\ status' = "partial")]_<<phase, status>>
  BY <1>1
<1> QED
  BY AgentInductive, <1>2, PTL DEF AgentSpec, NeverUpgraded

-----------------------------------------------------------------------------
(* AgentGraph.                                                             *)

(* The inductive invariant.                                                *)

(* The planner node accepted the request.                                  *)
Accepted ==
  /\ request \in Requests
  /\ executionPlan = PlanFor(request.words, registry)
  /\ ~Refused(request, registry, FALSE)

Unanswered == response = NoResponse /\ evidence = FALSE

(* What each node leaves.                                                  *)
NodeInv ==
  /\ node \in Nodes
  /\ request = NoRequest => node = "start"
  /\ request # NoRequest => request \in Requests
  /\ node \in {"start", "initialize"} => phase = "idle" /\ agentErrors = {} /\ Unanswered
  /\ node # "start" => request # NoRequest
  /\ node = "planner" =>
       /\ phase = "idle" /\ Unanswered /\ "unsupported" \notin agentErrors
       /\ \/ graphStatus = "failed" /\ status = "failed"
          \/ graphStatus = "planned" /\ agentErrors = {} /\ Accepted
  /\ node \in AgentTools =>
       graphStatus = "routed" /\ agentErrors = {} /\ Unanswered /\ Accepted
  /\ node = "executor" =>
       /\ phase = "finished" /\ graphStatus = GraphStatusOf(status)
       /\ agentErrors = {} /\ Unanswered
  /\ node = "rag" =>
       phase = "finished" /\ response = NoResponse /\ "unsupported" \notin agentErrors
  /\ node \in Terminals =>
       /\ phase = "finished" /\ graphStatus = GraphStatusOf(status)
       /\ "unsupported" \notin agentErrors
  /\ node = "unsupported" => phase = "idle" /\ status = "failed" /\ graphStatus = "failed"

ResponseInv ==
  response # NoResponse =>
    node \in Terminals \cup {"unsupported"} /\ response.status = ResponseStatus

GraphInv == SessionInv /\ NodeInv /\ ResponseInv /\ graphErrors = agentErrors

(* Before the request.                                                     *)
LEMMA GraphInvInit == GraphInit => GraphInv
<1> SUFFICES ASSUME GraphInit PROVE GraphInv
  OBVIOUS
<1>1. Inv /\ Concluded
  BY InvInit, ConcludedInit DEF GraphInit, SessionInit
<1>2. Planned
  BY DEF GraphInit, SessionInit, Init, Planned
<1>3. NodeInv /\ ResponseInv /\ graphErrors = agentErrors
  BY DEF GraphInit, SessionInit, Init, NodeInv, ResponseInv, Nodes, AgentTools, Terminals,
         Unanswered, BomTool, ComponentTool, AlternativeTool
<1> QED
  BY <1>1, <1>2, <1>3 DEF GraphInv, SessionInv

(* The routing after the planner: an accepted request has a node, and only *)
(* a refused one is unsupported.                                           *)
LEMMA Routing ==
  ASSUME NodeInv, node = "planner"
  PROVE  /\ graphStatus = "failed" => RouteAfterPlanner = "unsupported"
         /\ graphStatus # "failed" => RouteAfterPlanner \in AgentTools
<1>1. CASE graphStatus = "failed"
  BY <1>1 DEF RouteAfterPlanner, AgentTools, BomTool, ComponentTool, AlternativeTool
<1>2. CASE graphStatus # "failed"
  <2> DEFINE tools == PlannedTools(request.words)
             planned == {executionPlan[i].tool : i \in DOMAIN executionPlan}
  <2>1. executionPlan = PlanFor(request.words, registry)
    BY <1>2 DEF NodeInv, Accepted
  <2>2. /\ DOMAIN executionPlan = DOMAIN tools
        /\ \A i \in DOMAIN executionPlan : executionPlan[i].tool = tools[i]
    BY <2>1, PlanForForm
  <2>3. planned = {tools[i] : i \in DOMAIN tools}
    BY <2>2
  <2>4. tools \in ToolLists
    BY PlannedToolsForm
  <2>5. planned # {}
        /\ (BomTool \in planned \/ planned = {ComponentTool} \/ planned = {AlternativeTool})
    <3> HIDE DEF tools, planned
    <3> QED
      BY <2>3, <2>4 DEF ToolLists
  <2>6. \/ RouteAfterPlanner = BomTool
        \/ RouteAfterPlanner = ComponentTool
        \/ RouteAfterPlanner = AlternativeTool
    <3>1. CASE BomTool \in planned
      BY <1>2, <2>5, <3>1 DEF RouteAfterPlanner, BomTool, ComponentTool, AlternativeTool
    <3>2. CASE planned = {ComponentTool}
      BY <1>2, <3>2 DEF RouteAfterPlanner, BomTool, ComponentTool, AlternativeTool
    <3>3. CASE planned = {AlternativeTool}
      BY <1>2, <3>3 DEF RouteAfterPlanner, BomTool, ComponentTool, AlternativeTool
    <3> QED
      BY <2>5, <3>1, <3>2, <3>3
  <2> QED
    BY <1>2, <2>6 DEF AgentTools
<1> QED
  BY <1>1, <1>2

(* The executor changes its own variables only; a plan in it stays.        *)
LEMMA ExecutorKeepsPlan ==
  ASSUME Execute
  PROVE  phase \notin {"idle", "finished"} /\ phase' # "idle" /\ UNCHANGED <<registry, plan>>
  BY DEF Execute, Reject, Accept, SkipBlocked, FailUnregistered, Call, Retry, GiveUp,
         BreakContract, Succeed, ReportSkip, ReportFailure, Finalize, EndUncalled, EndCall

(* Every node keeps what holds of the executor and of its plan.            *)
LEMMA SessionInvNext ==
  ASSUME GraphInv, [GraphNext]_graphVars
  PROVE  SessionInv'
<1> SessionInv /\ Inv /\ Concluded /\ Planned /\ NodeInv
  BY DEF GraphInv, SessionInv
<1>1. ASSUME NEW r \in Requests, Ask(r) PROVE SessionInv'
  <2>1. UNCHANGED executorVars /\ phase = "idle"
    BY <1>1 DEF Ask, NodeInv
  <2>2. Inv' /\ Concluded' /\ Planned'
    BY <2>1, InvNext, ConcludedNext DEF executorVars, Planned
  <2> QED
    BY <2>2 DEF SessionInv
<1>2. CASE UNCHANGED <<executorVars, sessionVars>>
  <2>1. UNCHANGED executorVars /\ request' = request
    BY <1>2 DEF sessionVars
  <2>2. Inv' /\ Concluded' /\ Planned'
    BY <2>1, InvNext, ConcludedNext DEF executorVars, Planned
  <2> QED
    BY <2>2 DEF SessionInv
<1>3. CASE (PlannerNode /\ RefuseTask(FALSE)) \/ UnsupportedNode
  <2>1. /\ phase = "idle" /\ status' = "failed" /\ request' = request
        /\ UNCHANGED <<registry, plan, phase, stepStatus, executions, outputs, results, errors>>
    BY <1>3 DEF PlannerNode, UnsupportedNode, RefuseTask, NodeInv
  <2>2. Inv' /\ Concluded' /\ Planned'
    BY <2>1, StatusMoves DEF AgentStatus, Planned
  <2> QED
    BY <2>2 DEF SessionInv
<1>4. CASE EnterExecutor
  <2>1. /\ Accepted /\ request.words \in SUBSET Words
        /\ Submit(PlanFor(request.words, registry)) /\ UNCHANGED sessionVars
    BY <1>4 DEF EnterExecutor, NodeInv, Accepted, Requests
  <2>2. PlanFor(request.words, registry) \in Plans
    BY <2>1, PlanForInPlans
  <2>3. Inv' /\ Concluded'
    BY <2>1, <2>2, InvNext, ConcludedNext DEF Next
  <2>4. Planned'
    BY <2>1 DEF Submit, Accepted, Refused, Planned, sessionVars
  <2> QED
    BY <2>3, <2>4 DEF SessionInv
<1>5. CASE InExecutor
  <2>1. Execute /\ UNCHANGED sessionVars
    BY <1>5 DEF InExecutor
  <2>2. phase # "idle" /\ phase' # "idle" /\ UNCHANGED <<registry, plan>>
    BY <2>1, ExecutorKeepsPlan
  <2>3. Inv' /\ Concluded'
    BY <2>1, InvNext, ConcludedNext DEF Next
  <2>4. Planned'
    BY <2>1, <2>2 DEF Planned, sessionVars
  <2> QED
    BY <2>3, <2>4 DEF SessionInv
<1>6. CASE RagNode
  <2>1. /\ UNCHANGED <<registry, plan, phase, stepStatus, executions, outputs, results, errors>>
        /\ request' = request
        /\ status' = status \/ (status = "success" /\ status' = "partial")
    BY <1>6 DEF RagNode, Retrieve, Downgrade
  <2>2. Inv' /\ Concluded' /\ Planned'
    BY <2>1, StatusMoves DEF Planned
  <2> QED
    BY <2>2 DEF SessionInv
<1>7. CASE GraphRespond
  <2>1. UNCHANGED executorVars /\ request' = request
    BY <1>7 DEF GraphRespond, Respond
  <2>2. Inv' /\ Concluded' /\ Planned'
    BY <2>1, InvNext, ConcludedNext DEF executorVars, Planned
  <2> QED
    BY <2>2 DEF SessionInv
<1> QED
  BY <1>1, <1>2, <1>3, <1>4, <1>5, <1>6, <1>7
  DEF GraphNext, GraphWork, graphVars, Initialize, PlannerNode, RouteNode, LeaveExecutor, TerminalNode

(* Every node leaves what its successor expects.                           *)
LEMMA NodeInvNext ==
  ASSUME GraphInv, [GraphNext]_graphVars
  PROVE  NodeInv' /\ ResponseInv' /\ graphErrors' = agentErrors'
<1> NodeInv /\ ResponseInv /\ graphErrors = agentErrors
  BY DEF GraphInv
<1> USE DEF Nodes, AgentTools, Terminals, BomTool, ComponentTool, AlternativeTool
<1>1. ASSUME NEW r \in Requests, Ask(r)
      PROVE  NodeInv' /\ ResponseInv' /\ graphErrors' = agentErrors'
  <2>1. r # NoRequest
    BY AgentAssumption
  <2> QED
    BY <1>1, <2>1 DEF Ask, NodeInv, ResponseInv, Unanswered, executorVars
<1>2. CASE Initialize
  BY <1>2 DEF Initialize, NodeInv, ResponseInv, Unanswered, executorVars, sessionVars
<1>3. CASE PlannerNode
  <2>1. CASE RefuseTask(FALSE) /\ graphStatus' = "failed"
             /\ graphErrors' = graphErrors \cup {"planner"}
    BY <1>3, <2>1 DEF PlannerNode, RefuseTask, NodeInv, ResponseInv, Unanswered
  <2>2. CASE /\ ~Refused(request, registry, FALSE)
             /\ executionPlan' = PlanFor(request.words, registry)
             /\ graphStatus' = "planned"
             /\ UNCHANGED <<executorVars, sessionVars, graphErrors>>
    BY <1>3, <2>2
    DEF PlannerNode, NodeInv, ResponseInv, Unanswered, Accepted, executorVars, sessionVars
  <2> QED
    BY <1>3, <2>1, <2>2 DEF PlannerNode
<1>4. CASE RouteNode
  <2>1. graphStatus # "failed"
    BY <1>4, Routing DEF RouteNode
  <2> QED
    BY <1>4, <2>1
    DEF RouteNode, NodeInv, ResponseInv, Unanswered, Accepted, executorVars, sessionVars
<1>5. CASE UnsupportedNode
  BY <1>5 DEF UnsupportedNode, NodeInv, ResponseInv, Unanswered
<1>6. CASE EnterExecutor
  BY <1>6
  DEF EnterExecutor, Submit, NodeInv, ResponseInv, Unanswered, Accepted, sessionVars
<1>7. CASE InExecutor
  <2>1. UNCHANGED registry
    BY <1>7, ExecutorKeepsPlan DEF InExecutor
  <2> QED
    BY <1>7, <2>1 DEF InExecutor, NodeInv, ResponseInv, Unanswered, Accepted, sessionVars
<1>8. CASE LeaveExecutor
  BY <1>8
  DEF LeaveExecutor, NodeInv, ResponseInv, Unanswered, GraphStatusOf, executorVars, sessionVars
<1>9. CASE RagNode
  <2>1. /\ phase' = "finished" /\ response' = NoResponse /\ node' = "rag" /\ request' = request
        /\ node = "executor" /\ evidence = FALSE
        /\ agentErrors' = agentErrors \cup (IF evidence' THEN {} ELSE {"evidence"})
    BY <1>9 DEF RagNode, Retrieve, NodeInv, Unanswered
  <2> QED
    BY <1>9, <2>1 DEF RagNode, NodeInv, ResponseInv
<1>10. CASE TerminalNode
  <2>1. node' \in Terminals /\ graphStatus' = GraphStatusOf(status)'
    BY <1>10 DEF TerminalNode, GraphStatusOf, executorVars
  <2> QED
    BY <1>10, <2>1 DEF TerminalNode, NodeInv, ResponseInv, Unanswered, executorVars, sessionVars
<1>11. CASE GraphRespond
  <2>1. /\ node' = node /\ node \in Terminals \cup {"unsupported"}
        /\ UNCHANGED <<phase, status, request, agentErrors, graphErrors, graphStatus>>
        /\ response' = Answer
    BY <1>11 DEF GraphRespond, Respond, executorVars
  <2>2. response'.status = ResponseStatus'
    BY <2>1 DEF Answer, ResponseStatus
  <2> QED
    BY <2>1, <2>2 DEF NodeInv, ResponseInv, GraphStatusOf
<1>12. CASE UNCHANGED graphVars
  BY <1>12
  DEF graphVars, NodeInv, ResponseInv, Unanswered, Accepted, GraphStatusOf, ResponseStatus,
      executorVars, sessionVars
<1> QED
  BY <1>1, <1>2, <1>3, <1>4, <1>5, <1>6, <1>7, <1>8, <1>9, <1>10, <1>11, <1>12
  DEF GraphNext, GraphWork

(* Every step of the graph keeps the invariant.                            *)
LEMMA GraphInvNext ==
  ASSUME GraphInv, [GraphNext]_graphVars
  PROVE  GraphInv'
  BY SessionInvNext, NodeInvNext DEF GraphInv

(* GraphInv is an invariant of every request.                              *)
THEOREM GraphInductive == GraphSpec => []GraphInv
<1>1. GraphInv /\ [GraphNext]_graphVars => GraphInv'
  BY GraphInvNext
<1> QED
  BY GraphInvInit, <1>1, PTL DEF GraphSpec

(* A graph that ends as completed answers with success, as partial with    *)
(* partial, and in no other way.                                           *)
THEOREM StatusAgreement == GraphSpec => []StatusesAgree
<1>1. ASSUME GraphInv PROVE StatusesAgree
  <2> SUFFICES ASSUME response # NoResponse
               PROVE  /\ response.status = "success" <=> graphStatus = "completed"
                      /\ response.status = "partial" <=> graphStatus = "partial"
                      /\ response.status = "failed" <=> graphStatus = "failed"
    BY DEF StatusesAgree
  <2>1. /\ response.status = ResponseStatus
        /\ graphStatus = GraphStatusOf(status)
    BY <1>1 DEF GraphInv, ResponseInv, NodeInv, GraphStatusOf
  <2> QED
    BY <2>1 DEF ResponseStatus, GraphStatusOf
<1>2. GraphInv => StatusesAgree
  BY <1>1
<1> QED
  BY GraphInductive, <1>2, PTL

(* The status after the executor is the verdict on the executions, unless  *)
(* the graph has an error of its own.                                      *)
VerdictKept ==
  phase = "finished" =>
    status = IF agentErrors # {} /\ FinalStatus = "success" THEN "partial" ELSE FinalStatus

(* Without executions the verdict is a failure.                            *)
LEMMA NothingRunFails == ASSUME executions = <<>> PROVE FinalStatus = "failed"
  BY DEF FinalStatus

(* Every step of the graph keeps VerdictKept: the executor ends without an     *)
(* error of the graph, and only the evidence node adds one later.          *)
LEMMA VerdictKeptNext ==
  ASSUME GraphInv, VerdictKept, [GraphNext]_graphVars
  PROVE  VerdictKept'
<1> NodeInv /\ Inv
  BY DEF GraphInv, SessionInv
<1>1. ASSUME UNCHANGED <<phase, status, executions, agentErrors>> PROVE VerdictKept'
  BY <1>1 DEF VerdictKept, FinalStatus
<1>2. ASSUME phase' # "finished" PROVE VerdictKept'
  BY <1>2 DEF VerdictKept
<1>3. CASE InExecutor
  <2>1. agentErrors' = {}
    BY <1>3 DEF InExecutor, NodeInv, sessionVars
  <2>2. CASE Finalize
    BY <2>1, <2>2 DEF Finalize, VerdictKept, FinalStatus
  <2>3. CASE Reject
    <3>1. executions' = <<>> /\ status' = "failed"
      BY <2>3 DEF Reject, Inv, Shape
    <3>2. FinalStatus' = "failed"
      BY <3>1 DEF FinalStatus
    <3> QED
      BY <2>1, <3>1, <3>2 DEF VerdictKept
  <2>4. CASE ~Finalize /\ ~Reject
    BY <1>2, <1>3, <2>4
    DEF InExecutor, Execute, Accept, SkipBlocked, FailUnregistered, Call, Retry, GiveUp,
        BreakContract, Succeed, ReportSkip, ReportFailure, EndUncalled, EndCall
  <2> QED
    BY <2>2, <2>3, <2>4
<1>4. CASE RagNode
  <2>1. phase = "finished" /\ agentErrors = {}
    BY <1>4 DEF RagNode, NodeInv
  <2>2. status = FinalStatus
    BY <2>1 DEF VerdictKept
  <2>3. executions' = executions /\ phase' = phase
    BY <1>4 DEF RagNode, Retrieve
  <2>4. FinalStatus' = FinalStatus
    BY <2>3 DEF FinalStatus
  <2>5. \/ status' = status /\ agentErrors' = {}
        \/ /\ status' = IF status = "success" THEN "partial" ELSE status
           /\ agentErrors' # {}
    BY <1>4, <2>1 DEF RagNode, Retrieve, Downgrade
  <2> QED
    BY <2>1, <2>2, <2>3, <2>4, <2>5 DEF VerdictKept
<1>5. CASE PlannerNode
  <2>1. phase' = "idle"
    BY <1>5 DEF PlannerNode, NodeInv, RefuseTask, executorVars
  <2> QED
    BY <1>2, <2>1
<1>6. CASE UnsupportedNode
  <2>1. phase' = "idle"
    BY <1>6 DEF UnsupportedNode, NodeInv
  <2> QED
    BY <1>2, <2>1
<1>7. CASE EnterExecutor
  BY <1>2, <1>7 DEF EnterExecutor, Submit
<1> QED
  BY <1>1, <1>3, <1>4, <1>5, <1>6, <1>7
  DEF GraphNext, GraphWork, graphVars, Ask, Initialize, RouteNode, LeaveExecutor, TerminalNode,
      GraphRespond, Respond, executorVars, sessionVars

(* Whatever the tools and the retrieval do: the graph lists the errors of  *)
(* its nodes, the executor's are not among them, and the answer follows    *)
(* from both; a request without a route runs no tool.                      *)
THEOREM NodeErrorAgreement == GraphSpec => []NodeErrorsAgree
<1>1. ASSUME GraphInv, VerdictKept PROVE NodeErrorsAgree
  <2>1. node = "unsupported" => phase = "idle" /\ status = "failed"
    BY <1>1 DEF GraphInv, NodeInv
  <2>2. phase = "idle" => executions = <<>>
    BY <1>1 DEF GraphInv, SessionInv, Inv, Shape
  <2>3. "unsupported" \in graphErrors => node = "unsupported"
    BY <1>1 DEF GraphInv, NodeInv, Nodes
  <2>4. ASSUME response # NoResponse
        PROVE  response.status = IF graphErrors # {} /\ FinalStatus = "success"
                                 THEN "partial" ELSE FinalStatus
    <3>1. node \in Terminals \cup {"unsupported"} /\ response.status = ResponseStatus
      BY <1>1, <2>4 DEF GraphInv, ResponseInv
    <3>2. CASE node = "unsupported"
      BY <2>1, <2>2, <3>1, <3>2, NothingRunFails DEF ResponseStatus
    <3>3. CASE node \in Terminals
      <4>1. phase = "finished"
        BY <1>1, <3>3 DEF GraphInv, NodeInv
      <4>2. FinalStatus \in {"success", "partial", "failed"}
        BY DEF FinalStatus
      <4> QED
        BY <1>1, <3>1, <4>1, <4>2 DEF GraphInv, VerdictKept, ResponseStatus
    <3> QED
      BY <3>1, <3>2, <3>3
  <2> QED
    BY <1>1, <2>1, <2>2, <2>3, <2>4 DEF GraphInv, NodeErrorsAgree
<1>2. GraphInit => VerdictKept
  BY DEF GraphInit, SessionInit, Init, VerdictKept
<1>3. GraphInv /\ VerdictKept /\ [GraphNext]_graphVars => VerdictKept'
  BY VerdictKeptNext
<1>4. GraphInv /\ VerdictKept => NodeErrorsAgree
  BY <1>1
<1> QED
  BY GraphInductive, <1>2, <1>3, <1>4, PTL DEF GraphSpec

-----------------------------------------------------------------------------
(* AgentGraph implements BOMAgent.                                         *)

(* The instance's operators that do not mention the mapped variables are   *)
(* those of the graph.                                                     *)
LEMMA SamePlanner ==
  ASSUME NEW r, NEW registered
  PROVE  /\ Linear!PlanFor(r.words, registered) = PlanFor(r.words, registered)
         /\ Linear!Refused(r, registered, FALSE) <=> Refused(r, registered, FALSE)
<1>1. ASSUME NEW words PROVE Linear!PlannedTools(words) = PlannedTools(words)
  BY DEF Linear!PlannedTools, PlannedTools, Linear!BomTool, Linear!ComponentTool,
         Linear!AlternativeTool, BomTool, ComponentTool, AlternativeTool
<1>2. ASSUME NEW tool PROVE Linear!Dependencies(tool) = Dependencies(tool)
  BY DEF Linear!Dependencies, Dependencies, Linear!BomTool, Linear!AlternativeTool,
         BomTool, AlternativeTool
<1>3. ASSUME NEW tools, NEW i
      PROVE  Linear!Providers(tools, i, registered) = Providers(tools, i, registered)
  BY <1>2 DEF Linear!Providers, Providers
<1>4. Linear!PlanFor(r.words, registered) = PlanFor(r.words, registered)
  BY <1>1, <1>3 DEF Linear!PlanFor, PlanFor, Linear!StepName, StepName
<1>5. ASSUME NEW tools PROVE Linear!Unprovided(tools, registered) <=> Unprovided(tools, registered)
  BY <1>2 DEF Linear!Unprovided, Unprovided
<1> QED
  BY <1>1, <1>4, <1>5 DEF Linear!Refused, Refused

(* The executor of the graph is that of the agent.                         *)
LEMMA SameExecutor == Execute => Linear!Execute
<1>1. ASSUME NEW p PROVE Linear!Valid(p) <=> Valid(p)
  BY DEF Linear!Valid, Valid, Linear!HasDuplicateIds, HasDuplicateIds,
         Linear!HasUnknownDependency, HasUnknownDependency, Linear!HasLateDependency,
         HasLateDependency, Linear!HasDependencyCycle, HasDependencyCycle,
         Linear!PositionOf, PositionOf, Linear!Ids, Ids
<1>2. Reject => Linear!Reject
  BY <1>1 DEF Reject, Linear!Reject
<1>3. Accept => Linear!Accept
  BY <1>1 DEF Accept, Linear!Accept
<1>4. ASSUME NEW i PROVE Linear!DependencyFailed(i) <=> DependencyFailed(i)
  BY DEF Linear!DependencyFailed, DependencyFailed
<1>5. SkipBlocked => Linear!SkipBlocked
  BY <1>4 DEF SkipBlocked, Linear!SkipBlocked, EndUncalled, Linear!EndUncalled,
              Upcoming, Linear!Upcoming
<1>6. FailUnregistered => Linear!FailUnregistered
  BY <1>4 DEF FailUnregistered, Linear!FailUnregistered, EndUncalled, Linear!EndUncalled,
              Upcoming, Linear!Upcoming
<1>7. Call => Linear!Call
  BY <1>4 DEF Call, Linear!Call, StepContext, Linear!StepContext, Upcoming, Linear!Upcoming
<1>8. Retry => Linear!Retry
  BY DEF Retry, Linear!Retry, ShouldRetry, Linear!ShouldRetry, Current, Linear!Current
<1>9. ASSUME NEW end, NEW fault, EndCall(end, fault) PROVE Linear!EndCall(end, fault)
  BY <1>9 DEF EndCall, Linear!EndCall, Current, Linear!Current
<1>10. GiveUp => Linear!GiveUp
  BY <1>9 DEF GiveUp, Linear!GiveUp, ShouldRetry, Linear!ShouldRetry, Current, Linear!Current
<1>11. BreakContract => Linear!BreakContract
  BY <1>9 DEF BreakContract, Linear!BreakContract, Current, Linear!Current
<1>12. Succeed => Linear!Succeed
  BY <1>9 DEF Succeed, Linear!Succeed, Current, Linear!Current
<1>13. ReportSkip => Linear!ReportSkip
  BY <1>9 DEF ReportSkip, Linear!ReportSkip, Current, Linear!Current
<1>14. ReportFailure => Linear!ReportFailure
  BY <1>9 DEF ReportFailure, Linear!ReportFailure, Current, Linear!Current
<1>15. Finalize => Linear!Finalize
  BY DEF Finalize, Linear!Finalize, FinalStatus, Linear!FinalStatus, Upcoming, Linear!Upcoming
<1> QED
  BY <1>2, <1>3, <1>5, <1>6, <1>7, <1>8, <1>10, <1>11, <1>12, <1>13, <1>14, <1>15
  DEF Execute, Linear!Execute

(* An answer is a response.                                                *)
LEMMA AnswerIsGiven ==
  ASSUME Inv
  PROVE  Answer # NoResponse
<1>1. DOMAIN executions = 1..Len(executions) /\ Len(executions) \in Nat
  BY PlanType DEF Inv
<1>2. IsFiniteSet(DOMAIN executions)
  BY <1>1, FS_Interval
<1>3. \A s : Cardinality(ExecutedAs(s)) \in Nat
  <2> TAKE s
  <2>1. ExecutedAs(s) \subseteq DOMAIN executions
    BY DEF ExecutedAs
  <2> QED
    BY <1>2, <2>1, FS_Subset, FS_CardinalityType
<1>4. Answer \in Responses
  BY <1>1, <1>3 DEF Answer, Responses, ResponseStatus, Summaries
<1> QED
  BY <1>4, AgentAssumption

(* The graph starts where the agent starts.                                *)
LEMMA GraphRefinesInit == GraphInit => Linear!AgentInit
  BY DEF GraphInit, SessionInit, Init, Linear!AgentInit, Linear!SessionInit, Linear!Init, LinearStage

(* What the variables of BOMAgent are while the graph runs.                *)
LinearErrors == agentErrors \ {"unsupported"}

(* A step that changes nothing the agent has is a stutter of the agent.    *)
LEMMA LinearStutter ==
  ASSUME UNCHANGED <<executorVars, request, ragService, evidence, response>>,
         LinearErrors' = LinearErrors, LinearStage' = LinearStage
  PROVE  UNCHANGED Linear!agentVars
  BY DEF Linear!agentVars, Linear!executorVars, Linear!sessionVars, executorVars, LinearErrors

(* Every node is the agent's step at that stage, or none.                  *)
LEMMA GraphRefinesNext ==
  ASSUME GraphInv, GraphInv', [GraphNext]_graphVars
  PROVE  [Linear!AgentNext]_(Linear!agentVars)
<1> NodeInv /\ ResponseInv /\ Inv
  BY DEF GraphInv, SessionInv
<1> USE DEF Nodes, AgentTools, Terminals, BomTool, ComponentTool, AlternativeTool
<1>0. /\ node \in {"start", "initialize", "planner", "executor", "rag"} \cup AgentTools =>
           response = NoResponse
      /\ node # "start" => request # NoRequest
  BY DEF NodeInv, Unanswered
<1>1. ASSUME NEW r \in Requests, Ask(r) PROVE Linear!AgentNext
  <2>1. /\ LinearStage = "idle" /\ LinearStage' = "planning"
    <3>1. r # NoRequest /\ node = "start" /\ phase = "idle" /\ response = NoResponse
      BY <1>1, AgentAssumption DEF Ask, NodeInv, Unanswered
    <3> QED
      BY <1>1, <3>1 DEF Ask, LinearStage, executorVars
  <2>2. Linear!Receive(r)
    BY <1>1, <2>1 DEF Ask, Linear!Receive, executorVars, Linear!executorVars
  <2>3. r \in Linear!Requests
    BY DEF Requests, Linear!Requests, Words, Linear!Words
  <2> QED
    BY <2>2, <2>3 DEF Linear!AgentNext
<1>2. CASE Initialize \/ RouteNode \/ LeaveExecutor
             \/ (PlannerNode /\ UNCHANGED <<executorVars, sessionVars>>)
  <2>1. UNCHANGED <<executorVars, request, ragService, evidence, response, agentErrors, phase>>
    BY <1>2 DEF Initialize, RouteNode, LeaveExecutor, PlannerNode, sessionVars, executorVars
  <2>2. LinearStage' = LinearStage
    <3>1. CASE Initialize
      BY <1>0, <2>1, <3>1 DEF Initialize, LinearStage
    <3>2. CASE RouteNode
      BY <1>0, <2>1, <3>2, Routing DEF RouteNode, LinearStage
    <3>3. CASE LeaveExecutor
      BY <1>0, <2>1, <3>3 DEF LeaveExecutor, LinearStage
    <3>4. CASE PlannerNode /\ UNCHANGED <<executorVars, sessionVars>>
      <4>1. graphStatus' = "planned"
        BY <2>1, <3>4 DEF PlannerNode, RefuseTask, NodeInv
      <4> QED
        BY <1>0, <2>1, <3>4, <4>1 DEF PlannerNode, LinearStage
    <3> QED
      BY <1>2, <3>1, <3>2, <3>3, <3>4
  <2> QED
    BY <2>1, <2>2, LinearStutter DEF LinearErrors
<1>3. CASE PlannerNode /\ RefuseTask(FALSE)
  <2>1. /\ node = "initialize" /\ node' = "planner" /\ phase' = phase /\ phase = "idle"
        /\ UNCHANGED <<request, response>>
    BY <1>3 DEF PlannerNode, RefuseTask, NodeInv
  <2>2. graphStatus' = "failed"
    BY <1>3 DEF PlannerNode, RefuseTask
  <2>3. LinearStage = "planning" /\ LinearStage' = "responding"
    BY <1>0, <2>1, <2>2 DEF LinearStage
  <2>4. (agentErrors \cup {"planner"}) \ {"unsupported"}
          = (agentErrors \ {"unsupported"}) \cup {"planner"}
    OBVIOUS
  <2>5. Linear!RefuseTask(FALSE)
    BY <1>3, <2>4, SamePlanner DEF RefuseTask, Linear!RefuseTask
  <2> QED
    BY <2>3, <2>5 DEF Linear!AgentNext, Linear!AgentWork, Linear!FailPlanning
<1>4. CASE UnsupportedNode
  <2>1. node = "planner" /\ graphStatus = "failed" /\ status = "failed"
    BY <1>4, Routing DEF UnsupportedNode, NodeInv
  <2>2. /\ UNCHANGED <<executorVars, request, ragService, evidence, response>>
        /\ node' = "unsupported" /\ agentErrors' = agentErrors \cup {"unsupported"}
    BY <1>4, <2>1 DEF UnsupportedNode, executorVars
  <2>3. LinearErrors' = LinearErrors
    BY <2>2 DEF LinearErrors
  <2>4. LinearStage' = LinearStage
    BY <1>0, <2>1, <2>2 DEF LinearStage
  <2> QED
    BY <2>2, <2>3, <2>4, LinearStutter
<1>5. CASE EnterExecutor
  <2>1. /\ Accepted /\ node \in AgentTools /\ node' = node /\ phase = "idle" /\ phase' = "submitted"
        /\ Submit(PlanFor(request.words, registry)) /\ UNCHANGED sessionVars
    BY <1>5 DEF EnterExecutor, Submit, NodeInv, Accepted
  <2>2. LinearStage = "planning" /\ LinearStage' = "executing"
    BY <1>0, <2>1 DEF LinearStage, sessionVars
  <2>3. /\ Linear!Submit(Linear!PlanFor(request.words, registry))
        /\ ~Linear!Refused(request, registry, FALSE)
    BY <2>1, SamePlanner DEF Accepted, Submit, Linear!Submit
  <2>4. UNCHANGED Linear!sessionVars
    BY <2>1 DEF sessionVars, Linear!sessionVars
  <2> QED
    BY <2>2, <2>3, <2>4 DEF Linear!AgentNext, Linear!AgentWork, Linear!StartExecution
<1>6. CASE InExecutor
  <2>1. /\ node \in AgentTools /\ node' = node /\ Execute /\ UNCHANGED sessionVars
        /\ phase # "idle" /\ phase' # "idle"
    BY <1>6, ExecutorKeepsPlan DEF InExecutor
  <2>2. LinearStage = "executing" /\ LinearStage' = "executing"
    BY <1>0, <2>1 DEF LinearStage, sessionVars
  <2>3. UNCHANGED Linear!sessionVars
    BY <2>1 DEF sessionVars, Linear!sessionVars
  <2> QED
    BY <2>1, <2>2, <2>3, SameExecutor
    DEF Linear!AgentNext, Linear!AgentWork, Linear!ExecutePlan
<1>7. CASE RagNode
  <2>1. /\ node = "executor" /\ node' = "rag" /\ phase = "finished" /\ UNCHANGED <<request, response>>
        /\ Retrieve /\ agentErrors = {} /\ request # NoRequest
    BY <1>7 DEF RagNode, Retrieve, NodeInv
  <2>2. LinearStage = "executing" /\ LinearStage' = "responding"
    BY <1>0, <2>1 DEF LinearStage
  <2>3. Linear!Retrieve
    BY <2>1 DEF Retrieve, Linear!Retrieve, Downgrade, Linear!Downgrade
  <2> QED
    BY <2>1, <2>2, <2>3 DEF Linear!AgentNext, Linear!AgentWork, Linear!CollectEvidence
<1>8. CASE TerminalNode /\ node = "executor"
  <2>1. /\ node' \in Terminals /\ phase = "finished" /\ ~request.evidence
        /\ UNCHANGED <<executorVars, sessionVars>> /\ request # NoRequest
    BY <1>8 DEF TerminalNode, GraphStatusOf, NodeInv
  <2>2. LinearStage = "executing" /\ LinearStage' = "responding"
    BY <1>0, <1>8, <2>1 DEF LinearStage, sessionVars, executorVars
  <2>3. UNCHANGED <<Linear!executorVars, Linear!sessionVars>>
    BY <2>1 DEF executorVars, sessionVars, Linear!executorVars, Linear!sessionVars
  <2> QED
    BY <2>1, <2>2, <2>3 DEF Linear!AgentNext, Linear!AgentWork, Linear!CollectEvidence
<1>9. CASE TerminalNode /\ node = "rag"
  <2>1. /\ node' \in Terminals
        /\ UNCHANGED <<executorVars, request, ragService, evidence, response, agentErrors>>
    BY <1>9 DEF TerminalNode, GraphStatusOf, sessionVars
  <2>2. LinearStage' = LinearStage
    BY <1>0, <1>9, <2>1 DEF LinearStage
  <2> QED
    BY <2>1, <2>2, LinearStutter DEF LinearErrors
<1>10. CASE GraphRespond
  <2>1. /\ node \in Terminals \cup {"unsupported"} /\ node' = node /\ Respond
        /\ response = NoResponse /\ response' = Answer /\ request' = request /\ request # NoRequest
    BY <1>0, <1>10 DEF GraphRespond, Respond
  <2>2. LinearStage = "responding" /\ LinearStage' = "answered"
    BY <2>1, AnswerIsGiven DEF LinearStage
  <2>3. Linear!Answer = Answer
    <3>1. Linear!ResponseStatus = ResponseStatus
      BY DEF Linear!ResponseStatus, ResponseStatus
    <3>2. \A s : Linear!ExecutedAs(s) = ExecutedAs(s)
      BY DEF Linear!ExecutedAs, ExecutedAs
    <3>3. \A S : Linear!Cardinality(S) = Cardinality(S)
      BY DEF Linear!Cardinality, Cardinality
    <3> QED
      BY <3>1, <3>2, <3>3 DEF Linear!Answer, Answer
  <2>4. Linear!Respond
    BY <2>1, <2>3 DEF Respond, Linear!Respond, executorVars, Linear!executorVars
  <2> QED
    BY <2>2, <2>4 DEF Linear!AgentNext, Linear!AgentWork, Linear!GiveResponse
<1>11. CASE UNCHANGED graphVars
  <2>1. UNCHANGED <<executorVars, request, ragService, evidence, response, agentErrors>>
    BY <1>11 DEF graphVars, sessionVars
  <2>2. LinearStage' = LinearStage
    BY <1>11 DEF graphVars, sessionVars, executorVars, LinearStage
  <2> QED
    BY <2>1, <2>2, LinearStutter DEF LinearErrors
<1>12. PlannerNode => RefuseTask(FALSE) \/ UNCHANGED <<executorVars, sessionVars>>
  BY DEF PlannerNode
<1>13. TerminalNode => node \in {"rag", "executor"}
  BY DEF TerminalNode
<1> QED
  BY <1>1, <1>2, <1>3, <1>4, <1>5, <1>6, <1>7, <1>8, <1>9, <1>10, <1>11, <1>12, <1>13
  DEF GraphNext, GraphWork

(* Every request carried through the graph is one that BOMAgent could have *)
(* carried: the nodes plan, execute and retrieve in its order, and none is *)
(* skipped, repeated or reordered.                                         *)
THEOREM GraphImplementsAgent == GraphSpec => ImplementsBOMAgent
<1>1. GraphInit => Linear!AgentInit
  BY GraphRefinesInit
<1>2. GraphInv /\ GraphInv' /\ [GraphNext]_graphVars => [Linear!AgentNext]_(Linear!agentVars)
  BY GraphRefinesNext
<1> QED
  BY GraphInductive, <1>1, <1>2, PTL DEF GraphSpec, ImplementsBOMAgent, Linear!AgentSpec

=============================================================================
