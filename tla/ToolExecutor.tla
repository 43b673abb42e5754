---------------------------- MODULE ToolExecutor ----------------------------
(***************************************************************************)
(* The executor of agents/executor.py: it takes the structured plan of one *)
(* agent request, refuses a malformed one before any tool runs, and        *)
(* otherwise takes the steps in order: a step with a failed or skipped     *)
(* dependency is skipped, any other calls its tool, again after a          *)
(* transient exception and at most MaxAttempts times in all.               *)
(*                                                                         *)
(* A tool is external to the executor: each call may raise an exception    *)
(* the retry policy classifies as transient or permanent, return something *)
(* that breaks the result contract, or report success, failure (with or    *)
(* without a message) or a skip.  What a tool computes is not modelled:    *)
(* an output is identified by the step that produced it.                   *)
(***************************************************************************)
EXTENDS Naturals, Sequences

CONSTANTS
  StepIds,       \* names a step may carry
  Tools,         \* names of tools
  Plans,         \* the plans an agent may submit
  MaxAttempts    \* RetryPolicy.max_attempts

Step == [id : StepIds, tool : Tools, deps : SUBSET StepIds]

ASSUME PlansAssumption == Plans \subseteq Seq(Step)
ASSUME AttemptsAssumption == MaxAttempts \in Nat \ {0}

VARIABLES
  registry,      \* the tools registered with the executor
  plan,          \* AgentState.execution_plan, a sequence of steps
  phase,         \* where the executor is: see Phases
  status,        \* AgentState.status
  stepStatus,    \* PlanStep.status, per position of the plan
  executions,    \* AgentState.executions, one record per step reached
  outputs,       \* AgentState.step_outputs: ids of the steps with an output
  results,       \* AgentState.tool_results: positions whose result was kept
  errors         \* AgentState.errors: positions they are about, 0 the plan

executorVars == <<registry, plan, phase, status, stepStatus, executions,
                  outputs, results, errors>>

Phases == {"idle", "submitted", "stepping", "calling", "finished"}
AgentStatus == {"pending", "running", "success", "partial", "failed"}
ToolStatus == {"pending", "running", "success", "failed", "skipped"}

(* What an execution remembers as its error.  A transient error stays on   *)
(* an execution whose next attempt succeeds.                               *)
Faults == {"none", "transient", "permanent", "contract", "unregistered",
           "blocked", "reported"}

Execution == [status : ToolStatus, attempts : 0..MaxAttempts,
              error : Faults, given : SUBSET StepIds]

-----------------------------------------------------------------------------
(* Plan validation, done in full before the first step.                    *)

Ids(p) == {p[i].id : i \in DOMAIN p}

(* step_positions is a dict: the last step with an id gives its position.  *)
PositionOf(p, id) ==
  CHOOSE i \in DOMAIN p :
    p[i].id = id /\ \A j \in DOMAIN p : p[j].id = id => j <= i

HasDuplicateIds(p) == \E i, j \in DOMAIN p : i # j /\ p[i].id = p[j].id

HasUnknownDependency(p) == \E i \in DOMAIN p : ~(p[i].deps \subseteq Ids(p))

HasLateDependency(p) ==
  \E i \in DOMAIN p : \E d \in p[i].deps \cap Ids(p) :
     PositionOf(p, d) >= PositionOf(p, p[i].id)

(* The depth-first search finds a cycle exactly when some set of ids is    *)
(* closed under "has a dependency in the set".                             *)
HasDependencyCycle(p) ==
  \E S \in (SUBSET Ids(p)) \ {{}} :
     \A id \in S : p[PositionOf(p, id)].deps \cap S # {}

(* Faulty: the position of a dependency is not compared.                   *)
ValidInAnyOrder(p) ==
  /\ p # <<>>
  /\ ~HasDuplicateIds(p)
  /\ ~HasUnknownDependency(p)
  /\ ~HasDependencyCycle(p)

Valid(p) ==
  /\ p # <<>>
  /\ ~HasDuplicateIds(p)
  /\ ~HasUnknownDependency(p)
  /\ ~HasLateDependency(p)
  /\ ~HasDependencyCycle(p)

-----------------------------------------------------------------------------
(* Steps of the executor.                                                  *)

Current == Len(executions)         \* the position being executed
Upcoming == Len(executions) + 1    \* the position to take next

(* Faulty: a skipped dependency counts as completed.                       *)
DependencyRaised(i) ==
  \E j \in DOMAIN executions :
     plan[j].id \in plan[i].deps /\ executions[j].status = "failed"

(* completed_steps.get(dependency) in {"failed", "skipped"}                *)
DependencyFailed(i) ==
  \E j \in DOMAIN executions :
     plan[j].id \in plan[i].deps /\ executions[j].status \in {"failed", "skipped"}

Init ==
  /\ registry \in SUBSET Tools
  /\ plan = <<>>
  /\ phase = "idle"
  /\ status = "pending"
  /\ stepStatus = <<>>
  /\ executions = <<>>
  /\ outputs = {}
  /\ results = {}
  /\ errors = {}

(* execute() is called with a plan.                                        *)
Submit(p) ==
  /\ phase = "idle"
  /\ phase' = "submitted"
  /\ plan' = p
  /\ stepStatus' = [i \in DOMAIN p |-> "pending"]
  /\ UNCHANGED <<registry, status, executions, outputs, results, errors>>

(* Faulty: an empty plan is returned from without a status.                *)
RejectNonEmpty ==
  /\ phase = "submitted"
  /\ plan # <<>> /\ ~Valid(plan)
  /\ phase' = "finished"
  /\ status' = "failed"
  /\ stepStatus' = [i \in DOMAIN plan |-> "failed"]
  /\ errors' = errors \cup {0}
  /\ UNCHANGED <<registry, plan, executions, outputs, results>>

Reject ==
  /\ phase = "submitted"
  /\ ~Valid(plan)
  /\ phase' = "finished"
  /\ status' = "failed"
  /\ stepStatus' = [i \in DOMAIN plan |-> "failed"]
  /\ errors' = errors \cup {0}
  /\ UNCHANGED <<registry, plan, executions, outputs, results>>

Accept ==
  /\ phase = "submitted"
  /\ Valid(plan)
  /\ phase' = "stepping"
  /\ status' = "running"
  /\ UNCHANGED <<registry, plan, stepStatus, executions, outputs, results, errors>>

(* An execution that ends without a call of its tool.                      *)
EndUncalled(end, fault) ==
  /\ executions' = Append(executions, [status |-> end, attempts |-> 0,
                                       error |-> fault, given |-> {}])
  /\ stepStatus' = [stepStatus EXCEPT ![Upcoming] = end]
  /\ errors' = errors \cup {Upcoming}
  /\ UNCHANGED <<registry, plan, phase, status, outputs, results>>

SkipBlocked ==
  /\ phase = "stepping"
  /\ Upcoming \in DOMAIN plan
  /\ DependencyFailed(Upcoming)
  /\ EndUncalled("skipped", "blocked")

FailUnregistered ==
  /\ phase = "stepping"
  /\ Upcoming \in DOMAIN plan
  /\ ~DependencyFailed(Upcoming)
  /\ plan[Upcoming].tool \notin registry
  /\ EndUncalled("failed", "unregistered")

(* What a step is given: the outputs of its declared dependencies, and of  *)
(* nothing else.                                                           *)
StepContext(i) == plan[i].deps \cap outputs

(* The first attempt.                                                      *)
Call ==
  /\ phase = "stepping"
  /\ Upcoming \in DOMAIN plan
  /\ ~DependencyFailed(Upcoming)
  /\ plan[Upcoming].tool \in registry
  /\ phase' = "calling"
  /\ executions' =
       Append(executions, [status |-> "running", attempts |-> 1, error |-> "none",
                           given |-> StepContext(Upcoming)])
  /\ UNCHANGED <<registry, plan, status, stepStatus, outputs, results, errors>>

(* Faulty: the budget is off by one, too large and too small.              *)
RetryOnceMore(fault, attempt) == fault = "transient" /\ attempt <= MaxAttempts
RetryOnceLess(fault, attempt) == fault = "transient" /\ attempt + 1 < MaxAttempts

(* RetryPolicy.should_retry                                                *)
ShouldRetry(fault, attempt) == fault = "transient" /\ attempt < MaxAttempts

Retry ==
  /\ phase = "calling"
  /\ \E fault \in {"transient", "permanent"} :
        /\ ShouldRetry(fault, executions[Current].attempts)
        /\ executions' = [executions EXCEPT ![Current] =
                            [@ EXCEPT !.attempts = executions[Current].attempts + 1,
                                      !.error = fault]]
  /\ UNCHANGED <<registry, plan, phase, status, stepStatus, outputs, results, errors>>

(* Faulty: the step is left as it was.                                     *)
EndExecutionOnly(end, fault) ==
  /\ phase' = "stepping"
  /\ executions' = [executions EXCEPT ![Current] =
                      [@ EXCEPT !.status = end, !.error = fault]]
  /\ UNCHANGED <<registry, plan, status, stepStatus>>

(* The call in progress is over: its execution and its step end alike.     *)
EndCall(end, fault) ==
  /\ phase' = "stepping"
  /\ executions' = [executions EXCEPT ![Current] =
                      [@ EXCEPT !.status = end, !.error = fault]]
  /\ stepStatus' = [stepStatus EXCEPT ![Current] = end]
  /\ UNCHANGED <<registry, plan, status>>

GiveUp ==
  /\ phase = "calling"
  /\ \E fault \in {"transient", "permanent"} :
        /\ ~ShouldRetry(fault, executions[Current].attempts)
        /\ EndCall("failed", fault)
  /\ errors' = errors \cup {Current}
  /\ UNCHANGED <<outputs, results>>

(* Faulty: a broken contract is not recorded.                              *)
BreakContractSilently ==
  /\ phase = "calling"
  /\ EndCall("failed", "contract")
  /\ UNCHANGED <<outputs, results, errors>>

(* The result is no ToolResult, names another tool or has another status.  *)
BreakContract ==
  /\ phase = "calling"
  /\ EndCall("failed", "contract")
  /\ errors' = errors \cup {Current}
  /\ UNCHANGED <<outputs, results>>

Succeed ==
  /\ phase = "calling"
  /\ EndCall("success", executions[Current].error)
  /\ outputs' = outputs \cup {plan[Current].id}
  /\ results' = results \cup {Current}
  /\ UNCHANGED errors

ReportSkip ==
  /\ phase = "calling"
  /\ EndCall("skipped", executions[Current].error)
  /\ results' = results \cup {Current}
  /\ UNCHANGED <<outputs, errors>>

(* A failure the tool reports is never retried; its message may be empty.  *)
ReportFailure ==
  /\ phase = "calling"
  /\ results' = results \cup {Current}
  /\ \/ /\ EndCall("failed", "reported")
        /\ errors' = errors \cup {Current}
     \/ /\ EndCall("failed", executions[Current].error)
        /\ UNCHANGED errors
  /\ UNCHANGED outputs

(* Faulty: skipped steps do not count.                                     *)
FinalStatusOfCalls ==
  LET statuses == {executions[i].status : i \in DOMAIN executions}
  IN  CASE "failed" \notin statuses -> "success"
        [] OTHER -> IF "success" \in statuses THEN "partial" ELSE "failed"

(* _finalize_plan_status                                                   *)
FinalStatus ==
  LET statuses == {executions[i].status : i \in DOMAIN executions}
  IN  CASE statuses = {}               -> "failed"
        [] "failed" \in statuses       ->
             IF statuses \cap {"success", "skipped"} # {} THEN "partial" ELSE "failed"
        [] "skipped" \in statuses /\ "failed" \notin statuses ->
             IF "success" \in statuses THEN "partial" ELSE "failed"
        [] OTHER                       -> "success"

Finalize ==
  /\ phase = "stepping"
  /\ Upcoming \notin DOMAIN plan
  /\ phase' = "finished"
  /\ status' = FinalStatus
  /\ UNCHANGED <<registry, plan, stepStatus, executions, outputs, results, errors>>

(* Everything after the submission, the part a caller composes with.       *)
Execute ==
  \/ Reject \/ Accept \/ SkipBlocked \/ FailUnregistered
  \/ Call \/ Retry \/ GiveUp \/ BreakContract
  \/ Succeed \/ ReportSkip \/ ReportFailure \/ Finalize

Next == (\E p \in Plans : Submit(p)) \/ Execute

Spec == Init /\ [][Next]_executorVars

(* Every await of a tool returns or raises, and the retry loop is bounded: *)
(* the executor never stops while it can take a step.                      *)
FairSpec == Spec /\ WF_executorVars(Execute)

-----------------------------------------------------------------------------
(* Correctness.                                                            *)

TypeOK ==
  /\ registry \in SUBSET Tools
  /\ plan \in Plans \cup {<<>>}
  /\ phase \in Phases
  /\ status \in AgentStatus
  /\ stepStatus \in [DOMAIN plan -> ToolStatus]
  /\ executions \in Seq(Execution)
  /\ outputs \in SUBSET StepIds
  /\ results \in SUBSET (DOMAIN executions)
  /\ errors \in SUBSET ({0} \cup DOMAIN executions)

Ended(i) == i \in DOMAIN executions /\ executions[i].status # "running"

(* The run as PlanRun sees it.                                             *)
Outcome == [i \in DOMAIN plan |-> IF Ended(i) THEN executions[i].status ELSE "waiting"]
RunVerdict ==
  CASE phase = "idle"     -> "idle"
    [] phase = "finished" -> status
    [] OTHER              -> "open"

Promise == INSTANCE PlanRun WITH outcome <- Outcome, verdict <- RunVerdict

(* A tool is only ever called, and called again, when every dependency of  *)
(* its step has succeeded, and it is given exactly the outputs of those    *)
(* dependencies, none missing and none of another step.                    *)
CallsAreReady ==
  \A i \in DOMAIN executions : executions[i].attempts > 0 =>
     /\ executions[i].given = plan[i].deps
     /\ \A d \in plan[i].deps :
           \E j \in 1..(i - 1) : plan[j].id = d /\ executions[j].status = "success"

(* A malformed plan causes no partial execution: steps are only executed   *)
(* for a sound plan, and then every one of them, in whatever way the       *)
(* earlier ones ended.  Sound is stated without a search for cycles.       *)
AllOrNothing ==
  /\ executions # <<>> => Promise!Sound(plan)
  /\ phase = "finished" =>
       IF Promise!Sound(plan)
       THEN Len(executions) = Len(plan)
       ELSE executions = <<>> /\ status = "failed"

(* The four records of the run agree: a step of the plan has the status of *)
(* its execution, an output exists for exactly the steps that succeeded,   *)
(* and every success is backed by a result the tool returned.              *)
RecordsAgree ==
  /\ \A i \in DOMAIN executions :
       stepStatus[i] = IF Ended(i) THEN executions[i].status ELSE "pending"
  /\ outputs = {plan[i].id : i \in {k \in DOMAIN executions :
                                       executions[k].status = "success"}}
  /\ \A i \in DOMAIN executions : executions[i].status = "success" => i \in results

(* A step that failed or was skipped without a result of its tool to say   *)
(* why (exception, broken contract, missing tool, failed dependency) has   *)
(* an entry in AgentState.errors.                                          *)
FailuresExplained ==
  \A i \in DOMAIN executions :
     executions[i].status \in {"failed", "skipped"} /\ i \notin results => i \in errors

(* A tool that keeps raising transient exceptions is given up only after   *)
(* the whole budget of attempts, and no tool is called more often.         *)
RetriesExhausted ==
  \A i \in DOMAIN executions :
     /\ executions[i].attempts <= MaxAttempts
     /\ executions[i].status = "failed" /\ executions[i].error = "transient"
          /\ i \notin results => executions[i].attempts = MaxAttempts

(* The executor implements the plan run: every step settles once, after    *)
(* its dependencies and as they allow, and the final status is the summary *)
(* of the outcomes.                                                        *)
PlanPromise == Promise!Spec

(* Every submitted plan gets a final status, if tool calls come back.      *)
Termination == phase = "submitted" ~> phase = "finished"

=============================================================================
