------------------------- MODULE ToolExecutorProofs -------------------------
(***************************************************************************)
(* Proofs about ToolExecutor, for every set of plans, every registry and   *)
(* every retry budget.                                                     *)
(***************************************************************************)
EXTENDS ToolExecutor, SequenceTheorems, WellFoundedInduction, TLAPS

(* The shape of a run: where each phase finds the plan and its executions. *)
Shape ==
  /\ phase \in {"idle", "submitted"} => executions = <<>>
  /\ phase = "idle" => plan = <<>>
  /\ phase \in {"stepping", "calling"} => Valid(plan)
  /\ Len(executions) <= Len(plan)
  /\ phase = "calling" => Len(executions) > 0 /\ executions[Len(executions)].attempts > 0
  /\ \A i \in DOMAIN executions :
       /\ executions[i].status # "pending"
       /\ executions[i].status = "running" <=> phase = "calling" /\ i = Len(executions)

-----------------------------------------------------------------------------
(* What the two operators that change executions do to the sequence.       *)

(* Appending a record extends the sequence by it and keeps the rest.       *)
LEMMA Appended ==
  ASSUME NEW S, NEW s \in Seq(S), NEW e \in S
  PROVE  /\ Append(s, e) \in Seq(S)
         /\ Len(Append(s, e)) = Len(s) + 1
         /\ DOMAIN Append(s, e) = 1..(Len(s) + 1)
         /\ \A i \in 1..Len(s) : Append(s, e)[i] = s[i]
         /\ Append(s, e)[Len(s) + 1] = e
  OBVIOUS

(* Replacing the last record of a sequence keeps its length and the rest.  *)
LEMMA LastReplaced ==
  ASSUME NEW S, NEW s \in Seq(S), Len(s) > 0, NEW e \in S,
         NEW t, t = [s EXCEPT ![Len(s)] = e]
  PROVE  /\ t \in Seq(S)
         /\ Len(t) = Len(s)
         /\ DOMAIN t = 1..Len(s)
         /\ \A i \in 1..(Len(s) - 1) : t[i] = s[i]
         /\ t[Len(s)] = e
<1>1. Len(s) \in 1..Len(s)
  BY LenProperties
<1> QED
  BY <1>1, ExceptSeq, LenProperties

(* A reachable plan is a sequence of steps.                                *)
LEMMA PlanType ==
  ASSUME TypeOK
  PROVE  /\ plan \in Seq(Step)
         /\ DOMAIN plan = 1..Len(plan)
         /\ Len(plan) \in Nat
         /\ DOMAIN executions = 1..Len(executions)
         /\ Len(executions) \in Nat
         /\ executions \in Seq(Execution)
<1>1. plan \in Seq(Step)
  BY PlansAssumption DEF TypeOK
<1> QED
  BY <1>1, LenProperties DEF TypeOK

(* An execution that ends uncalled is appended; its step ends with it.     *)
LEMMA UncalledStep ==
  ASSUME TypeOK, Upcoming \in DOMAIN plan,
         NEW end \in ToolStatus, NEW fault \in Faults, EndUncalled(end, fault)
  PROVE  /\ executions' \in Seq(Execution)
         /\ Len(executions') = Len(executions) + 1
         /\ DOMAIN executions' = 1..(Len(executions) + 1)
         /\ \A i \in 1..Len(executions) : executions'[i] = executions[i]
         /\ executions'[Len(executions) + 1] =
              [status |-> end, attempts |-> 0, error |-> fault, given |-> {}]
         /\ stepStatus' \in [DOMAIN plan -> ToolStatus]
         /\ stepStatus'[Len(executions) + 1] = end
         /\ \A i \in 1..Len(executions) : stepStatus'[i] = stepStatus[i]
         /\ errors' = errors \cup {Len(executions) + 1}
         /\ UNCHANGED <<registry, plan, phase, status, outputs, results>>
<1> DEFINE e == [status |-> end, attempts |-> 0, error |-> fault, given |-> {}]
<1>1. e \in Execution
  BY AttemptsAssumption DEF Execution
<1>2. executions' = Append(executions, e)
  BY DEF EndUncalled
<1>3. executions \in Seq(Execution)
  BY DEF TypeOK
<1>4. /\ Append(executions, e) \in Seq(Execution)
      /\ Len(Append(executions, e)) = Len(executions) + 1
      /\ DOMAIN Append(executions, e) = 1..(Len(executions) + 1)
      /\ \A i \in 1..Len(executions) : Append(executions, e)[i] = executions[i]
      /\ Append(executions, e)[Len(executions) + 1] = e
  <2> HIDE DEF e
  <2> QED
    BY <1>1, <1>3, Appended
<1>5. /\ stepStatus' \in [DOMAIN plan -> ToolStatus]
      /\ stepStatus'[Len(executions) + 1] = end
      /\ \A i \in 1..Len(executions) : stepStatus'[i] = stepStatus[i]
  BY PlanType DEF EndUncalled, Upcoming, TypeOK
<1>6. /\ errors' = errors \cup {Len(executions) + 1}
      /\ UNCHANGED <<registry, plan, phase, status, outputs, results>>
  BY DEF EndUncalled, Upcoming
<1> QED
  BY <1>2, <1>4, <1>5, <1>6

(* A first attempt appends a running execution.                            *)
LEMMA CallStep ==
  ASSUME TypeOK, Call
  PROVE  /\ phase = "stepping" /\ phase' = "calling"
         /\ Len(executions) + 1 \in DOMAIN plan
         /\ executions' \in Seq(Execution)
         /\ Len(executions') = Len(executions) + 1
         /\ DOMAIN executions' = 1..(Len(executions) + 1)
         /\ \A i \in 1..Len(executions) : executions'[i] = executions[i]
         /\ executions'[Len(executions) + 1] =
              [status |-> "running", attempts |-> 1, error |-> "none",
               given |-> plan[Len(executions) + 1].deps \cap outputs]
         /\ UNCHANGED <<registry, plan, status, stepStatus, outputs, results, errors>>
<1> DEFINE e == [status |-> "running", attempts |-> 1, error |-> "none",
                 given |-> plan[Len(executions) + 1].deps \cap outputs]
<1>1. e \in Execution
  BY AttemptsAssumption DEF Execution, TypeOK, ToolStatus, Faults
<1>2. executions' = Append(executions, e)
  BY DEF Call, StepContext, Upcoming
<1>3. executions \in Seq(Execution)
  BY DEF TypeOK
<1>4. /\ Append(executions, e) \in Seq(Execution)
      /\ Len(Append(executions, e)) = Len(executions) + 1
      /\ DOMAIN Append(executions, e) = 1..(Len(executions) + 1)
      /\ \A i \in 1..Len(executions) : Append(executions, e)[i] = executions[i]
      /\ Append(executions, e)[Len(executions) + 1] = e
  <2> HIDE DEF e
  <2> QED
    BY <1>1, <1>3, Appended
<1>5. /\ phase = "stepping" /\ phase' = "calling"
      /\ Len(executions) + 1 \in DOMAIN plan
      /\ UNCHANGED <<registry, plan, status, stepStatus, outputs, results, errors>>
  BY DEF Call, StepContext, Upcoming
<1> QED
  BY <1>2, <1>4, <1>5

(* While a tool is called, the last execution is the one in progress.      *)
LEMMA CallInProgress ==
  ASSUME TypeOK, Shape, phase = "calling"
  PROVE  /\ Len(executions) \in 1..Len(executions)
         /\ Len(executions) \in DOMAIN executions
         /\ Len(executions) \in DOMAIN plan
         /\ Len(executions) > 0
         /\ executions[Len(executions)] \in Execution
         /\ plan[Len(executions)] \in Step
<1>1. /\ Len(executions) \in 1..Len(executions)
      /\ Len(executions) \in DOMAIN executions
      /\ Len(executions) \in DOMAIN plan
      /\ Len(executions) > 0
  BY PlanType DEF Shape
<1> QED
  BY <1>1, PlanType, ElementOfSeq

(* Another attempt changes the attempts and the error of the last record.  *)
LEMMA RetryStep ==
  ASSUME TypeOK, Shape, Retry
  PROVE  /\ phase = "calling"
         /\ executions' \in Seq(Execution)
         /\ Len(executions') = Len(executions)
         /\ DOMAIN executions' = 1..Len(executions)
         /\ \A i \in 1..(Len(executions) - 1) : executions'[i] = executions[i]
         /\ executions'[Len(executions)].status = executions[Len(executions)].status
         /\ executions'[Len(executions)].given = executions[Len(executions)].given
         /\ executions'[Len(executions)].attempts > 0
         /\ UNCHANGED <<registry, plan, phase, status, stepStatus, outputs, results, errors>>
<1>1. phase = "calling"
  BY DEF Retry
<1>2. PICK fault \in {"transient", "permanent"} :
        /\ executions[Len(executions)].attempts < MaxAttempts
        /\ executions' = [executions EXCEPT ![Len(executions)] =
                            [executions[Len(executions)] EXCEPT
                               !.attempts = executions[Len(executions)].attempts + 1,
                               !.error = fault]]
  BY DEF Retry, ShouldRetry, Current
<1> DEFINE e == [executions[Len(executions)] EXCEPT
                   !.attempts = executions[Len(executions)].attempts + 1, !.error = fault]
<1>3. executions[Len(executions)] \in Execution
  BY <1>1, CallInProgress
<1>4. /\ e \in Execution
      /\ e.status = executions[Len(executions)].status
      /\ e.given = executions[Len(executions)].given
      /\ e.attempts > 0
  <2> DEFINE r == executions[Len(executions)]
  <2>1. /\ r.attempts + 1 \in 0..MaxAttempts
        /\ r.attempts + 1 > 0
    BY <1>2, <1>3, AttemptsAssumption DEF Execution
  <2>2. fault \in Faults
    BY DEF Faults
  <2> HIDE DEF r
  <2> QED
    BY <1>3, <2>1, <2>2 DEF Execution, r
<1>5. executions' = [executions EXCEPT ![Len(executions)] = e]
  BY <1>2
<1>6. executions \in Seq(Execution) /\ Len(executions) > 0
  BY <1>1, CallInProgress, PlanType
<1>7. /\ executions' \in Seq(Execution)
      /\ Len(executions') = Len(executions)
      /\ DOMAIN executions' = 1..Len(executions)
      /\ \A i \in 1..(Len(executions) - 1) : executions'[i] = executions[i]
      /\ executions'[Len(executions)] = e
  <2> HIDE DEF e
  <2> QED
    BY <1>4, <1>5, <1>6, LastReplaced
<1>8. UNCHANGED <<registry, plan, phase, status, stepStatus, outputs, results, errors>>
  BY DEF Retry
<1> HIDE DEF e
<1> QED
  BY <1>1, <1>4, <1>7, <1>8

(* The call in progress ends: its record and its step change, alike.       *)
LEMMA EndCallStep ==
  ASSUME TypeOK, Shape, phase = "calling",
         NEW end \in ToolStatus, NEW fault \in Faults, EndCall(end, fault)
  PROVE  /\ executions' \in Seq(Execution)
         /\ Len(executions') = Len(executions)
         /\ DOMAIN executions' = 1..Len(executions)
         /\ \A i \in 1..(Len(executions) - 1) : executions'[i] = executions[i]
         /\ executions'[Len(executions)].status = end
         /\ executions'[Len(executions)].error = fault
         /\ executions'[Len(executions)].attempts = executions[Len(executions)].attempts
         /\ executions'[Len(executions)].given = executions[Len(executions)].given
         /\ stepStatus' \in [DOMAIN plan -> ToolStatus]
         /\ stepStatus'[Len(executions)] = end
         /\ \A i \in 1..(Len(executions) - 1) : stepStatus'[i] = stepStatus[i]
         /\ phase' = "stepping"
         /\ UNCHANGED <<registry, plan, status>>
<1> DEFINE e == [executions[Len(executions)] EXCEPT !.status = end, !.error = fault]
<1>1. executions[Len(executions)] \in Execution
  BY CallInProgress
<1>2. /\ e \in Execution
      /\ e.status = end
      /\ e.error = fault
      /\ e.attempts = executions[Len(executions)].attempts
      /\ e.given = executions[Len(executions)].given
  BY <1>1 DEF Execution
<1>3. executions' = [executions EXCEPT ![Len(executions)] = e]
  BY DEF EndCall, Current
<1>4. executions \in Seq(Execution) /\ Len(executions) > 0
  BY CallInProgress, PlanType
<1>5. /\ executions' \in Seq(Execution)
      /\ Len(executions') = Len(executions)
      /\ DOMAIN executions' = 1..Len(executions)
      /\ \A i \in 1..(Len(executions) - 1) : executions'[i] = executions[i]
      /\ executions'[Len(executions)] = e
  <2> HIDE DEF e
  <2> QED
    BY <1>2, <1>3, <1>4, LastReplaced
<1>6. /\ stepStatus' \in [DOMAIN plan -> ToolStatus]
      /\ stepStatus'[Len(executions)] = end
      /\ \A i \in 1..(Len(executions) - 1) : stepStatus'[i] = stepStatus[i]
  BY CallInProgress, PlanType DEF EndCall, Current, TypeOK
<1>7. phase' = "stepping" /\ UNCHANGED <<registry, plan, status>>
  BY DEF EndCall
<1> HIDE DEF e
<1> QED
  BY <1>2, <1>5, <1>6, <1>7

(* However a call ends, its execution ends with a status and an error that *)
(* name the way, and only then may the records of the run change.          *)
LEMMA CallEnds ==
  ASSUME TypeOK, Shape,
         GiveUp \/ BreakContract \/ Succeed \/ ReportSkip \/ ReportFailure
  PROVE  /\ phase = "calling"
         /\ \E end \in {"success", "failed", "skipped"}, fault \in Faults :
              /\ EndCall(end, fault)
              /\ outputs' = IF end = "success"
                            THEN outputs \cup {plan[Len(executions)].id} ELSE outputs
              /\ end = "success" => results' = results \cup {Len(executions)}
              /\ end # "success" =>
                   \/ results' = results \cup {Len(executions)}
                   \/ /\ results' = results
                      /\ errors' = errors \cup {Len(executions)}
                      /\ fault = "transient" =>
                           executions[Len(executions)].attempts >= MaxAttempts
              /\ errors' \in {errors, errors \cup {Len(executions)}}
              /\ end = "success" => errors' = errors
<1>1. phase = "calling"
  BY DEF GiveUp, BreakContract, Succeed, ReportSkip, ReportFailure
<1>2. executions[Len(executions)].error \in Faults
  BY <1>1, CallInProgress DEF Execution
<1>3. executions[Len(executions)].attempts \in Nat
  BY <1>1, CallInProgress, AttemptsAssumption DEF Execution
<1> USE AttemptsAssumption DEF Current, Faults
<1>4. CASE GiveUp
  BY <1>1, <1>3, <1>4 DEF GiveUp, ShouldRetry
<1>5. CASE BreakContract
  BY <1>1, <1>5 DEF BreakContract
<1>6. CASE Succeed
  BY <1>1, <1>2, <1>6 DEF Succeed
<1>7. CASE ReportSkip
  BY <1>1, <1>2, <1>7 DEF ReportSkip
<1>8. CASE ReportFailure
  BY <1>1, <1>2, <1>8 DEF ReportFailure
<1> QED
  BY <1>4, <1>5, <1>6, <1>7, <1>8

-----------------------------------------------------------------------------
(* Type correctness and shape.                                             *)

(* A new executor is well typed and has the shape of a run.                *)
LEMMA TypeInit == Init => TypeOK /\ Shape
  BY DEF Init, TypeOK, Shape, Phases, AgentStatus

(* Every step of the executor keeps its variables in their types.          *)
LEMMA TypeNext ==
  ASSUME TypeOK, Shape, [Next]_executorVars
  PROVE  TypeOK'
<1>1. ASSUME NEW p \in Plans, Submit(p)
      PROVE  TypeOK'
  BY <1>1, PlansAssumption DEF Submit, Shape, TypeOK, Phases, ToolStatus
<1>2. CASE Reject
  BY <1>2 DEF Reject, TypeOK, Phases, AgentStatus, ToolStatus
<1>3. CASE Accept
  BY <1>3 DEF Accept, TypeOK, Phases, AgentStatus
<1>4. CASE SkipBlocked \/ FailUnregistered
  <2>1. Upcoming \in DOMAIN plan
    BY <1>4 DEF SkipBlocked, FailUnregistered
  <2>2. PICK end \in ToolStatus, fault \in Faults : EndUncalled(end, fault)
    BY <1>4 DEF SkipBlocked, FailUnregistered, ToolStatus, Faults
  <2>3. /\ executions' \in Seq(Execution)
        /\ DOMAIN executions' = 1..(Len(executions) + 1)
        /\ stepStatus' \in [DOMAIN plan -> ToolStatus]
        /\ errors' = errors \cup {Len(executions) + 1}
        /\ UNCHANGED <<registry, plan, phase, status, outputs, results>>
    BY <2>1, <2>2, UncalledStep
  <2>4. DOMAIN executions' = DOMAIN executions \cup {Len(executions) + 1}
    BY <2>3, PlanType
  <2> QED
    BY <2>3, <2>4 DEF TypeOK
<1>5. CASE Call
  <2>1. /\ executions' \in Seq(Execution)
        /\ DOMAIN executions' = 1..(Len(executions) + 1)
        /\ phase' = "calling"
        /\ UNCHANGED <<registry, plan, status, stepStatus, outputs, results, errors>>
    BY <1>5, CallStep
  <2>2. DOMAIN executions \subseteq DOMAIN executions'
    BY <2>1, PlanType
  <2> QED
    BY <2>1, <2>2 DEF TypeOK, Phases
<1>6. CASE Retry
  BY <1>6, RetryStep, PlanType DEF TypeOK
<1>7. CASE GiveUp \/ BreakContract \/ Succeed \/ ReportSkip \/ ReportFailure
  <2>1. /\ executions' \in Seq(Execution)
        /\ DOMAIN executions' = DOMAIN executions
        /\ stepStatus' \in [DOMAIN plan -> ToolStatus]
        /\ phase' = "stepping"
        /\ UNCHANGED <<registry, plan, status>>
    BY <1>7, CallEnds, EndCallStep, PlanType DEF ToolStatus
  <2>2. /\ outputs' \in {outputs, outputs \cup {plan[Len(executions)].id}}
        /\ results' \in {results, results \cup {Len(executions)}}
        /\ errors' \in {errors, errors \cup {Len(executions)}}
    BY <1>7, CallEnds
  <2>3. Len(executions) \in DOMAIN executions /\ plan[Len(executions)].id \in StepIds
    BY <1>7, CallEnds, CallInProgress DEF Step
  <2> QED
    BY <2>1, <2>2, <2>3 DEF TypeOK, Phases
<1>8. CASE Finalize
  BY <1>8 DEF Finalize, FinalStatus, TypeOK, Phases, AgentStatus
<1>9. CASE UNCHANGED executorVars
  BY <1>9 DEF executorVars, TypeOK
<1> QED
  BY <1>1, <1>2, <1>3, <1>4, <1>5, <1>6, <1>7, <1>8, <1>9 DEF Next, Execute

(* Every step of the executor keeps the shape of a run.                    *)
LEMMA ShapeNext ==
  ASSUME TypeOK, Shape, [Next]_executorVars
  PROVE  Shape'
<1>1. ASSUME NEW p \in Plans, Submit(p)
      PROVE  Shape'
  <2>1. Len(p) \in Nat
    BY PlansAssumption, LenProperties
  <2>2. executions = <<>> /\ executions' = <<>> /\ plan' = p /\ phase' = "submitted"
    BY <1>1 DEF Submit, Shape
  <2> QED
    BY <2>1, <2>2 DEF Shape
<1>2. CASE Reject
  BY <1>2, PlanType DEF Reject, Shape
<1>3. CASE Accept
  BY <1>3, PlanType DEF Accept, Shape
<1>4. CASE SkipBlocked \/ FailUnregistered
  <2>1. Upcoming \in DOMAIN plan /\ phase = "stepping"
    BY <1>4 DEF SkipBlocked, FailUnregistered
  <2>2. PICK end \in {"skipped", "failed"}, fault \in Faults : EndUncalled(end, fault)
    BY <1>4 DEF SkipBlocked, FailUnregistered, Faults
  <2> end \in ToolStatus
    BY DEF ToolStatus
  <2>3. /\ Len(executions') = Len(executions) + 1
        /\ DOMAIN executions' = 1..(Len(executions) + 1)
        /\ \A i \in 1..Len(executions) : executions'[i] = executions[i]
        /\ executions'[Len(executions) + 1] =
             [status |-> end, attempts |-> 0, error |-> fault, given |-> {}]
        /\ UNCHANGED <<plan, phase>>
    BY <2>1, <2>2, UncalledStep
  <2>4. Len(executions) + 1 <= Len(plan)
    BY <2>1, PlanType DEF Upcoming
  <2> QED
    BY <2>1, <2>3, <2>4, PlanType DEF Shape
<1>5. CASE Call
  <2>1. /\ phase = "stepping" /\ phase' = "calling"
        /\ Len(executions) + 1 \in DOMAIN plan
        /\ Len(executions') = Len(executions) + 1
        /\ DOMAIN executions' = 1..(Len(executions) + 1)
        /\ \A i \in 1..Len(executions) : executions'[i] = executions[i]
        /\ executions'[Len(executions) + 1].status = "running"
        /\ executions'[Len(executions) + 1].attempts = 1
        /\ plan' = plan
    BY <1>5, CallStep
  <2> QED
    BY <2>1, PlanType DEF Shape
<1>6. CASE Retry
  <2>1. /\ phase = "calling" /\ phase' = "calling" /\ plan' = plan
        /\ Len(executions') = Len(executions)
        /\ DOMAIN executions' = 1..Len(executions)
        /\ \A i \in 1..(Len(executions) - 1) : executions'[i] = executions[i]
        /\ executions'[Len(executions)].status = executions[Len(executions)].status
        /\ executions'[Len(executions)].attempts > 0
    BY <1>6, RetryStep
  <2>2. \A i \in 1..Len(executions) : executions'[i].status = executions[i].status
    BY <2>1, PlanType
  <2> QED
    BY <2>1, <2>2, PlanType DEF Shape
<1>7. CASE GiveUp \/ BreakContract \/ Succeed \/ ReportSkip \/ ReportFailure
  <2>1. phase = "calling"
    BY <1>7, CallEnds
  <2>2. PICK end \in {"success", "failed", "skipped"}, fault \in Faults : EndCall(end, fault)
    BY <1>7, CallEnds
  <2>3. /\ Len(executions') = Len(executions)
        /\ DOMAIN executions' = 1..Len(executions)
        /\ \A i \in 1..(Len(executions) - 1) : executions'[i] = executions[i]
        /\ executions'[Len(executions)].status = end
        /\ phase' = "stepping"
        /\ plan' = plan
    BY <2>1, <2>2, EndCallStep DEF ToolStatus
  <2> QED
    BY <2>1, <2>3, PlanType DEF Shape
<1>8. CASE Finalize
  BY <1>8, PlanType DEF Finalize, Shape
<1>9. CASE UNCHANGED executorVars
  BY <1>9 DEF executorVars, Shape
<1> QED
  BY <1>1, <1>2, <1>3, <1>4, <1>5, <1>6, <1>7, <1>8, <1>9 DEF Next, Execute

(* Every variable of the executor always has its type.                     *)
THEOREM TypeCorrect == Spec => [](TypeOK /\ Shape)
<1>1. TypeOK /\ Shape /\ [Next]_executorVars => (TypeOK /\ Shape)'
  BY TypeNext, ShapeNext
<1> QED
  BY TypeInit, <1>1, PTL DEF Spec

-----------------------------------------------------------------------------
(* Validation accepts exactly the sound plans.  In particular the search   *)
(* for cycles never refuses a plan that the order of its steps lets pass.  *)

(* With distinct ids, the position recorded for an id is the only one that *)
(* has it.                                                                 *)
LEMMA UniquePosition ==
  ASSUME NEW p \in Seq(Step), ~HasDuplicateIds(p), NEW i \in DOMAIN p
  PROVE  PositionOf(p, p[i].id) = i
  BY DEF PositionOf, HasDuplicateIds

(* A plan that passes the executor's checks is sound.                      *)
LEMMA ValidIsSound ==
  ASSUME NEW p \in Seq(Step), Valid(p)
  PROVE  Promise!Sound(p)
<1>1. p # <<>> /\ ~HasDuplicateIds(p) /\ ~HasUnknownDependency(p) /\ ~HasLateDependency(p)
  BY DEF Valid
<1>2. \A i, j \in DOMAIN p : p[i].id = p[j].id => i = j
  BY <1>1 DEF HasDuplicateIds
<1>3. ASSUME NEW i \in DOMAIN p, NEW d \in p[i].deps
      PROVE  \E j \in DOMAIN p : j < i /\ p[j].id = d
  <2>1. PICK j \in DOMAIN p : p[j].id = d
    BY <1>1, <1>3 DEF HasUnknownDependency, Ids
  <2>2. PositionOf(p, d) = j /\ PositionOf(p, p[i].id) = i
    BY <1>1, <2>1, UniquePosition
  <2>3. ~(PositionOf(p, d) >= PositionOf(p, p[i].id))
    BY <1>1, <1>3, <2>1 DEF HasLateDependency, Ids
  <2>4. i \in Nat /\ j \in Nat
    BY LenProperties
  <2> QED
    BY <2>1, <2>2, <2>3, <2>4
<1> QED
  BY <1>1, <1>2, <1>3 DEF Promise!Sound

(* A set of naturals that is not empty has a least element.                *)
LEMMA LeastElement ==
  ASSUME NEW T \in SUBSET Nat, T # {}
  PROVE  \E x \in T : \A y \in T : x <= y
<1>1. PICK x \in T : \A y \in T : ~ (<<y, x>> \in OpToRel(<, Nat))
  BY NatLessThanWellFounded, WFMin, Zenon
<1>2. \A y \in T : ~(y < x)
  BY <1>1, Zenon DEF OpToRel
<1> QED
  BY <1>2

(* No sound plan fails the executor's checks: a cycle of dependencies      *)
(* would have an earliest step, and its dependency in the cycle would be   *)
(* earlier still.                                                          *)
LEMMA SoundIsValid ==
  ASSUME NEW p \in Seq(Step), Promise!Sound(p)
  PROVE  Valid(p)
<1>1. /\ p # <<>>
      /\ \A i, j \in DOMAIN p : p[i].id = p[j].id => i = j
      /\ \A i \in DOMAIN p : \A d \in p[i].deps :
           \E j \in DOMAIN p : j < i /\ p[j].id = d
  BY DEF Promise!Sound
<1>2. ~HasDuplicateIds(p)
  BY <1>1 DEF HasDuplicateIds
<1>3. ~HasUnknownDependency(p)
  BY <1>1 DEF HasUnknownDependency, Ids
<1>4. ~HasLateDependency(p)
  <2> SUFFICES ASSUME NEW i \in DOMAIN p, NEW d \in p[i].deps,
                      PositionOf(p, d) >= PositionOf(p, p[i].id)
               PROVE  FALSE
    BY DEF HasLateDependency
  <2>1. PICK j \in DOMAIN p : j < i /\ p[j].id = d
    BY <1>1
  <2>2. PositionOf(p, d) = j /\ PositionOf(p, p[i].id) = i
    BY <1>2, <2>1, UniquePosition
  <2>3. i \in Nat /\ j \in Nat
    BY LenProperties
  <2> QED
    BY <2>1, <2>2, <2>3
<1>5. ~HasDependencyCycle(p)
  <2> SUFFICES ASSUME NEW S \in (SUBSET Ids(p)) \ {{}},
                      \A id \in S : p[PositionOf(p, id)].deps \cap S # {}
               PROVE  FALSE
    BY DEF HasDependencyCycle
  <2> DEFINE T == {i \in DOMAIN p : p[i].id \in S}
  <2>1. T \in SUBSET Nat /\ T # {}
    BY LenProperties DEF Ids
  <2>2. PICK i \in T : \A k \in T : i <= k
    BY <2>1, LeastElement
  <2>3. PositionOf(p, p[i].id) = i
    BY <1>2, UniquePosition
  <2>4. PICK d \in p[i].deps : d \in S
    BY <2>3
  <2>5. PICK j \in DOMAIN p : j < i /\ p[j].id = d
    BY <1>1
  <2>6. j \in T /\ i \in Nat /\ j \in Nat
    BY <2>1, <2>4, <2>5
  <2> QED
    BY <2>2, <2>5, <2>6
<1> QED
  BY <1>1, <1>2, <1>3, <1>4, <1>5 DEF Valid

(* The executor's validation and the plan run's notion of a sound plan are *)
(* the same: four checks, one of them a graph search, against one sentence *)
(* about ids and earlier steps.                                            *)
THEOREM ValidationIsSoundness ==
  \A p \in Seq(Step) : Valid(p) <=> Promise!Sound(p)
  BY ValidIsSound, SoundIsValid

-----------------------------------------------------------------------------
(* The inductive invariant: the checked invariants, the shape, and that a  *)
(* step not reached is still pending.                                      *)

Untouched ==
  phase # "finished" =>
    \A i \in DOMAIN plan : i > Len(executions) => stepStatus[i] = "pending"

Inv ==
  /\ TypeOK
  /\ Shape
  /\ Untouched
  /\ RecordsAgree
  /\ CallsAreReady
  /\ AllOrNothing
  /\ FailuresExplained
  /\ RetriesExhausted

(* The inductive invariant holds of a new executor.                        *)
LEMMA InvInit == Init => Inv
<1> SUFFICES ASSUME Init PROVE Inv
  OBVIOUS
<1>1. executions = <<>> /\ DOMAIN executions = {} /\ plan = <<>> /\ outputs = {} /\ phase = "idle"
  BY DEF Init
<1>2. TypeOK /\ Shape
  BY TypeInit
<1>3. Untouched /\ CallsAreReady /\ AllOrNothing /\ FailuresExplained /\ RetriesExhausted
  BY <1>1 DEF Untouched, CallsAreReady, AllOrNothing, FailuresExplained, RetriesExhausted
<1>4. RecordsAgree
  BY <1>1 DEF RecordsAgree
<1> QED
  BY <1>2, <1>3, <1>4 DEF Inv

(* Before the first step and after the last one nothing is executed.       *)
QuietStep ==
  \/ \E p \in Plans : Submit(p)
  \/ Reject \/ Accept \/ Finalize
  \/ UNCHANGED executorVars

(* A step of the plan stays pending until the executor reaches it.         *)
LEMMA UntouchedNext ==
  ASSUME Inv, [Next]_executorVars
  PROVE  Untouched'
<1> USE DEF Inv, Untouched
<1>1. ASSUME NEW p \in Plans, Submit(p)
      PROVE  Untouched'
  BY <1>1 DEF Submit
<1>2. CASE Reject \/ Finalize
  BY <1>2 DEF Reject, Finalize
<1>3. CASE Accept
  BY <1>3 DEF Accept
<1>4. CASE SkipBlocked \/ FailUnregistered
  <2>1. Upcoming \in DOMAIN plan /\ phase = "stepping"
    BY <1>4 DEF SkipBlocked, FailUnregistered
  <2>2. stepStatus' = [stepStatus EXCEPT ![Len(executions) + 1] = stepStatus'[Len(executions) + 1]]
        /\ Len(executions') = Len(executions) + 1 /\ UNCHANGED <<plan, phase>>
    <3>1. PICK end \in ToolStatus, fault \in Faults : EndUncalled(end, fault)
      BY <1>4 DEF SkipBlocked, FailUnregistered, ToolStatus, Faults
    <3>2. stepStatus' = [stepStatus EXCEPT ![Len(executions) + 1] = end]
      BY <3>1 DEF EndUncalled, Upcoming
    <3> QED
      BY <2>1, <3>1, <3>2, UncalledStep
  <2> QED
    BY <2>1, <2>2, PlanType DEF TypeOK
<1>5. CASE Call
  BY <1>5, CallStep, PlanType
<1>6. CASE Retry
  BY <1>6, RetryStep, PlanType
<1>7. CASE GiveUp \/ BreakContract \/ Succeed \/ ReportSkip \/ ReportFailure
  <2>1. phase = "calling"
    BY <1>7, CallEnds
  <2>2. PICK end \in {"success", "failed", "skipped"}, fault \in Faults : EndCall(end, fault)
    BY <1>7, CallEnds
  <2> end \in ToolStatus
    BY DEF ToolStatus
  <2>3. Len(executions') = Len(executions) /\ plan' = plan
    BY <2>1, <2>2, EndCallStep
  <2>4. stepStatus' = [stepStatus EXCEPT ![Len(executions)] = end]
    BY <2>2 DEF EndCall, Current
  <2> QED
    BY <2>1, <2>3, <2>4, PlanType DEF TypeOK
<1>8. CASE UNCHANGED executorVars
  BY <1>8 DEF executorVars
<1> QED
  BY <1>1, <1>2, <1>3, <1>4, <1>5, <1>6, <1>7, <1>8 DEF Next, Execute

(* A quiet step leaves executions, outputs and results alone and loses no  *)
(* error; the plan it leaves alone too once anything was executed.         *)
LEMMA QuietKeeps ==
  ASSUME Inv, QuietStep
  PROVE  /\ executions' = executions
         /\ outputs' = outputs
         /\ results' = results
         /\ errors \subseteq errors'
         /\ executions # <<>> => plan' = plan /\ phase # "idle" /\ phase # "submitted"
<1> USE DEF Inv, Shape
<1>1. ASSUME NEW p \in Plans, Submit(p)
      PROVE  executions = <<>> /\ UNCHANGED <<executions, outputs, results, errors>>
  BY <1>1 DEF Submit
<1>2. CASE Reject \/ Accept
  BY <1>2 DEF Reject, Accept
<1>3. CASE Finalize
  BY <1>3 DEF Finalize
<1>4. CASE UNCHANGED executorVars
  BY <1>4 DEF executorVars
<1> QED
  BY <1>1, <1>2, <1>3, <1>4 DEF QuietStep

(* Plan, executions, outputs and results are kept in agreement by every    *)
(* step.                                                                   *)
LEMMA RecordsAgreeNext ==
  ASSUME Inv, [Next]_executorVars
  PROVE  RecordsAgree'
<1> USE DEF Inv
<1>1. CASE QuietStep
  <2>1. executions' = executions /\ outputs' = outputs /\ results' = results
    BY <1>1, QuietKeeps
  <2>2. executions = <<>> \/ (stepStatus' = stepStatus /\ plan' = plan)
    BY <1>1 DEF QuietStep, Shape, Submit, Reject, Accept, Finalize, executorVars
  <2>3. CASE executions = <<>>
    <3>1. DOMAIN executions = {} /\ outputs = {}
      BY <2>3 DEF RecordsAgree
    <3> QED
      BY <2>1, <3>1 DEF RecordsAgree
  <2>4. CASE stepStatus' = stepStatus /\ plan' = plan
    BY <2>1, <2>4 DEF RecordsAgree, Ended
  <2> QED
    BY <2>2, <2>3, <2>4
<1>2. CASE SkipBlocked \/ FailUnregistered
  <2>1. Upcoming \in DOMAIN plan /\ phase = "stepping"
    BY <1>2 DEF SkipBlocked, FailUnregistered
  <2>2. PICK end \in {"skipped", "failed"}, fault \in Faults : EndUncalled(end, fault)
    BY <1>2 DEF SkipBlocked, FailUnregistered, Faults
  <2> end \in ToolStatus
    BY DEF ToolStatus
  <2>3. /\ DOMAIN executions' = 1..(Len(executions) + 1)
        /\ \A i \in 1..Len(executions) : executions'[i] = executions[i]
        /\ executions'[Len(executions) + 1] =
              [status |-> end, attempts |-> 0, error |-> fault, given |-> {}]
        /\ stepStatus'[Len(executions) + 1] = end
        /\ \A i \in 1..Len(executions) : stepStatus'[i] = stepStatus[i]
        /\ UNCHANGED <<plan, outputs, results>>
    BY <2>1, <2>2, UncalledStep
  <2>4. \A i \in DOMAIN executions' :
          stepStatus'[i] = IF executions'[i].status # "running"
                          THEN executions'[i].status ELSE "pending"
    BY <2>3, PlanType DEF RecordsAgree, Ended
  <2>5. {k \in DOMAIN executions' : executions'[k].status = "success"} =
        {k \in DOMAIN executions : executions[k].status = "success"}
    BY <2>3, PlanType
  <2> QED
    BY <2>3, <2>4, <2>5, PlanType DEF RecordsAgree, Ended
<1>3. CASE Call
  <2>1. /\ phase = "stepping"
        /\ Len(executions) + 1 \in DOMAIN plan
        /\ DOMAIN executions' = 1..(Len(executions) + 1)
        /\ \A i \in 1..Len(executions) : executions'[i] = executions[i]
        /\ executions'[Len(executions) + 1].status = "running"
        /\ UNCHANGED <<plan, stepStatus, outputs, results>>
    BY <1>3, CallStep
  <2>2. stepStatus[Len(executions) + 1] = "pending"
    BY <2>1, PlanType DEF Untouched
  <2>3. {k \in DOMAIN executions' : executions'[k].status = "success"} =
        {k \in DOMAIN executions : executions[k].status = "success"}
    BY <2>1, PlanType
  <2> QED
    BY <2>1, <2>2, <2>3, PlanType DEF RecordsAgree, Ended
<1>4. CASE Retry
  <2>1. /\ DOMAIN executions' = DOMAIN executions
        /\ \A i \in DOMAIN executions : executions'[i].status = executions[i].status
        /\ UNCHANGED <<plan, stepStatus, outputs, results>>
    BY <1>4, RetryStep, PlanType
  <2>2. {k \in DOMAIN executions' : executions'[k].status = "success"} =
        {k \in DOMAIN executions : executions[k].status = "success"}
    BY <2>1
  <2> QED
    BY <2>1, <2>2 DEF RecordsAgree, Ended
<1>5. CASE GiveUp \/ BreakContract \/ Succeed \/ ReportSkip \/ ReportFailure
  <2> DEFINE n == Len(executions)
  <2>1. phase = "calling"
    BY <1>5, CallEnds
  <2>2. PICK end \in {"success", "failed", "skipped"}, fault \in Faults :
          /\ EndCall(end, fault)
          /\ outputs' = IF end = "success" THEN outputs \cup {plan[n].id} ELSE outputs
          /\ end = "success" => results' = results \cup {n}
          /\ results \subseteq results'
    BY <1>5, CallEnds
  <2> end \in ToolStatus
    BY DEF ToolStatus
  <2>3. /\ DOMAIN executions' = 1..n
        /\ \A i \in 1..(n - 1) : executions'[i] = executions[i]
        /\ executions'[n].status = end
        /\ stepStatus'[n] = end
        /\ \A i \in 1..(n - 1) : stepStatus'[i] = stepStatus[i]
        /\ plan' = plan
    BY <2>1, <2>2, EndCallStep
  <2>4. n \in DOMAIN executions /\ executions[n].status = "running"
    BY <2>1, CallInProgress DEF Shape
  <2>5. \A i \in DOMAIN executions' : i # n => i \in 1..(n - 1) /\ i \in DOMAIN executions
    BY <2>3, PlanType
  <2>6. \A i \in DOMAIN executions' :
          stepStatus'[i] = IF executions'[i].status # "running"
                          THEN executions'[i].status ELSE "pending"
    BY <2>3, <2>5, PlanType DEF RecordsAgree, Ended
  <2>7. {k \in DOMAIN executions' : executions'[k].status = "success"} =
        {k \in DOMAIN executions : executions[k].status = "success"}
          \cup (IF end = "success" THEN {n} ELSE {})
    BY <2>3, <2>4, <2>5, PlanType
  <2>8. \A i \in DOMAIN executions' : executions'[i].status = "success" => i \in results'
    BY <2>2, <2>3, <2>5 DEF RecordsAgree
  <2>9. outputs' = {plan'[i].id : i \in {k \in DOMAIN executions' :
                                        executions'[k].status = "success"}}
    <3> DEFINE wins == {k \in DOMAIN executions : executions[k].status = "success"}
    <3>1. outputs = {plan[i].id : i \in wins}
      BY DEF RecordsAgree
    <3>2. CASE end = "success"
      <4>1. outputs' = outputs \cup {plan[n].id}
        BY <2>2, <3>2
      <4> HIDE DEF wins, n
      <4> QED
        BY <2>3, <2>7, <3>1, <3>2, <4>1 DEF wins
    <3>3. CASE end # "success"
      BY <2>2, <2>3, <2>7, <3>1, <3>3
    <3> QED
      BY <3>2, <3>3
  <2> QED
    BY <2>6, <2>8, <2>9 DEF RecordsAgree, Ended
<1> QED
  BY <1>1, <1>2, <1>3, <1>4, <1>5 DEF Next, Execute, QuietStep

(* A step about to be called has seen all its dependencies succeed.        *)
LEMMA ReadyToCall ==
  ASSUME Inv, phase = "stepping", Upcoming \in DOMAIN plan, ~DependencyFailed(Upcoming)
  PROVE  /\ \A d \in plan[Upcoming].deps :
              \E j \in DOMAIN executions : plan[j].id = d /\ executions[j].status = "success"
         /\ plan[Upcoming].deps \subseteq outputs
<1>1. Promise!Sound(plan)
  BY ValidIsSound, PlanType DEF Inv, Shape
<1>2. ASSUME NEW d \in plan[Upcoming].deps
      PROVE  \E j \in DOMAIN executions : plan[j].id = d /\ executions[j].status = "success"
  <2>1. PICK j \in DOMAIN plan : j < Upcoming /\ plan[j].id = d
    BY <1>1 DEF Promise!Sound
  <2>2. j \in DOMAIN executions
    BY <2>1, PlanType DEF Inv, Upcoming
  <2>3. executions[j] \in Execution
    BY <2>2, PlanType, ElementOfSeq DEF Inv
  <2>4. executions[j].status \in {"success", "failed", "skipped"}
    BY <2>2, <2>3 DEF Inv, Shape, Execution, ToolStatus
  <2>5. executions[j].status \notin {"failed", "skipped"}
    BY <1>2, <2>1, <2>2 DEF DependencyFailed
  <2> QED
    BY <2>1, <2>2, <2>4, <2>5
<1>3. plan[Upcoming].deps \subseteq outputs
  BY <1>2 DEF Inv, RecordsAgree
<1> QED
  BY <1>2, <1>3

(* A call, and a call again, is made only for a step whose dependencies    *)
(* succeeded.                                                              *)
LEMMA CallsAreReadyNext ==
  ASSUME Inv, [Next]_executorVars
  PROVE  CallsAreReady'
<1> USE DEF Inv
<1>1. CASE QuietStep
  <2>1. executions' = executions /\ (executions # <<>> => plan' = plan)
    BY <1>1, QuietKeeps
  <2>2. CASE executions = <<>>
    BY <2>1, <2>2 DEF CallsAreReady
  <2>3. CASE plan' = plan
    BY <2>1, <2>3 DEF CallsAreReady
  <2> QED
    BY <2>1, <2>2, <2>3
<1>2. CASE SkipBlocked \/ FailUnregistered
  <2>1. Upcoming \in DOMAIN plan /\ phase = "stepping"
    BY <1>2 DEF SkipBlocked, FailUnregistered
  <2>2. PICK end \in {"skipped", "failed"}, fault \in Faults : EndUncalled(end, fault)
    BY <1>2 DEF SkipBlocked, FailUnregistered, Faults
  <2> end \in ToolStatus
    BY DEF ToolStatus
  <2>3. /\ DOMAIN executions' = 1..(Len(executions) + 1)
        /\ \A i \in 1..Len(executions) : executions'[i] = executions[i]
        /\ executions'[Len(executions) + 1] =
              [status |-> end, attempts |-> 0, error |-> fault, given |-> {}]
        /\ plan' = plan
    BY <2>1, <2>2, UncalledStep
  <2> QED
    BY <2>3, PlanType DEF CallsAreReady
<1>3. CASE Call
  <2>1. /\ phase = "stepping"
        /\ Upcoming \in DOMAIN plan
        /\ ~DependencyFailed(Upcoming)
    BY <1>3 DEF Call, StepContext
  <2>2. /\ DOMAIN executions' = 1..(Len(executions) + 1)
        /\ \A i \in 1..Len(executions) : executions'[i] = executions[i]
        /\ executions'[Len(executions) + 1].given = plan[Len(executions) + 1].deps \cap outputs
        /\ plan' = plan
    BY <1>3, CallStep
  <2>3. /\ executions'[Len(executions) + 1].given = plan[Len(executions) + 1].deps
        /\ \A d \in plan[Len(executions) + 1].deps :
             \E j \in 1..Len(executions) : plan[j].id = d /\ executions[j].status = "success"
    BY <2>1, <2>2, ReadyToCall, PlanType DEF Upcoming
  <2> QED
    BY <2>2, <2>3, PlanType DEF CallsAreReady
<1>4. ASSUME /\ Len(executions) > 0
             /\ DOMAIN executions' = 1..Len(executions)
             /\ \A i \in 1..(Len(executions) - 1) : executions'[i] = executions[i]
             /\ executions'[Len(executions)].given = executions[Len(executions)].given
             /\ executions[Len(executions)].attempts > 0
             /\ plan' = plan
      PROVE  CallsAreReady'
  BY <1>4, PlanType DEF CallsAreReady
<1>5. CASE Retry
  <2>1. phase = "calling"
    BY <1>5, RetryStep
  <2> QED
    BY <1>4, <1>5, <2>1, RetryStep, CallInProgress DEF Shape
<1>6. CASE GiveUp \/ BreakContract \/ Succeed \/ ReportSkip \/ ReportFailure
  <2>1. phase = "calling"
    BY <1>6, CallEnds
  <2>2. PICK end \in {"success", "failed", "skipped"}, fault \in Faults : EndCall(end, fault)
    BY <1>6, CallEnds
  <2> end \in ToolStatus
    BY DEF ToolStatus
  <2> QED
    BY <1>4, <2>1, <2>2, EndCallStep, CallInProgress DEF Shape
<1> QED
  BY <1>1, <1>2, <1>3, <1>5, <1>6 DEF Next, Execute, QuietStep

(* A malformed plan stays unexecuted, a sound one is executed in full.     *)
LEMMA AllOrNothingNext ==
  ASSUME Inv, [Next]_executorVars
  PROVE  AllOrNothing'
<1> USE DEF Inv
<1>1. plan' \in Seq(Step)
  BY SMTT(20), TypeNext, PlansAssumption DEF TypeOK
<1>2. Shape'
  BY ShapeNext
<1>3. ASSUME phase' \in {"stepping", "calling"}
      PROVE  AllOrNothing'
  BY <1>1, <1>2, <1>3, ValidIsSound DEF Shape, AllOrNothing
<1>4. CASE \E p \in Plans : Submit(p)
  BY <1>4 DEF Submit, Shape, AllOrNothing
<1>5. CASE Reject
  <2>1. executions' = <<>> /\ status' = "failed" /\ plan' = plan /\ ~Valid(plan)
    BY <1>5 DEF Reject, Shape
  <2> QED
    BY <2>1, SoundIsValid, PlanType DEF AllOrNothing
<1>6. CASE Finalize
  <2>1. phase = "stepping" /\ Upcoming \notin DOMAIN plan /\ UNCHANGED <<plan, executions>>
    BY <1>6 DEF Finalize
  <2>2. Promise!Sound(plan)
    BY <2>1, ValidIsSound, PlanType DEF Shape
  <2>3. Len(executions) <= Len(plan)
    BY DEF Shape
  <2>4. Len(executions) = Len(plan)
    <3>1. DOMAIN plan = 1..Len(plan) /\ Len(plan) \in Nat /\ Len(executions) \in Nat
      BY PlanType
    <3>2. Len(executions) + 1 \notin 1..Len(plan)
      BY <2>1, <3>1 DEF Upcoming
    <3> HIDE DEF Inv
    <3> QED
      BY <2>3, <3>1, <3>2
  <2>5. plan' = plan /\ executions' = executions
    BY <2>1
  <2>6. Promise!Sound(plan)' /\ Len(executions') = Len(plan')
    BY <2>2, <2>4, <2>5
  <2> QED
    BY <2>6 DEF AllOrNothing
<1>7. CASE UNCHANGED executorVars
  BY <1>7 DEF executorVars, AllOrNothing
<1>8. CASE Accept \/ SkipBlocked \/ FailUnregistered \/ Call \/ Retry
  <2>1. phase' \in {"stepping", "calling"}
    BY <1>8 DEF Accept, SkipBlocked, FailUnregistered, EndUncalled, Call, StepContext, Retry
  <2> QED
    BY <1>3, <2>1
<1>9. CASE GiveUp \/ BreakContract \/ Succeed \/ ReportSkip \/ ReportFailure
  <2>1. phase' = "stepping"
    BY <1>9 DEF GiveUp, BreakContract, Succeed, ReportSkip, ReportFailure, EndCall
  <2> QED
    BY <1>3, <2>1
<1> QED
  BY <1>4, <1>5, <1>6, <1>7, <1>8, <1>9 DEF Next, Execute

(* A step that ends without success or result leaves an error behind.      *)
LEMMA FailuresExplainedNext ==
  ASSUME Inv, [Next]_executorVars
  PROVE  FailuresExplained'
<1> USE DEF Inv
<1>1. CASE QuietStep
  <2>1. executions' = executions /\ results' = results /\ errors \subseteq errors'
    BY <1>1, QuietKeeps
  <2> QED
    BY <2>1 DEF FailuresExplained
<1>2. CASE SkipBlocked \/ FailUnregistered
  <2>1. Upcoming \in DOMAIN plan /\ phase = "stepping"
    BY <1>2 DEF SkipBlocked, FailUnregistered
  <2>2. PICK end \in {"skipped", "failed"}, fault \in Faults : EndUncalled(end, fault)
    BY <1>2 DEF SkipBlocked, FailUnregistered, Faults
  <2> end \in ToolStatus
    BY DEF ToolStatus
  <2>3. /\ DOMAIN executions' = 1..(Len(executions) + 1)
        /\ \A i \in 1..Len(executions) : executions'[i] = executions[i]
        /\ errors' = errors \cup {Len(executions) + 1}
        /\ UNCHANGED results
    BY <2>1, <2>2, UncalledStep
  <2> QED
    BY <2>3, PlanType DEF FailuresExplained
<1>3. CASE Call
  <2>1. /\ DOMAIN executions' = 1..(Len(executions) + 1)
        /\ \A i \in 1..Len(executions) : executions'[i] = executions[i]
        /\ executions'[Len(executions) + 1].status = "running"
        /\ UNCHANGED <<results, errors>>
    BY <1>3, CallStep
  <2> QED
    BY <2>1, PlanType DEF FailuresExplained
<1>4. CASE Retry
  <2>1. /\ DOMAIN executions' = DOMAIN executions
        /\ \A i \in DOMAIN executions : executions'[i].status = executions[i].status
        /\ UNCHANGED <<results, errors>>
    BY <1>4, RetryStep, PlanType
  <2> QED
    BY <2>1 DEF FailuresExplained
<1>5. CASE GiveUp \/ BreakContract \/ Succeed \/ ReportSkip \/ ReportFailure
  <2> DEFINE n == Len(executions)
  <2>1. phase = "calling"
    BY <1>5, CallEnds
  <2>2. PICK end \in {"success", "failed", "skipped"}, fault \in Faults :
          /\ EndCall(end, fault)
          /\ end = "success" \/ n \in results' \/ n \in errors'
          /\ results \subseteq results'
          /\ errors \subseteq errors'
    BY <1>5, CallEnds
  <2> end \in ToolStatus
    BY DEF ToolStatus
  <2>3. /\ DOMAIN executions' = 1..n
        /\ \A i \in 1..(n - 1) : executions'[i] = executions[i]
        /\ executions'[n].status = end
    BY <2>1, <2>2, EndCallStep
  <2>4. \A i \in DOMAIN executions' : i # n => i \in 1..(n - 1) /\ i \in DOMAIN executions
    BY <2>3, PlanType
  <2> QED
    BY <2>2, <2>3, <2>4 DEF FailuresExplained
<1> QED
  BY <1>1, <1>2, <1>3, <1>4, <1>5 DEF Next, Execute, QuietStep

(* No call is made beyond the budget, none is given up early for a         *)
(* transient fault.                                                        *)
LEMMA RetriesExhaustedNext ==
  ASSUME Inv, [Next]_executorVars
  PROVE  RetriesExhausted'
<1> USE DEF Inv
<1>1. executions' \in Seq(Execution) /\ DOMAIN executions' = 1..Len(executions')
  BY TypeNext, LenProperties DEF TypeOK
<1>2. \A i \in DOMAIN executions' : executions'[i].attempts \in 0..MaxAttempts
  <2> SUFFICES ASSUME NEW i \in DOMAIN executions'
               PROVE  executions'[i].attempts \in 0..MaxAttempts
    OBVIOUS
  <2>1. executions'[i] \in Execution
    BY <1>1, ElementOfSeq
  <2> QED
    BY <2>1 DEF Execution
<1>3. \A i \in DOMAIN executions' : executions'[i].attempts <= MaxAttempts
  BY <1>2, AttemptsAssumption
<1> DEFINE Exhausted(i) ==
      executions[i].status = "failed" /\ executions[i].error = "transient"
        /\ i \notin results => executions[i].attempts = MaxAttempts
<1> SUFFICES \A i \in DOMAIN executions' : Exhausted(i)'
  BY <1>3 DEF RetriesExhausted
<1>4. \A i \in DOMAIN executions : Exhausted(i)
  BY DEF RetriesExhausted
<1>5. CASE QuietStep
  <2>1. executions' = executions /\ results' = results
    BY <1>5, QuietKeeps
  <2> QED
    BY <1>4, <2>1
<1>6. CASE SkipBlocked \/ FailUnregistered
  <2>1. Upcoming \in DOMAIN plan /\ phase = "stepping"
    BY <1>6 DEF SkipBlocked, FailUnregistered
  <2>2. PICK end \in {"skipped", "failed"}, fault \in Faults \ {"transient"} :
          EndUncalled(end, fault)
    BY <1>6 DEF SkipBlocked, FailUnregistered, Faults
  <2> end \in ToolStatus
    BY DEF ToolStatus
  <2>3. /\ DOMAIN executions' = 1..(Len(executions) + 1)
        /\ \A i \in 1..Len(executions) : executions'[i] = executions[i]
        /\ executions'[Len(executions) + 1] =
              [status |-> end, attempts |-> 0, error |-> fault, given |-> {}]
        /\ UNCHANGED results
    BY <2>1, <2>2, UncalledStep
  <2> QED
    BY <1>4, <2>2, <2>3, PlanType
<1>7. CASE Call
  <2>1. /\ DOMAIN executions' = 1..(Len(executions) + 1)
        /\ \A i \in 1..Len(executions) : executions'[i] = executions[i]
        /\ executions'[Len(executions) + 1].status = "running"
        /\ UNCHANGED results
    BY <1>7, CallStep
  <2> QED
    BY <1>4, <2>1, PlanType
<1>8. CASE Retry
  <2>1. phase = "calling"
    BY <1>8, RetryStep
  <2>2. executions[Len(executions)].status = "running"
    BY <2>1, CallInProgress DEF Shape
  <2>3. /\ DOMAIN executions' = 1..Len(executions)
        /\ \A i \in 1..(Len(executions) - 1) : executions'[i] = executions[i]
        /\ executions'[Len(executions)].status = "running"
        /\ UNCHANGED results
    BY <1>8, <2>2, RetryStep
  <2> QED
    BY <1>4, <2>3, PlanType
<1>9. CASE GiveUp \/ BreakContract \/ Succeed \/ ReportSkip \/ ReportFailure
  <2> DEFINE n == Len(executions)
  <2>1. phase = "calling"
    BY <1>9, CallEnds
  <2>2. PICK end \in {"success", "failed", "skipped"}, fault \in Faults :
          /\ EndCall(end, fault)
          /\ end # "failed" \/ n \in results' \/
               (fault = "transient" => executions[n].attempts >= MaxAttempts)
          /\ results \subseteq results'
    BY <1>9, CallEnds
  <2> end \in ToolStatus
    BY DEF ToolStatus
  <2>3. /\ DOMAIN executions' = 1..n
        /\ \A i \in 1..(n - 1) : executions'[i] = executions[i]
        /\ executions'[n].status = end
        /\ executions'[n].error = fault
        /\ executions'[n].attempts = executions[n].attempts
    BY <2>1, <2>2, EndCallStep
  <2>4. Exhausted(n)'
    <3>1. executions[n].attempts \in 0..MaxAttempts
      BY <2>1, CallInProgress DEF Execution
    <3> QED
      BY <2>2, <2>3, <3>1, AttemptsAssumption
  <2>5. \A i \in DOMAIN executions' : i # n => i \in 1..(n - 1) /\ i \in DOMAIN executions
    BY <2>3, PlanType
  <2>6. \A i \in DOMAIN executions' : i # n => Exhausted(i)'
    BY <1>4, <2>2, <2>3, <2>5
  <2>7. n' = n
    BY <2>1, <2>2, EndCallStep
  <2> HIDE DEF n
  <2> QED
    BY <2>4, <2>6, <2>7
<1> QED
  BY <1>5, <1>6, <1>7, <1>8, <1>9 DEF Next, Execute, QuietStep

(* Inv is inductive.                                                       *)
LEMMA InvNext ==
  ASSUME Inv, [Next]_executorVars
  PROVE  Inv'
<1>1. TypeOK' /\ Shape'
  BY TypeNext, ShapeNext DEF Inv
<1> QED
  BY <1>1, UntouchedNext, RecordsAgreeNext, CallsAreReadyNext, AllOrNothingNext,
     FailuresExplainedNext, RetriesExhaustedNext DEF Inv

(* The inductive invariant is one, of every execution.                     *)
THEOREM Inductive == Spec => []Inv
<1>1. Inv /\ [Next]_executorVars => Inv'
  BY InvNext
<1> QED
  BY InvInit, <1>1, PTL DEF Spec

(* A tool is only called when every dependency of its step has succeeded,  *)
(* and it is given exactly their outputs, whatever the plan and the        *)
(* outcomes of the earlier calls (_execute_plan, _build_step_context).     *)
THEOREM ReadyCalls == Spec => []CallsAreReady
<1>1. Inv => CallsAreReady
  BY DEF Inv
<1> QED
  BY Inductive, <1>1, PTL

(* A malformed plan runs nothing, and a sound one is executed to its last  *)
(* step, whatever fails on the way (_validate_execution_plan).             *)
THEOREM NoPartialPlan == Spec => []AllOrNothing
<1>1. Inv => AllOrNothing
  BY DEF Inv
<1> QED
  BY Inductive, <1>1, PTL

(* Step statuses, executions, outputs and results never contradict each    *)
(* other (_execute_tool writes them at different places).                  *)
THEOREM ConsistentRecords == Spec => []RecordsAgree
<1>1. Inv => RecordsAgree
  BY DEF Inv
<1> QED
  BY Inductive, <1>1, PTL

(* No step fails or is skipped without a result or an error to say why.    *)
THEOREM NoSilentFailure == Spec => []FailuresExplained
<1>1. Inv => FailuresExplained
  BY DEF Inv
<1> QED
  BY Inductive, <1>1, PTL

(* A step fails for a transient exception only after MaxAttempts calls,    *)
(* and no tool is called more often, for every budget (RetryPolicy).       *)
THEOREM WholeBudget == Spec => []RetriesExhausted
<1>1. Inv => RetriesExhausted
  BY DEF Inv
<1> QED
  BY Inductive, <1>1, PTL

-----------------------------------------------------------------------------
(***************************************************************************)
(* The executor implements PlanRun: under the mapping of ToolExecutor      *)
(* (Outcome and RunVerdict), a submission, a refusal and a final status    *)
(* are the plan run's, the end of each step settles it, and every other    *)
(* step of the executor (acceptance, a call, a further attempt) is one the *)
(* plan run does not see.                                                  *)
(***************************************************************************)
Settled == {"success", "failed", "skipped"}

(* Step i is settled in the mapping exactly when its execution ended.      *)
LEMMA OutcomeOf ==
  ASSUME Inv, NEW i \in DOMAIN plan
  PROVE  /\ Ended(i) => Outcome[i] = executions[i].status /\ Outcome[i] \in Settled
         /\ ~Ended(i) => Outcome[i] = "waiting"
<1>1. ASSUME Ended(i)
      PROVE  executions[i].status \in Settled
  <2>1. i \in DOMAIN executions /\ executions[i].status # "running"
    BY <1>1 DEF Ended
  <2>2. executions[i] \in Execution
    BY <2>1, PlanType, ElementOfSeq DEF Inv
  <2>3. executions[i].status # "pending"
    BY <2>1 DEF Inv, Shape
  <2> QED
    BY <2>1, <2>2, <2>3 DEF Execution, ToolStatus, Settled
<1> QED
  BY <1>1 DEF Outcome

(* The steps before the one being executed have all ended.                 *)
LEMMA EarlierEnded ==
  ASSUME Inv, phase \in {"stepping", "calling"}, NEW n \in DOMAIN plan,
         n = IF phase = "stepping" THEN Len(executions) + 1 ELSE Len(executions)
  PROVE  /\ ~Ended(n)
         /\ \A j \in DOMAIN plan : j < n => Ended(j)
         /\ \A j \in DOMAIN plan : j > n => ~Ended(j)
  BY PlanType DEF Inv, Shape, Ended

(* A step that ends as its dependencies allow settles in the plan run.     *)
LEMMA SettleStep ==
  ASSUME Inv, Inv', phase \in {"stepping", "calling"}, phase' = "stepping",
         NEW n \in DOMAIN plan,
         n = (IF phase = "stepping" THEN Len(executions) + 1 ELSE Len(executions)),
         plan' = plan,
         DOMAIN executions' = 1..n,
         \A i \in 1..(n - 1) : executions'[i] = executions[i],
         executions'[n].status \in Settled,
         \/ executions'[n].status = "skipped"
         \/ \A d \in plan[n].deps : \E j \in 1..(n - 1) :
               plan[j].id = d /\ executions[j].status = "success"
  PROVE  Promise!Settle(n)
<1> DEFINE o == executions'[n].status
<1>1. Promise!Sound(plan)
  BY ValidIsSound, PlanType DEF Inv, Shape
<1>2. RunVerdict = "open" /\ RunVerdict' = "open"
  BY DEF RunVerdict
<1>3. /\ ~Ended(n)
      /\ \A j \in DOMAIN plan : j < n => Ended(j)
      /\ \A j \in DOMAIN plan : j > n => ~Ended(j)
  BY EarlierEnded
<1>4. n \in Nat /\ n >= 1 /\ \A j \in DOMAIN plan : j \in Nat
  BY PlanType DEF Inv
<1>5. ASSUME NEW j \in Promise!Needs(plan, n)
      PROVE  /\ j \in DOMAIN plan /\ j \in 1..(n - 1)
             /\ Outcome[j] \in Promise!Settled
             /\ Outcome[j] = executions[j].status
             /\ o # "skipped" => Outcome[j] = "success"
  <2>1. j \in DOMAIN plan /\ plan[j].id \in plan[n].deps
    BY DEF Promise!Needs
  <2>2. PICK k \in DOMAIN plan : k < n /\ plan[k].id = plan[j].id
    BY <1>1, <2>1 DEF Promise!Sound
  <2>3. j = k
    BY <1>1, <2>1, <2>2 DEF Promise!Sound
  <2>4. j \in 1..(n - 1)
    BY <1>4, <2>1, <2>2, <2>3, PlanType DEF Inv
  <2>5. Ended(j)
    BY <1>3, <2>2, <2>3
  <2>6. Outcome[j] = executions[j].status /\ Outcome[j] \in Settled
    BY <2>1, <2>5, OutcomeOf
  <2>7. ASSUME o # "skipped"
        PROVE  Outcome[j] = "success"
    <3>1. PICK i \in 1..(n - 1) : plan[i].id = plan[j].id /\ executions[i].status = "success"
      BY <2>1, <2>7
    <3>2. i \in DOMAIN plan
      BY <1>4, PlanType DEF Inv
    <3>3. i = j
      BY <1>1, <2>1, <3>1, <3>2 DEF Promise!Sound
    <3> QED
      BY <2>6, <3>1, <3>3
  <2> QED
    BY <2>1, <2>4, <2>6, <2>7 DEF Settled, Promise!Settled
<1>6. Outcome' = [Outcome EXCEPT ![n] = o]
  <2>1. Outcome' = [i \in DOMAIN plan |-> IF Ended(i)' THEN executions'[i].status ELSE "waiting"]
    BY DEF Outcome
  <2>2. o # "running"
    BY DEF Settled
  <2>3. Ended(n)'
    BY <1>4, <2>2 DEF Ended
  <2>4. ASSUME NEW i \in DOMAIN plan, i # n
        PROVE  (IF Ended(i)' THEN executions'[i].status ELSE "waiting") = Outcome[i]
    <3>1. CASE i < n
      <4>1. i \in 1..(n - 1) /\ i \in 1..n
        BY <1>4, <2>4, <3>1, PlanType DEF Inv
      <4>2. Ended(i) /\ executions'[i] = executions[i]
        BY <1>3, <3>1, <4>1
      <4>3. Ended(i)'
        BY <4>1, <4>2 DEF Ended
      <4> QED
        BY <4>2, <4>3, OutcomeOf
    <3>2. CASE i > n
      <4>1. ~Ended(i) /\ ~Ended(i)'
        BY <1>3, <1>4, <3>2 DEF Ended
      <4> QED
        BY <4>1, OutcomeOf
    <3> QED
      BY <1>4, <2>4, <3>1, <3>2
  <2>5. Outcome = [i \in DOMAIN plan |-> Outcome[i]]
    BY DEF Outcome
  <2> QED
    BY <2>1, <2>3, <2>4, <2>5
<1>7. Outcome[n] = "waiting"
  BY <1>3, OutcomeOf
<1>8. /\ o \in Promise!Settled
      /\ (\E j \in Promise!Needs(plan, n) : Outcome[j] # "success") => o = "skipped"
  BY <1>5 DEF Settled, Promise!Settled
<1> HIDE DEF o
<1> QED
  BY <1>1, <1>2, <1>5, <1>6, <1>7, <1>8 DEF Promise!Settle

(* The executor's summary of a finished plan is the plan run's verdict.    *)
LEMMA FinalIsVerdict ==
  ASSUME Inv, phase = "stepping", Upcoming \notin DOMAIN plan
  PROVE  /\ \A i \in DOMAIN plan : Outcome[i] \in Promise!Settled
         /\ FinalStatus = Promise!Verdict(plan, Outcome)
<1>1. DOMAIN executions = DOMAIN plan /\ DOMAIN plan # {}
  <2>1. Len(executions) <= Len(plan)
    BY DEF Inv, Shape
  <2>2. DOMAIN plan = 1..Len(plan) /\ Len(plan) \in Nat /\ Len(executions) \in Nat
        /\ DOMAIN executions = 1..Len(executions)
    BY PlanType DEF Inv
  <2>3. Len(executions) + 1 \notin 1..Len(plan)
    BY SMTT(20), <2>2 DEF Upcoming
  <2>4. Len(executions) = Len(plan)
    <3>1. \A m, n \in Nat : m <= n /\ m + 1 \notin 1..n => m = n
      OBVIOUS
    <3> QED
      BY <2>1, <2>2, <2>3, <3>1
  <2>5. Len(plan) # 0
    <3>1. plan \in Seq(Step) /\ plan # <<>>
      BY PlanType DEF Inv, Shape, Valid
    <3> QED
      BY <3>1, EmptySeq
  <2> QED
    BY <2>2, <2>4, <2>5
<1>2. \A i \in DOMAIN plan : Ended(i)
  BY <1>1 DEF Inv, Shape, Ended
<1>3. \A i \in DOMAIN plan : Outcome[i] = executions[i].status /\ Outcome[i] \in Settled
  BY <1>2, OutcomeOf
<1> DEFINE statuses == {executions[i].status : i \in DOMAIN executions}
<1>4. statuses = {Outcome[i] : i \in DOMAIN plan}
  BY <1>1, <1>3
<1>5. statuses # {} /\ statuses \subseteq Settled
  BY <1>1, <1>3
<1>6. FinalStatus =
        (IF "failed" \in statuses
         THEN IF statuses \cap {"success", "skipped"} # {} THEN "partial" ELSE "failed"
         ELSE IF "skipped" \in statuses
              THEN IF "success" \in statuses THEN "partial" ELSE "failed"
              ELSE "success")
  <2> HIDE DEF statuses
  <2>1. FinalStatus =
          CASE statuses = {}               -> "failed"
            [] "failed" \in statuses       ->
                 IF statuses \cap {"success", "skipped"} # {} THEN "partial" ELSE "failed"
            [] "skipped" \in statuses /\ "failed" \notin statuses ->
                 IF "success" \in statuses THEN "partial" ELSE "failed"
            [] OTHER                       -> "success"
    BY DEF FinalStatus, statuses
  <2> QED
    BY <1>5, <2>1
<1> DEFINE all(s) == \A i \in DOMAIN plan : Outcome[i] = s
<1>7. Promise!Verdict(plan, Outcome) =
        (IF all("success") THEN "success"
         ELSE IF all("failed") \/ all("skipped") THEN "failed" ELSE "partial")
  <2>1. ~(all("success") /\ (all("failed") \/ all("skipped")))
    BY <1>1
  <2>2. Promise!Verdict(plan, Outcome) =
          CASE all("success")                   -> "success"
            [] all("failed") \/ all("skipped")  -> "failed"
            [] OTHER                            -> "partial"
    BY DEF Promise!Verdict
  <2> HIDE DEF all
  <2> QED
    BY <2>1, <2>2
<1>8. \A s : all(s) <=> statuses = {s}
  BY <1>1, <1>4
<1>9. \A i \in DOMAIN plan : Outcome[i] \in Promise!Settled
  BY <1>3 DEF Settled, Promise!Settled
<1> HIDE DEF statuses, all
<1>10. FinalStatus = Promise!Verdict(plan, Outcome)
  BY <1>5, <1>6, <1>7, <1>8 DEF Settled
<1> QED
  BY <1>9, <1>10

(* The executor starts where the plan run does.                            *)
LEMMA RefinementInit == Init => Promise!Init
<1> SUFFICES ASSUME Init PROVE Promise!Init
  OBVIOUS
<1>1. plan = <<>> /\ DOMAIN plan = {} /\ phase = "idle"
  BY DEF Init
<1>2. Outcome = <<>>
  BY <1>1 DEF Outcome
<1>3. RunVerdict = "idle"
  BY <1>1 DEF RunVerdict
<1> QED
  BY <1>1, <1>2, <1>3 DEF Promise!Init

(* Every step of the executor is a step of the plan run or invisible.      *)
LEMMA RefinementNext ==
  ASSUME Inv, Inv', [Next]_executorVars
  PROVE  [Promise!Next]_(Promise!vars)
<1>1. ASSUME NEW p \in Plans, Submit(p)
      PROVE  Promise!Submit(p)
  <2>1. phase = "idle" /\ phase' = "submitted" /\ plan' = p /\ executions' = <<>>
    BY <1>1 DEF Submit, Inv, Shape
  <2>2. Outcome' = [i \in DOMAIN p |-> "waiting"]
    BY <2>1 DEF Outcome, Ended
  <2>3. RunVerdict = "idle" /\ RunVerdict' = "open"
    BY <2>1 DEF RunVerdict
  <2> QED
    BY <2>1, <2>2, <2>3 DEF Promise!Submit
<1>2. CASE Reject
  <2>1. phase = "submitted" /\ phase' = "finished" /\ status' = "failed" /\ ~Valid(plan)
        /\ UNCHANGED <<plan, executions>>
    BY <1>2 DEF Reject
  <2>2. ~Promise!Sound(plan)
    BY <2>1, SoundIsValid, PlanType DEF Inv
  <2>3. Outcome' = Outcome
    BY <2>1 DEF Outcome, Ended
  <2>4. RunVerdict = "open" /\ RunVerdict' = "failed"
    BY <2>1 DEF RunVerdict
  <2>5. Promise!Refuse
    BY <2>1, <2>2, <2>3, <2>4 DEF Promise!Refuse
  <2> QED
    BY <2>5 DEF Promise!Next
<1>3. CASE SkipBlocked \/ FailUnregistered
  <2>1. Upcoming \in DOMAIN plan /\ phase = "stepping" /\ Upcoming = Len(executions) + 1
    BY <1>3 DEF SkipBlocked, FailUnregistered, Upcoming
  <2>2. PICK end \in {"skipped", "failed"}, fault \in Faults :
          EndUncalled(end, fault) /\ (end = "failed" => ~DependencyFailed(Upcoming))
    BY <1>3 DEF SkipBlocked, FailUnregistered, Faults
  <2> end \in ToolStatus
    BY DEF ToolStatus
  <2>3. /\ DOMAIN executions' = 1..(Len(executions) + 1)
        /\ \A i \in 1..Len(executions) : executions'[i] = executions[i]
        /\ executions'[Len(executions) + 1] =
              [status |-> end, attempts |-> 0, error |-> fault, given |-> {}]
        /\ plan' = plan /\ phase' = phase
    BY <2>1, <2>2, UncalledStep DEF Inv
  <2>4. executions'[Upcoming].status = end /\ end \in Settled
    BY <2>1, <2>3 DEF Settled
  <2>5. end = "skipped" \/ \A d \in plan[Upcoming].deps :
          \E j \in 1..(Upcoming - 1) : plan[j].id = d /\ executions[j].status = "success"
    BY <2>1, <2>2, ReadyToCall, PlanType DEF Inv
  <2>6. DOMAIN executions' = 1..Upcoming
        /\ \A i \in 1..(Upcoming - 1) : executions'[i] = executions[i]
    BY <2>1, <2>3, PlanType DEF Inv
  <2>7. Promise!Settle(Upcoming)
    BY <2>1, <2>3, <2>4, <2>5, <2>6, SettleStep
  <2> QED
    BY <2>1, <2>7 DEF Promise!Next
<1>4. CASE GiveUp \/ BreakContract \/ Succeed \/ ReportSkip \/ ReportFailure
  <2> DEFINE n == Len(executions)
  <2>1. phase = "calling" /\ n \in DOMAIN plan /\ n \in DOMAIN executions
    BY <1>4, CallEnds, CallInProgress DEF Inv
  <2>2. PICK end \in {"success", "failed", "skipped"}, fault \in Faults : EndCall(end, fault)
    BY <1>4, CallEnds DEF Inv
  <2> end \in ToolStatus
    BY DEF ToolStatus
  <2>3. /\ DOMAIN executions' = 1..n
        /\ \A i \in 1..(n - 1) : executions'[i] = executions[i]
        /\ executions'[n].status = end
        /\ plan' = plan /\ phase' = "stepping"
    BY <2>1, <2>2, EndCallStep DEF Inv
  <2>4. executions'[n].status \in Settled
    BY <2>3 DEF Settled
  <2>5. executions[n].attempts > 0
    BY <2>1 DEF Inv, Shape
  <2>6. \A d \in plan[n].deps :
          \E j \in 1..(n - 1) : plan[j].id = d /\ executions[j].status = "success"
    BY <2>1, <2>5 DEF Inv, CallsAreReady
  <2>7. Promise!Settle(n)
    <3> HIDE DEF n
    <3>1. n = (IF phase = "stepping" THEN Len(executions) + 1 ELSE Len(executions))
      BY <2>1 DEF n
    <3> QED
      BY <2>1, <2>3, <2>4, <2>6, <3>1, SettleStep
  <2> QED
    BY <2>1, <2>7 DEF Promise!Next
<1>5. CASE Finalize
  <2>1. phase = "stepping" /\ Upcoming \notin DOMAIN plan /\ phase' = "finished"
        /\ status' = FinalStatus /\ UNCHANGED <<plan, executions>>
    BY <1>5 DEF Finalize
  <2>2. Promise!Sound(plan)
    BY <2>1, ValidIsSound, PlanType DEF Inv, Shape
  <2>3. Outcome' = Outcome
    BY <2>1 DEF Outcome, Ended
  <2>4. RunVerdict = "open" /\ RunVerdict' = FinalStatus
    BY <2>1 DEF RunVerdict
  <2>5. Promise!Conclude
    BY <2>1, <2>2, <2>3, <2>4, FinalIsVerdict DEF Promise!Conclude
  <2> QED
    BY <2>5 DEF Promise!Next
<1>6. CASE Accept
  <2>1. phase = "submitted" /\ phase' = "stepping" /\ UNCHANGED <<plan, executions>>
    BY <1>6 DEF Accept
  <2>2. Outcome' = Outcome
    BY <2>1 DEF Outcome, Ended
  <2>3. RunVerdict = "open" /\ RunVerdict' = "open"
    BY <2>1 DEF RunVerdict
  <2> QED
    BY <2>1, <2>2, <2>3 DEF Promise!vars
<1>7. CASE Call
  <2>1. /\ phase = "stepping" /\ phase' = "calling"
        /\ DOMAIN executions' = 1..(Len(executions) + 1)
        /\ \A i \in 1..Len(executions) : executions'[i] = executions[i]
        /\ executions'[Len(executions) + 1].status = "running"
        /\ plan' = plan
    BY <1>7, CallStep DEF Inv
  <2>2. \A i \in DOMAIN plan : /\ Ended(i)' <=> Ended(i)
                              /\ Ended(i) => executions'[i] = executions[i]
    <3> SUFFICES ASSUME NEW i \in DOMAIN plan
                 PROVE  /\ Ended(i)' <=> Ended(i)
                        /\ Ended(i) => executions'[i] = executions[i]
      OBVIOUS
    <3>1. i \in DOMAIN executions' <=> i \in DOMAIN executions \/ i = Len(executions) + 1
      BY <2>1, PlanType DEF Inv
    <3>2. i \in DOMAIN executions => executions'[i] = executions[i] /\ i # Len(executions) + 1
      BY <2>1, PlanType DEF Inv
    <3> QED
      BY <2>1, <3>1, <3>2 DEF Ended
  <2>3. Outcome' = Outcome
    BY <2>1, <2>2 DEF Outcome, Ended
  <2>4. RunVerdict = "open" /\ RunVerdict' = "open"
    BY <2>1 DEF RunVerdict
  <2> QED
    BY <2>1, <2>3, <2>4 DEF Promise!vars
<1>8. CASE Retry
  <2>1. /\ phase = "calling" /\ phase' = phase /\ plan' = plan
        /\ DOMAIN executions' = 1..Len(executions)
        /\ \A i \in DOMAIN executions : executions'[i].status = executions[i].status
    BY <1>8, RetryStep, PlanType DEF Inv
  <2>2. \A i \in DOMAIN plan : /\ Ended(i)' <=> Ended(i)
                              /\ Ended(i) => executions'[i].status = executions[i].status
    <3>1. DOMAIN executions' = DOMAIN executions
      BY <2>1, PlanType DEF Inv
    <3> QED
      BY <2>1, <3>1 DEF Ended
  <2>3. Outcome' = Outcome
    BY <2>1, <2>2 DEF Outcome, Ended
  <2>4. RunVerdict = "open" /\ RunVerdict' = "open"
    BY <2>1 DEF RunVerdict
  <2> QED
    BY <2>1, <2>3, <2>4 DEF Promise!vars
<1>9. CASE UNCHANGED executorVars
  <2>1. UNCHANGED <<plan, executions, phase, status>>
    BY <1>9 DEF executorVars
  <2>2. Outcome' = Outcome
    BY <2>1 DEF Outcome, Ended
  <2>3. RunVerdict' = RunVerdict
    BY <2>1 DEF RunVerdict
  <2> QED
    BY <2>1, <2>2, <2>3 DEF Promise!vars
<1> QED
  BY <1>1, <1>2, <1>3, <1>4, <1>5, <1>6, <1>7, <1>8, <1>9
     DEF Next, Execute, Promise!Next

(* Every behaviour of the executor is one of the plan run: each step of a  *)
(* plan settles exactly once, after its dependencies and as they allow,    *)
(* and the final status is the verdict on the outcomes.                    *)
THEOREM Implementation == Spec => PlanPromise
<1>1. Spec => []Inv
  BY Inductive
<1>2. Init => Promise!Init
  BY RefinementInit
<1>3. Inv /\ Inv' /\ [Next]_executorVars => [Promise!Next]_(Promise!vars)
  BY RefinementNext
<1> QED
  BY <1>1, <1>2, <1>3, PTL DEF Spec, PlanPromise, Promise!Spec

=============================================================================
