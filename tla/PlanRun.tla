------------------------------ MODULE PlanRun ------------------------------
(***************************************************************************)
(* What one execution of an agent plan promises, with no order between the *)
(* steps but the one their dependencies impose.                            *)
(*                                                                         *)
(* A plan is a sequence of steps; a step names its tool and the ids of the *)
(* steps it depends on.  A plan that is not sound is refused as a whole.   *)
(* In a sound one every step settles exactly once, after the steps it      *)
(* needs: a step all of whose needs succeeded settles as its tool decides, *)
(* any other settles as skipped.  The verdict summarises the outcomes.     *)
(* ToolExecutor implements this specification.                             *)
(***************************************************************************)
EXTENDS Naturals, Sequences

CONSTANTS
  Plans          \* the plans that may be submitted

VARIABLES
  plan,          \* the submitted plan
  outcome,       \* per position of the plan, how its step settled
  verdict        \* the status of the run as a whole

vars == <<plan, outcome, verdict>>

Settled == {"success", "failed", "skipped"}

(* A plan can run when it has steps, their ids are distinct and every      *)
(* dependency is the id of an earlier step.                                *)
Sound(p) ==
  /\ p # <<>>
  /\ \A i, j \in DOMAIN p : p[i].id = p[j].id => i = j
  /\ \A i \in DOMAIN p : \A d \in p[i].deps :
        \E j \in DOMAIN p : j < i /\ p[j].id = d

(* The positions of the steps that step i of p depends on.                 *)
Needs(p, i) == {j \in DOMAIN p : p[j].id \in p[i].deps}

(* Outcomes that agree give that outcome, except that a run which only     *)
(* skipped is a failed one; outcomes that differ make it a partial one.    *)
Verdict(p, out) ==
  CASE \A i \in DOMAIN p : out[i] = "success"             -> "success"
    [] \/ \A i \in DOMAIN p : out[i] = "failed"
       \/ \A i \in DOMAIN p : out[i] = "skipped"          -> "failed"
    [] OTHER                                              -> "partial"

-----------------------------------------------------------------------------

Init ==
  /\ plan = <<>>
  /\ outcome = <<>>
  /\ verdict = "idle"

Submit(p) ==
  /\ verdict = "idle"
  /\ plan' = p
  /\ outcome' = [i \in DOMAIN p |-> "waiting"]
  /\ verdict' = "open"

Refuse ==
  /\ verdict = "open"
  /\ ~Sound(plan)
  /\ verdict' = "failed"
  /\ UNCHANGED <<plan, outcome>>

Settle(i) ==
  /\ verdict = "open"
  /\ Sound(plan)
  /\ outcome[i] = "waiting"
  /\ \A j \in Needs(plan, i) : outcome[j] \in Settled
  /\ \E o \in Settled :
        /\ (\E j \in Needs(plan, i) : outcome[j] # "success") => o = "skipped"
        /\ outcome' = [outcome EXCEPT ![i] = o]
  /\ UNCHANGED <<plan, verdict>>

Conclude ==
  /\ verdict = "open"
  /\ Sound(plan)
  /\ \A i \in DOMAIN plan : outcome[i] \in Settled
  /\ verdict' = Verdict(plan, outcome)
  /\ UNCHANGED <<plan, outcome>>

Next ==
  \/ \E p \in Plans : Submit(p)
  \/ Refuse
  \/ \E i \in DOMAIN plan : Settle(i)
  \/ Conclude

Spec == Init /\ [][Next]_vars

=============================================================================
