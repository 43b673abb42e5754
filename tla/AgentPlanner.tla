---------------------------- MODULE AgentPlanner ----------------------------
(***************************************************************************)
(* agents/planner.py: the tools a task calls for, and the plan made of     *)
(* them.  A task is what the planner's keyword groups see in it; the       *)
(* planner is deterministic and calls no tool.                             *)
(***************************************************************************)
EXTENDS Naturals, Sequences

BomTool == "bom_intelligence"
ComponentTool == "component_intelligence"
AlternativeTool == "alternative_analysis"

AgentTools == {BomTool, ComponentTool, AlternativeTool}

(* A group of keywords is found in a task by substring, so any of the      *)
(* groups may be found together.  A blank task has none of them.           *)
Words == {"alternative", "component", "bom", "risk"}

Requests ==
  {r \in [words : SUBSET Words, blank : BOOLEAN, evidence : BOOLEAN] :
     r.blank => r.words = {}}

(* AgentTool.dependencies, which the registry hands to the planner.        *)
Dependencies(tool) == IF tool = AlternativeTool THEN {BomTool} ELSE {}

(* AgentPlanner.plan                                                       *)
PlannedTools(words) ==
  LET analysed == words \cap {"bom", "risk"} # {}
  IN  IF "alternative" \in words
      THEN (IF analysed THEN <<BomTool>> ELSE <<>>) \o <<AlternativeTool>>
      ELSE IF analysed \/ "component" \notin words
           THEN <<BomTool>>
           ELSE <<ComponentTool>>

StepName == <<"step_1", "step_2">>

(* Faulty: dependencies are not carried into the plan.                     *)
NoProviders(tools, i, registered) == {}

(* The earlier steps whose tools step i's tool depends on.  Only the       *)
(* registry knows dependencies, so a tool it does not hold has none.       *)
Providers(tools, i, registered) ==
  {j \in 1..(i - 1) :
     tools[i] \in registered /\ tools[j] \in Dependencies(tools[i])}

(* Faulty: positions count from 0, step names from 1.                      *)
PlanForShifted(words, registered) ==
  LET tools == PlannedTools(words)
  IN  [i \in DOMAIN tools |->
         [id |-> StepName[i], tool |-> tools[i],
          deps |-> {StepName[j + 1] : j \in Providers(tools, i, registered)}]]

(* AgentPlanner.create_execution_plan                                      *)
PlanFor(words, registered) ==
  LET tools == PlannedTools(words)
  IN  [i \in DOMAIN tools |->
         [id |-> StepName[i], tool |-> tools[i],
          deps |-> {StepName[j] : j \in Providers(tools, i, registered)}]]

(* A dependency of a registered tool is itself unregistered, or has no     *)
(* earlier step in the plan.                                               *)
Unprovided(tools, registered) ==
  \E i \in DOMAIN tools : tools[i] \in registered /\
     \E d \in Dependencies(tools[i]) :
        d \notin registered \/ \A j \in 1..(i - 1) : tools[j] # d

(* The requests the planner answers with a ValueError.  The strict planner *)
(* also refuses a tool that is not registered; the graph's leaves that to  *)
(* the executor.                                                           *)
Refused(r, registered, strict) ==
  LET tools == PlannedTools(r.words)
  IN  \/ r.blank
      \/ strict /\ \E i \in DOMAIN tools : tools[i] \notin registered
      \/ Unprovided(tools, registered)

AgentPlans == {PlanFor(w, registered) : w \in SUBSET Words, registered \in SUBSET AgentTools}

=============================================================================
