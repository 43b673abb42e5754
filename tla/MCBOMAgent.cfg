SPECIFICATION FairAgentSpec
CONSTANTS
  StepIds <- MCIds
  Tools <- MCTools
  Plans <- MCPlans
  MaxAttempts = 2
  NoRequest = NoRequest
  NoResponse = NoResponse
INVARIANTS
  PlansAreRunnable
  AlternativesNeedBom
  SuccessIsComplete
PROPERTIES
  NeverUpgraded
  AgentAnswers
CHECK_DEADLOCK FALSE
