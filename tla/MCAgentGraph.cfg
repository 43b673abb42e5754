SPECIFICATION FairGraphSpec
CONSTANTS
  StepIds <- MCIds
  Tools <- MCTools
  Plans <- MCPlans
  MaxAttempts = 2
  NoRequest = NoRequest
  NoResponse = NoResponse
INVARIANTS
  StatusesAgree
  NodeErrorsAgree
PROPERTIES
  ImplementsBOMAgent
  GraphAnswers
CHECK_DEADLOCK FALSE
