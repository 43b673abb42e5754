SPECIFICATION FairSpec
CONSTANTS
  StepIds <- MCIds
  Tools <- MCTools
  Plans <- MCPlans
  MaxAttempts = 2
INVARIANTS
  TypeOK
  CallsAreReady
  AllOrNothing
  RecordsAgree
  FailuresExplained
  RetriesExhausted
PROPERTIES
  PlanPromise
  Termination
CHECK_DEADLOCK FALSE
