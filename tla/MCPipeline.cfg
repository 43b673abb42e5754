SPECIFICATION PipelineSpec
CONSTANTS
  Unreported = Unreported
  Words <- MCWords
  ProductKeys = {"product"}
  RevisionKeys = {}
  Files <- MCFiles
  MaxUploads = 2
INVARIANT
  LatestAsWritten
PROPERTY
  AnswerTellsStored
CHECK_DEADLOCK FALSE
