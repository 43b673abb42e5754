SPECIFICATION PipelineSpec
CONSTANTS
  Unreported = Unreported
  Words <- MCWords
  ProductKeys = {"product"}
  RevisionKeys = {}
  Files <- MCXmlFiles
  MaxUploads = 1
INVARIANT
  ReferencesCombined
CHECK_DEADLOCK FALSE
