SPECIFICATION DocumentsSpec
SYMMETRY MCSymmetry
CONSTANTS
  p1 = p1
  p2 = p2
  Processes <- MCProcesses
  Dimensions = {2, 3}
  MaxStarts = 3
  Uploads <- MCUploads
  Content <- MCContent
  FileName <- MCFileName
  Pages <- MCPages
  ChunkSize = 3
  ChunkOverlap = 1
  Queries <- MCQueries
  Similarity <- MCSimilarity
  Coverage <- MCCoverage
  RetrievalLimit = 3
  EvidenceLimit = 2
  NoCollection = NoCollection
  NoProcess = NoProcess
INVARIANTS
  RecordedIsSearchable
  DimensionsAgree
PROPERTY
  EvidenceUndominated
CHECK_DEADLOCK FALSE
