SPECIFICATION FairCatalogSpec
CONSTANTS
  Uploads <- MCUploads
  Enrichments <- MCEnrichments
  Names <- MCNames
  Lines <- MCLines
  Seeded <- MCSeeded
  MaxComponents = 5
  NoName = NoName
INVARIANTS
  CatalogTypeOK
  UploadAtomic
  LinesResolved
  OneComponentPerName
PROPERTIES
  FailureKeepsIdentity
  SessionsEnd
CHECK_DEADLOCK FALSE
