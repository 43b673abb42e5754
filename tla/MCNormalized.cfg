SPECIFICATION CatalogSpec
CONSTANTS
  Uploads <- MCUploads
  Enrichments <- MCEnrichments
  Names <- MCNames
  Lines <- MCLines
  Seeded <- MCSeeded
  MaxComponents = 5
  NoName = NoName
INVARIANT NormalizedAgrees
CHECK_DEADLOCK FALSE
