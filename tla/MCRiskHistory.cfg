SPECIFICATION HistorySpec
SYMMETRY MCSymmetry
CONSTANTS
  a1 = a1
  a2 = a2
  Unreported = Unreported
  TopLimit = 1
  Analyses <- MCAnalyses
  Reports <- MCReports
  BomOf <- MCBomOf
  Lines <- MCLines
  Markets <- MCMarkets
INVARIANTS
  RiskTypeOK
  AnalysisAtomic
  SnapshotFresh
  ReportCovers
  RisksNamed
  ElevationJustified
  TrendMatchesReport
CHECK_DEADLOCK FALSE
