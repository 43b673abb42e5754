SPECIFICATION SourcingSpec
CONSTANTS
  Unreported = Unreported
  TopLimit = 10
  Catalogue <- MCCatalogue
  Families <- MCFamilies
  Requests <- MCRequests
  Listings <- MCListings
  Lifetime = 5
  Buffer = 2
  NoRequest = NoRequest
INVARIANTS
  TokenLive
  FailureExplained
  AlternativesComplete
PROPERTIES
  EstimateIsTheCost
  BuyIsSafe
CHECK_DEADLOCK FALSE
