SPECIFICATION RolloutSpec
CONSTANTS
  Address <- MCAddress
  BadAddress = BadAddress
  Provider = "prov"
  DSeq = {1}
  GOSeq = {1}
  LeaseId <- MCLeaseId
  Rank <- MCRank
  PageSize = 1
  MaxFaults = 1
INVARIANTS
  RolloutTypeOK
  CacheNeverAhead
PROPERTIES
  CacheConverges
  RowsReopenOnlyInOverlap
