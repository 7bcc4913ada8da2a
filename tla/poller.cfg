SPECIFICATION CoverageSpec
CONSTANTS
  Address <- MCAddress
  BadAddress = BadAddress
  Provider = "prov"
  DSeq <- MCDSeq
  GOSeq = {1}
  LeaseId <- MCLeaseId
  Rank <- MCRank
  PageSize = 2
  MaxFaults = 1
INVARIANT PollerAloneTypeOK CacheNeverAhead QuietSyncIsExact
PROPERTY EndedRowsStayEnded CacheConverges
