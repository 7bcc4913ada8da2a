SPECIFICATION FairSpec
CONSTANTS
  Address <- MCAddress
  BadAddress = BadAddress
  Provider = "prov"
  DSeq <- MCDSeq
  GOSeq <- MCGOSeq
  LeaseId <- OneLease
  Rank <- MCRank
  Key <- MCKey
  AddressFromPubKey <- MCAddressFromPubKey
  Instant <- MCInstant
  Comment <- MCComment
  NotJSON = NotJSON
  NotBase64 = NotBase64
  Req = {r1, r2}
  Envelope <- Refusable
  PageSize = 2
  MaxFaults = 1
PROPERTY LeasedRatingsAreTaken CacheConverges
