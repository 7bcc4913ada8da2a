SPECIFICATION Spec
CONSTANTS
  Address <- MCAddress
  BadAddress = BadAddress
  Provider = "prov"
  DSeq <- MCDSeq
  GOSeq <- MCGOSeq
  LeaseId <- TwoLeases
  Rank <- MCRank
  Key <- MCKey
  AddressFromPubKey <- MCAddressFromPubKey
  Instant <- MCInstant
  Comment <- MCComment
  NotJSON = NotJSON
  NotBase64 = NotBase64
  Req = {r1, r2}
  Envelope <- Parties
  PageSize = 2
  MaxFaults = 1
SYMMETRY ReqSymmetry
INVARIANT Balanced
PROPERTY ImplementsLedger
