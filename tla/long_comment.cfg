SPECIFICATION Spec
CONSTANTS
  Address <- MCAddress
  BadAddress = BadAddress
  Provider = "prov"
  DSeq <- MCDSeq
  GOSeq <- MCGOSeq
  LeaseId <- OneLease
  Rank <- MCRank
  Key <- MCKey
  AddressFromPubKey <- MCAddressFromPubKey
  Instant <- MCInstant
  Comment <- MCComment
  NotJSON = NotJSON
  NotBase64 = NotBase64
  Req = {r1}
  Envelope <- Refusable
  PageSize = 2
  MaxFaults = 0
INVARIANT CommentsUpTo1000CharactersAreTaken
