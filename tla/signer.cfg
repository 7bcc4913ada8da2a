SPECIFICATION RunsSpec
CONSTANTS
  Address <- MCAddress
  BadAddress = BadAddress
  Provider = "prov"
  DSeq <- MCDSeq
  GOSeq <- MCGOSeq
  LeaseId <- OneLease
  Rank <- MCRank
  Key <- MCKey
  AddressFromPubKey <- MCAddressFromPubKey
  Instant <- MCInstant
  Comment <- MCComment
  MaxFaults = 1
  Req = {r1, r2}
  Envelope <- MCEnvelope
  NotJSON = NotJSON
  NotBase64 = NotBase64
  Invocation <- MCInvocation
  NotRun = NotRun
SYMMETRY ReqSymmetry
INVARIANTS
  RunsTypeOK
  SuccessMeansStored
  ToolAndServerAgree
  StoredAsAsked
  RepeatsAreTold
CHECK_DEADLOCK FALSE
