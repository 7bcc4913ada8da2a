SPECIFICATION Spec
CONSTANTS
  Address <- MCAddress
  BadAddress = BadAddress
  Provider = "prov"
  DSeq = {1, 2}
  GOSeq = {1}
  Key <- MCKey
  AddressFromPubKey <- MCAddressFromPubKey
  Instant = {0}
  Comment <- MCComment
  MaxFaults = 1
  ListLimit = 1
  MaxLookups = 2
  Offered <- MCOffered
  None = None
  Failed = Failed
INVARIANT
  EveryRatingIsShown
CHECK_DEADLOCK FALSE
