SPECIFICATION Spec
CONSTANTS
  Account <- MCAccount
  Provider = "prov"
  None = None
  MaxPending = 1
  MaxLoads = 2
INVARIANT
  LeasesWithThem
