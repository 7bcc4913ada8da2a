SPECIFICATION Spec
CONSTANTS
  Account <- MCAccount
  Provider = "prov"
  None = None
  MaxPending = 2
  MaxLoads = 2
INVARIANT
  YourDeployments
