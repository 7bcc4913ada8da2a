SPECIFICATION TextSpec
CONSTANT MaxLength = 3
INVARIANTS
  TextTypeOK
  ToolSignaturesVerify
  PortAgrees
CHECK_DEADLOCK FALSE
