SPECIFICATION TextSpec
CONSTANT MaxLength = 2
INVARIANT ByteIdentical
CHECK_DEADLOCK FALSE
