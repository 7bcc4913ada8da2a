SPECIFICATION FairSpec
CONSTANTS
  MaxAttempts = 3
  MaxFaults = 1
  Req = {q1, q2}
  HalfRange = 8
  Second = 3
  TenMinutes = 5
  Setting <- MCSetting
INVARIANTS
  TypeOK
  OnlyBadIntervalsPanic
PROPERTIES
  GracefulEnd
  EndsWhenCancelled
  EventuallyServes
