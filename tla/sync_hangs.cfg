SPECIFICATION FairSpec
CONSTANTS
  MaxAttempts = 2
  MaxFaults = 0
  Req = {q1}
  HalfRange = 8
  Second = 3
  TenMinutes = 5
  Setting <- OneSetting
PROPERTY
  SyncsOnInterval
