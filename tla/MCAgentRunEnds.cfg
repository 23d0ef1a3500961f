SPECIFICATION FairSpec
CONSTANTS
  s1 = s1
  s2 = s2
  Senders <- OneSender
  Capacity = 1
  MaxAccepted = 0
  MaxSteps = 2
  MaxCalls = 3
PROPERTIES
  CancelEndsTheRun
  RunEnds
