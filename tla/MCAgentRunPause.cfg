SPECIFICATION Spec
CONSTANTS
  s1 = s1
  s2 = s2
  Senders <- OneSender
  Capacity = 1
  MaxAccepted = 1
  MaxSteps = 1
  MaxCalls = 1
INVARIANT NothingFallsBetween
