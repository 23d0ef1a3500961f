SPECIFICATION Spec
CONSTANTS
  s1 = s1
  s2 = s2
  Senders <- MCSenders
  Capacity = 2
  MaxAccepted = 3
  MaxSteps = 2
  MaxCalls = 2
SYMMETRY SenderSymmetry
INVARIANTS
  Transcript
  RequestIsWhole
  ToldWhatIsRecorded
  WritesRunAlone
  SteeringInOrder
  SpentStartsNoTool
  CancelWins
  EndHooksToldTheOutcome
PROPERTY SteeringPromiseKept
