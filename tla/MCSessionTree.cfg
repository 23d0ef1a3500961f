SPECIFICATION Spec
CONSTANTS
  Preserve = 2
  MaxCalls = 2
  MaxNodes = 7
  MaxSummaries = 2
CHECK_DEADLOCK FALSE
INVARIANTS
  SummariesCoverTheirPath
  ContextIsThePath
  OpensWithUser
  KeptIsWhole
PROPERTIES
  RecentMessagesStay
