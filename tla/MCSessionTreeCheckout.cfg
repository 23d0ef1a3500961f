SPECIFICATION Spec
CONSTANTS
  Preserve = 2
  MaxCalls = 1
  MaxNodes = 7
  MaxSummaries = 1
CHECK_DEADLOCK FALSE
INVARIANTS
  CallsKeepTheirResults
