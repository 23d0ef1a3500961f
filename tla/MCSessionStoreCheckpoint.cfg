SPECIFICATION Spec
CONSTANTS
  Savers = {p1, p2}
  MaxSaves = 3
CHECK_DEADLOCK FALSE
INVARIANTS
  CheckpointStays
