SPECIFICATION LiveSpec
CONSTANTS
  Guardians = 2
  Callers = {c1, c2}
  MaxChildren = 3
CHECK_DEADLOCK FALSE
INVARIANTS
  OneOwner
  NamesDiffer
  Addressable
  NothingDetached
PROPERTIES
  ChildrenStop
