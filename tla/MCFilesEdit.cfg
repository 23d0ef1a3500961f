\* An edit, and a read after it.
SPECIFICATION FilesSpec
CONSTANTS
  FileRuns = {r1, r2}
  MaxFileTexts = 2
INVARIANTS
  EditedIsThere
CHECK_DEADLOCK FALSE
