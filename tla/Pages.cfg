\* The pages of list and search while the tree they walk changes.
SPECIFICATION Spec
CONSTANTS
  None = None
  Paths <- SomePaths
  SkippedDirs = {9}
  Matched <- NotTheFirst
  Lines = {1, 2}
  MAX_PAGE = 2
  MaxChanges = 3
INVARIANTS
  EachOnce
CHECK_DEADLOCK FALSE
