\* Two processes and a watcher on one path, or one session killed, stopped and resumed.
SPECIFICATION FairSpec
CONSTANTS
  None = None
  Partial = Partial
  Settings <- BothSettings
INVARIANTS
  TypeOK
  FileIsWhole
  FinishedIsKept
  RequestsAreAnswered
PROPERTIES
  ViewCatchesUp
CHECK_DEADLOCK FALSE
