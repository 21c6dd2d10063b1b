\* What docs/contract.md says of the result line of a stopped run.
SPECIFICATION Spec
CONSTANTS
  None = None
  CallNames = {"write"}
  Schemas = {}
  RunSchemas = {None}
  CallLists <- PlainCalls
  MaxErrors = 1
  MaxTurns = 1
  MaxToolCalls = None
  MaxCutoffs = None
  MaxCorrections = 1
  MaxRetries = 0
  WarnWithin = 1
  TokenLimits = {None}
  UsdLimits = {None}
  Costs = {0}
  AskAllowed = FALSE
  ToolsOffered = TRUE
  NudgeOn = FALSE
  ReadsRequired = FALSE
  CitedReads = FALSE
  Checked = FALSE
  OldFile = FALSE
  Unrecorded = Unrecorded
  Streaming = FALSE
  UsesMcp = TRUE
  Inbox = FALSE
  MaxRuns = 1
INVARIANTS
  StopIsReported
CHECK_DEADLOCK FALSE
