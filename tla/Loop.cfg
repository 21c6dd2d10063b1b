\* Free-text runs, one after the other: asks beside calls, cut-offs, retries, budgets, a cap,
\* MCP servers, a person who types, and a stop at every await.
SPECIFICATION FairSpec
CONSTANTS
  None = None
  CallNames = {"ask", "write"}
  Schemas = {}
  RunSchemas = {None}
  CallLists <- MixedCalls
  MaxErrors = 1
  MaxTurns = 2
  MaxToolCalls = 1
  MaxCutoffs = 1
  MaxCorrections = 1
  MaxRetries = 1
  WarnWithin = 1
  TokenLimits = {None, 3}
  UsdLimits = {3}
  Costs = {1, None}
  AskAllowed = TRUE
  ToolsOffered = TRUE
  NudgeOn = TRUE
  ReadsRequired = FALSE
  CitedReads = FALSE
  Checked = FALSE
  OldFile = FALSE
  Unrecorded = Unrecorded
  Streaming = TRUE
  UsesMcp = TRUE
  Inbox = TRUE
  MaxRuns = 2
INVARIANTS
  TypeOK
  CallsAnswered
  UserTurnsMerged
  AsksEndTheRun
  LimitsHold
PROPERTIES
  KeepsContract
  Terminates
CHECK_DEADLOCK FALSE
