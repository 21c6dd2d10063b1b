\* Schema runs resumed under the same, another or no schema, held for reads, with a check
\* callback, or of an older nare.
SPECIFICATION Spec
CONSTANTS
  None = None
  S1 = S1
  S2 = S2
  CallNames = {"read"}
  Schemas = {S1, S2}
  RunSchemas = {None, S1, S2}
  CallLists <- ReadCalls
  MaxErrors = 3
  MaxTurns = 3
  MaxToolCalls = None
  MaxCutoffs = None
  MaxCorrections = 2
  MaxRetries = 0
  WarnWithin = 1
  TokenLimits = {None}
  UsdLimits = {None}
  Costs = {0}
  AskAllowed = FALSE
  ToolsOffered = TRUE
  NudgeOn = FALSE
  ReadsRequired = TRUE
  CitedReads = TRUE
  Checked = TRUE
  OldFile = TRUE
  Unrecorded = Unrecorded
  Streaming = FALSE
  UsesMcp = FALSE
  Inbox = FALSE
  MaxRuns = 2
INVARIANTS
  OutputIsCurrent
  DoneIsEarned
  CorrectionsBounded
SYMMETRY
  SchemasAreAlike
CHECK_DEADLOCK FALSE
