\* A session whose history is compacted, saved with secrets, and resumed by another nare.
SPECIFICATION Spec
CONSTANTS
  None = None
  ToolSets = {T1, T2}
  PromptNames = {P1, P2}
  Prompts <- PlainPrompts
  Calls <- SomeCalls
  Results <- SomeResults
  OldFiles <- SomeOldFiles
  ImageInputs = {TRUE}
  Structured = FALSE
  Thinks = {TRUE}
  Window = 14
  Overhead = 2
  ImageSize = 3
  MaxText = 2
  MaxLength = 8
  MaxResumes = 1
  T1 = T1
  T2 = T2
  P1 = P1
  P2 = P2
INVARIANTS
  TypeOK
  ThinkingIsFresh
  StopIsHonest
  RequestsFit
SYMMETRY
  NamesAreAlike
CHECK_DEADLOCK FALSE
