\* What session.py says of signed thinking and the system prompt of a resume.
SPECIFICATION Spec
CONSTANTS
  None = None
  ToolSets = {T1, T2}
  PromptNames = {P1, P2}
  Prompts <- SecretPrompts
  Calls <- SomeCalls
  Results <- SomeResults
  OldFiles = {}
  ImageInputs = {TRUE}
  Structured = FALSE
  Thinks = {TRUE}
  Window = 14
  Overhead = 2
  ImageSize = 3
  MaxText = 2
  MaxLength = 8
  MaxResumes = 1
  T1 = T1
  T2 = T2
  P1 = P1
  P2 = P2
INVARIANTS
  PromptStands
SYMMETRY
  NamesAreAlike
CHECK_DEADLOCK FALSE
