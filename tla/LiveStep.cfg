\* A streamed step of either rail that loops, fails and retries, and a run that may close it.
SPECIFICATION FairSpec
CONSTANTS
  None = None
  MaxWords = 2
  MaxRetries = 1
INVARIANTS
  TypeOK
  WordsInOrder
  ReplyIsShown
  NoStepIsLeft
PROPERTIES
  ShownMeanwhile
CHECK_DEADLOCK FALSE
