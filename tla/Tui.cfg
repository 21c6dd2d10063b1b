\* A person who types, interrupts, forks, quits and answers, while runs work and ask.
SPECIFICATION FairSpec
CONSTANTS
  None = None
  Calls <- SomeCalls
  READ_ONLY = {"cat"}
  MaxTexts = 4
  MaxCalls = 3
  MaxForks = 1
  MaxDeeds = 4
  MaxPending = 3
INVARIANTS
  TypeOK
  TextsAreKept
  OnlyConsent
PROPERTIES
  NoRunIsCut
  NothingWaits
CHECK_DEADLOCK FALSE
