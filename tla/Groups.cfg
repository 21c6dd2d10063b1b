\* Two runs of either front end, stopped anywhere, whose commands leave groups behind.
SPECIFICATION FairSpec
CONSTANTS
  None = None
  Pgids = {g1, g2}
  Tools = {"bash", "command"}
  Fronts = {"headless", "tui"}
  Looks = 2
  MaxRuns = 2
  MaxCalls = 2
INVARIANTS
  TypeOK
  NoGroupIsLost
PROPERTIES
  StopLeavesNothing
  EarlierIsLeftAlone
  StopEnds
CHECK_DEADLOCK FALSE
