\* Two runs, a login repeated, and a logout, an answer lost or a process killed.
SPECIFICATION FairSpec
CONSTANTS
  None = None
  Procs = {p1, p2}
  MaxTokens = 3
  MaxLogins = 2
  MaxUpsets = 1
INVARIANTS
  TypeOK
  SpentOnce
  LogoutStays
  AuthorizationIsKept
PROPERTIES
  LockIsReleased
CHECK_DEADLOCK FALSE
