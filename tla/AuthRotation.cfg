SPECIFICATION Spec
CONSTANTS
  Calls = {c1, c2}
  UserIds = {1}
  Tokens = {1, 2, 3}
  Emails = {"root"}
  AdminEmail = "root"
  Passwords = {"pw"}
  None = None
  RefreshTtl = 1
  AccessTtl = 1
  TicksPerSecond = 2
  MaxTime = 2
  Persistent = TRUE
SYMMETRY CallSymmetry
INVARIANTS
  SessionInv
  SingleUse
  OneSessionPerLogin
  SessionOutlivesJwt
PROPERTIES
  EndedForGood
  LogoutIsFinal
  ImplementsRotation
