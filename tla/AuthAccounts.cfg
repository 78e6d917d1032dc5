SPECIFICATION FairSpec
CONSTANTS
  Calls = {c1, c2}
  UserIds = {1, 2}
  Tokens = {1, 2}
  Emails = {"ann", "root"}
  AdminEmail = "root"
  Passwords = {"pw"}
  None = None
  RefreshTtl = 1
  AccessTtl = 1
  TicksPerSecond = 1
  MaxTime = 1
  Persistent = TRUE
INVARIANTS
  IssuedToActive
  EmailUnique
  TokenRolesHeld
PROPERTIES
  EveryCallEnds
  RotationSettles
