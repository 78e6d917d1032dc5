SPECIFICATION Spec
CONSTANTS
  Calls = {c1, c2}
  UserIds = {1, 2}
  Tokens = {1, 2}
  Emails = {"ann"}
  AdminEmail = "ann"
  Passwords = {"pw"}
  None = None
  RefreshTtl = 1
  AccessTtl = 1
  TicksPerSecond = 2
  MaxTime = 0
  Persistent = FALSE
INVARIANTS
  EmailUnique
