SPECIFICATION FairFetchSpec
CONSTANTS
  Callers = {k1, k2, k3}
  FailureThreshold = 2
  SuccessThreshold = 2
  ResetTimeout = 2
  Attempts = 2
INVARIANTS
  FetchInv
  SendsBounded
  HalfOpenIsQuiet
PROPERTIES
  NothingSentWhileOpen
  EveryFetchEnds
  OpenIsProbedAgain
