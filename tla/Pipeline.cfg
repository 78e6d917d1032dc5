SPECIFICATION FairPipelineSpec
CONSTANTS
  Requests = {r1, r2}
  Clients = {"ann", "bob"}
  Inputs <- TheInputs
  Deployments <- TheDeployments
  Awaiting <- TheAwaiting
INVARIANTS
  PipelineInv
  ActiveCountsWaiting
  ServicesAreGuarded
  ReadinessIsTrue
PROPERTIES
  RefusedForOwnRequests
  EveryRequestEnds
