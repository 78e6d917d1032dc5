SPECIFICATION FairPipelineSpec
CONSTANTS
  Requests = {r1}
  Clients = {"ann", "bob"}
  Inputs <- TheInputs
  Deployments <- TheDeployments
  Awaiting = {}
PROPERTY
  FailedDependencyIsReported
CHECK_DEADLOCK FALSE
