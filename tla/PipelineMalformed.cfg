SPECIFICATION PipelineSpec
CONSTANTS
  Requests = {r1}
  Clients = {"ann", "bob"}
  Inputs <- TheInputs
  Deployments <- TheDeployments
  Awaiting = {}
INVARIANT
  ErrorsHaveEnvelope
CHECK_DEADLOCK FALSE
