SPECIFICATION PipelineSpec
CONSTANTS
  Requests = {r1}
  Clients = {"ann", "bob"}
  Inputs <- TheInputs
  Deployments <- TheDeployments
  Awaiting <- TheAwaiting
INVARIANT
  GaugeComesDown
CHECK_DEADLOCK FALSE
