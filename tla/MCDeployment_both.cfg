SPECIFICATION DeploymentSpec
CONSTANTS
  Requests = {"q1"}
  Tenants = {"acme"}
  Services = {"fc"}
  Uris <- MCUris
  Roles <- MCRoles
  REQUIRED_INPUT_ROLES = {"series"}
  OPTIONAL_INPUT_ROLES = {}
  OUTPUT_ROLES = {"forecast"}
  AllowedUris <- MCAllowedUris
  PermittedUris <- MCPermittedUris
  Runs <- MCRuns
  Contracts <- MCDispatched
  Messages = {m1}
  Publications <- MixedPublications
  Malformed = Malformed
  NoPayload = NoPayload
  Registry <- MCRegistry
  WorkerJob = "fc_worker"
  MaxAttempts = 1
  MaxDeliveries = 2
  Missing = Missing
  Invalid = Invalid
  NoMessage = NoMessage
  NoResult = NoResult
  NoData = NoData
CHECK_DEADLOCK FALSE
INVARIANTS
  
  RefusedRequestsLeaveNoTrace
  DuplicatesKeepOutputs
PROPERTY
  EveryRequestComesToRest
