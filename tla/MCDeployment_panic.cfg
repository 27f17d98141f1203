SPECIFICATION DeploymentSpec
CONSTANTS
  Requests = {"q1", "q2"}
  Tenants = {"acme"}
  Services = {"fc"}
  Uris <- MCUris
  Roles <- MCRoles
  REQUIRED_INPUT_ROLES = {"series"}
  OPTIONAL_INPUT_ROLES = {}
  OUTPUT_ROLES = {"forecast"}
  AllowedUris <- MCAllowedUris
  PermittedUris <- MCPermittedUris
  Runs <- MCRuns
  Contracts <- MCDispatched
  Messages = {m1}
  Publications <- GoodPublication
  Malformed = Malformed
  NoPayload = NoPayload
  Registry <- MCRegistry
  WorkerJob = "fc_worker"
  MaxAttempts = 2
  MaxDeliveries = 1
  Missing = Missing
  Invalid = Invalid
  NoMessage = NoMessage
  NoResult = NoResult
  NoData = NoData
CHECK_DEADLOCK FALSE
INVARIANT
  WorkerNeverPanics
