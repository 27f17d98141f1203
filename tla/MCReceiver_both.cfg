SPECIFICATION Spec
CONSTANTS
  Requests = {"q1", "q2"}
  Tenants = {"acme"}
  Services = {"fc", "ab"}
  Uris <- MCUris
  Roles <- MCRoles
  REQUIRED_INPUT_ROLES = {"series"}
  OPTIONAL_INPUT_ROLES = {}
  OUTPUT_ROLES = {"forecast"}
  AllowedUris <- MCAllowedUris
  PermittedUris <- MCPermittedUris
  Messages = {m1}
  Publications <- AllPublications
  Malformed = Malformed
  NoPayload = NoPayload
  Registry <- MCRegistry
  WorkerJob = "fc_worker"
  MaxAttempts = 3
  MaxDeliveries = 2
CHECK_DEADLOCK FALSE
INVARIANTS
  IInv
  JobsAreAdmitted
  AnswersMatchJobs
PROPERTY
  EveryRequestIsAnswered
