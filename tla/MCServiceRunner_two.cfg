SPECIFICATION Spec
CONSTANTS
  Requests = {"q1", "q2"}
  Tenants = {"acme"}
  Services = {"fc"}
  Uris <- MCUris
  Roles <- MCRoles
  REQUIRED_INPUT_ROLES = {"series"}
  OPTIONAL_INPUT_ROLES = {}
  OUTPUT_ROLES = {"forecast"}
  AllowedUris <- MCAllowedUris
  PermittedUris <- MCPermittedUris
  Runs = {r1, r2}
  Contracts <- AllContracts
  Malformed = Malformed
  Missing = Missing
  Invalid = Invalid
  NoMessage = NoMessage
  NoResult = NoResult
  NoData = NoData
  MaxAttempts = 2
CHECK_DEADLOCK FALSE
INVARIANTS
  IInv
  AuthorizedBeforeAnyIo
  StoredOnlyIfExplained
  AnnouncedOnlyIfComplete
  AnnouncementsBounded
  AnnouncedOutputsStay
PROPERTIES
  EveryRunFinishes
  KeepsPromise
