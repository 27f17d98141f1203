SPECIFICATION Spec
CONSTANTS
  Calls = {c1, c2, c3}
  Workloads <- MCWorkloads
  Uris <- MCUris
  Scheme <- MCScheme
  Adapters = {"gs", "file", "https", "inline"}
  External = External
  NoObject = NoObject
  NoValue = NoValue
  InitialObjects <- MCInitialObjects
  MaxAttempts = 2
  First = c1
  Second = c2
CHECK_DEADLOCK FALSE
INVARIANTS
  TypeOK
  ReadsAreWhole
  AcknowledgedWritesLand
  ReadsAreFresh
PROPERTY
  EveryCallEnds
