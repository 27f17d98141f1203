SPECIFICATION SpecWithForecast
CONSTANTS
  Contexts <- MCContexts
  Frames <- MCFrames
  ArtifactDrafts <- MCArtifactDrafts
  FindingDrafts <- MCFindingDrafts
  Guides <- MCGuides
  BASE_GUARDRAILS <- MCBase
  MAX_SERVICE_OUTPUTS = 2
  MAX_FINDINGS = 2
  TooLong <- MCTooLong
  NaN = NaN
  None = None
CHECK_DEADLOCK FALSE
INVARIANTS
  TypeOK
  AcceptedReadoutsAreClosed
  BuiltReadoutsPassTheGate
  HonestReadoutsPass
PROPERTY
  GuardrailsSurviveCopies
