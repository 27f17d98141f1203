SPECIFICATION Spec
CONSTANTS
  Requests = {q1, q2}
  HeaderIds = {trace}
  None = None
CHECK_DEADLOCK FALSE
INVARIANTS
  IInv
  InstrumentsCreatedOnce
  IdsStayApart
PROPERTIES
  EveryRequestIsAnswered
  KeepsPromise
