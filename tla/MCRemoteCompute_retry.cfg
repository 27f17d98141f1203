SPECIFICATION Spec
CONSTANTS
  Runs = {r1, r2}
  Serializable = {r1}
  Responses <- MCResponses
  MaxAttempts = 3
  MaxClock = 1
  Computing = Computing
  None = None
CHECK_DEADLOCK FALSE
INVARIANTS
  IInv
  ResultsAnswerTheLastPost
  OneQuestionPerRun
  AnswersAreFinal
PROPERTY
  EveryCallEnds
