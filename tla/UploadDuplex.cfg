SPECIFICATION Spec
CONSTANTS
  MaxBody = 6
  MaxAnswer = 6
  BodyWindow = 3
  AnswerWindow = 3
INVARIANTS NoMutualWait WholeExchange
PROPERTY CallEnds
CHECK_DEADLOCK FALSE
