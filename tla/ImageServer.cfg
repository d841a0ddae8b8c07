CONSTANT MaxRequests = 3
SPECIFICATION ImageSpec
INVARIANTS
  AnswersAreOwn
CHECK_DEADLOCK FALSE
