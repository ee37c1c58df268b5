SPECIFICATION Spec
CONSTANTS
  NumNodes = 3
  Call = {c}
  PlainCall = {p}
  Expected <- MCExpected
  Retries = 2
  MaxMoves = 1
INVARIANTS TypeOK AtMostOnce AnswersAreFinal AckedWritesAreInvalidated
CHECK_DEADLOCK FALSE
