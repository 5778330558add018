SPECIFICATION Spec
CONSTANTS
  Requests <- MCRequests
  Words <- MCWords
  RX_SIZE = 12
  MAX_DUE = 1
  DISTURBANCES = 1
  TRANSACTIONS = 3
CHECK_DEADLOCK FALSE
INVARIANTS
  AnswersAsked
