SPECIFICATION ClientSpec
CONSTANTS
  Reqs = {q1, q2}
  ServerRequests = TRUE
  StrayLines = TRUE
  MaxWire = 1
CHECK_DEADLOCK FALSE
INVARIANTS
  TypeOK
  AnswerNotLost
PROPERTIES
  RequestsEnd
  DeadEndsRequests
