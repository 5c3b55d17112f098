SPECIFICATION Spec
CONSTANTS
  Reqs = {q1, q2}
  ServerRequests = TRUE
  StrayLines = FALSE
  MaxWire = 2
CHECK_DEADLOCK FALSE
PROPERTIES
  AnsweredByReplies
