SPECIFICATION Endless
CONSTANTS
  MaxCo = 1
  NDeps = 1
  MaxSocks = 4
  Bulk = 1
  Http = TRUE
  Handles = {h1, h2}
  None = None
  Clients = {c1, c2, c3}
  Patient = TRUE
  Faulty = {1}
  Window = 1
  MaxAsked = 1
  MaxCalls = 1
INVARIANTS StaysUp AnswerToAsker
PROPERTIES ReceivedAnswered StarvedOnlyFromTheFront UpstreamReenabled
CHECK_DEADLOCK FALSE
