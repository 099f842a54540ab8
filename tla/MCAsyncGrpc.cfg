SPECIFICATION Spec
CONSTANTS
  MaxCo = 2
  NDeps = 1
  MaxSocks = 4
  Bulk = 2
  Http = FALSE
  Handles = {h1, h2, h3}
  None = None
  Clients = {c1, c2, c3}
  Patient = FALSE
  Faulty = {}
  Window = 2
  MaxAsked = 2
  MaxCalls = 1
INVARIANTS CoroutinesAccounted IdIdentifiesCall AnswerToAsker EachAnsweredOnce OutageNeedsCause
SYMMETRY Symmetry
CHECK_DEADLOCK FALSE
