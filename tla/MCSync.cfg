SPECIFICATION Spec
CONSTANTS
  Conns = {c1, c2, c3}
  Busy = {c1}
  Idle = {c3}
  Asks <- MCAsks
  MaxSocks = 3
  Spare = {}
INVARIANTS DamageNeedsMixing AnswersMatchRequests BuffersAccounted
PROPERTIES EveryRequestAnswered
CHECK_DEADLOCK FALSE
