SPECIFICATION Spec
CONSTANTS
  MaxConns = 2
  MaxRounds = 2
  Sizes = {1, 3, 6}
  Pools = {3, 8}
  Available = 4
  HttpReq = 2
  HttpResp = 3
  Depth = 4
INVARIANTS OneOwner AllReturned
PROPERTIES TestEnds
CHECK_DEADLOCK FALSE
