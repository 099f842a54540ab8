SPECIFICATION Spec
CONSTANTS
  Conns = {c1, c2}
  Busy = {}
  Idle = {}
  Asks <- MCAsks
  MaxSocks = 3
  Spare = {b1}
INVARIANTS CloseShiftsTheOthers
CHECK_DEADLOCK FALSE
