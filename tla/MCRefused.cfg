SPECIFICATION Spec
CONSTANTS
  Now <- MCNow
  Orders = {o1, o2}
  Items = {i1, i2}
  Catalog = {i1}
  Cards <- MCCards
  Currencies = {cad, xyz}
  Supported = {cad}
  Garbage = Garbage
  MaxItems = 2
  PoolSize = 4
INVARIANTS RefusedNotShipped
CHECK_DEADLOCK FALSE
