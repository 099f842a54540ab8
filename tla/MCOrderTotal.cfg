SPECIFICATION Spec
CONSTANTS
  NANOSMOD = 4
  Prices <- MCPrices
  Quantities = {0, 1, 2, 4}
  MaxItems = 3
INVARIANTS TotalExact TotalRight NanosWithinLimit
CHECK_DEADLOCK FALSE
