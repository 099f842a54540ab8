SPECIFICATION CartSpec
CONSTANTS
  Users = {u1, u2}
  Products = {p1, p2}
  NoCart = NoCart
  Blank = Blank
  Quantities = {1, 2}
  ItemsSize = 3
INVARIANTS AddedItemsStored
