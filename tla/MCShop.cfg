SPECIFICATION Spec
CONSTANTS
  p1 = p1
  eur = eur
  USD = usd
  CAD = cad
  clothing = clothing
  NANOSMOD = 4
  Catalog = {p1}
  PriceUsd <- MCPriceUsd
  Categories = {clothing}
  AdFor <- MCAdFor
  Rate <- MCRate
  QuoteUsd <- MCQuoteUsd
  NoProduct = NoProduct
  Users = {federico}
  USER_ID = federico
  Products = {p1, px}
  NoCart = NoCart
  Blank = Blank
  Quantities = {2, 3}
  ItemsSize = 3
  Browsers = {b1, b2}
  Currencies = {cad, eur, xyz}
  NoCurrency = NoCurrency
  PoolSize = 3
  MaxPages = 2
INVARIANTS CartTotalRight DownNeedsCause BuffersReturned
PROPERTIES EveryPageAnswered
CHECK_DEADLOCK FALSE
