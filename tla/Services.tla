------------------------------ MODULE Services ------------------------------
(***************************************************************************)
(* What the services without state answer: product catalog, currency,      *)
(* shipping, advertisement, recommendation and email.  (Payment is a       *)
(* module of its own, and so is the cart service, which has state.)        *)
(* Products and currencies are model values, rates are fractions.          *)
(***************************************************************************)
EXTENDS Money, Sequences, FiniteSets

CONSTANTS
  Catalog,     \* the products of the tables of the catalog and recommendation services
  PriceUsd,    \* their prices
  Categories,  \* the categories there are ads for
  AdFor,       \* the product of the ad of a category
  Rate,        \* conversion_rate: for each supported currency a pair <<a, b>>, for a / b
  USD,         \* the currency of the catalog's prices
  QuoteUsd,    \* what shipping costs
  NoProduct    \* a response, or an ad, without a product

ASSUME ServicesAssumption ==
  /\ IsFiniteSet(Catalog) /\ Catalog # {}
  /\ PriceUsd \in [Catalog -> Money]
  /\ \A p \in Catalog : PriceUsd[p].units >= 0 /\ PriceUsd[p].nanos >= 0
  /\ AdFor \in [Categories -> Catalog]
  /\ \A c \in DOMAIN Rate : Rate[c][1] \in Nat \ {0} /\ Rate[c][2] \in Nat \ {0}
  /\ USD \in DOMAIN Rate
  /\ QuoteUsd \in Money
  /\ NoProduct \notin Catalog

-----------------------------------------------------------------------------
(* Product catalog service *)

\* The table, as far as it is used: the price of each product.
products == PriceUsd

ListProducts == DOMAIN products

\* For an unknown id the response holds what was in the buffer before: another
\* product, or none.
GetProduct(id) == IF id \in DOMAIN products THEN {id} ELSE Catalog \cup {NoProduct}

-----------------------------------------------------------------------------
(* Currency service *)

GetSupportedCurrencies == DOMAIN Rate

\* (Units % 1 adds nothing to the nanos.)
CurrencyCarry(m) == Amount(m.units + m.nanos \div NANOSMOD, Rem(m.nanos, NANOSMOD))

DividedBy(m, r) == Amount(Quot(m.units * r[2], r[1]), Quot(m.nanos * r[2], r[1]))

\* The amounts there are to convert, all of them in dollars.
UsdAmounts == {PriceUsd[p] : p \in Catalog} \cup {QuoteUsd, Amount(0, 0)}

\* Through euros.  Both steps divide by the rate, units and nanos apart.
Convert ==
  [m \in UsdAmounts |->
     LET euros == CurrencyCarry(DividedBy(m, Rate[USD]))
     IN [to \in DOMAIN Rate |-> CurrencyCarry(DividedBy(euros, Rate[to]))]]

-----------------------------------------------------------------------------
(* Shipping service *)

\* Free for a count of zero (quantities are not negative), else always the same.
GetQuote(items) ==
  IF \A i \in DOMAIN items : items[i].quantity = 0 THEN Amount(0, 0) ELSE QuoteUsd

-----------------------------------------------------------------------------
(* Ad service *)

getAdsByCategory(key) == IF key \in Categories THEN AdFor[key] ELSE NoProduct

getRandomAds == {AdFor[key] : key \in Categories}

\* The ads that may be served: one for each context key, or a random one.
GetAds_ByKeys(keys) == {[i \in DOMAIN keys |-> getAdsByCategory(keys[i])]}
GetAds(keys) ==
  IF keys # << >> THEN {[i \in DOMAIN keys |-> getAdsByCategory(keys[i])]}
  ELSE {<<ad>> : ad \in getRandomAds}

-----------------------------------------------------------------------------
(* Recommendation service *)

\* Its own copy of the catalog's table.
recommendable == Catalog

\* Any product of it, whatever the request names.
ListRecommendations(ids) == recommendable

=============================================================================
