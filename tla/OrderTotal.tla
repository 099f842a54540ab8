----------------------------- MODULE OrderTotal -----------------------------
(***************************************************************************)
(* How checkout's PlaceOrder computes the amount to charge: the shipping   *)
(* cost, plus for each item its price multiplied by its quantity with      *)
(* MoneyMultiplySlow (which adds the running amount to itself).  A price   *)
(* has nanos below a unit and no sign; sums may be off in sign, against    *)
(* message.h:134 (see OrderTotalProofs).                                   *)
(***************************************************************************)
EXTENDS Money

CONSTANTS
  Prices,      \* the prices the currency service returns
  Quantities,  \* the quantities in carts
  MaxItems     \* bound: items in the cart

ASSUME OrderAssumption ==
  /\ Prices \subseteq Money
  /\ \A p \in Prices : InRange(p) /\ p.units >= 0 /\ p.nanos >= 0
  /\ Quantities \subseteq Nat
  /\ MaxItems \in Nat

VARIABLES
  total,   \* total
  added,   \* amounts added: the shipping cost, then i items
  item,    \* order->Items[i]: its cost and quantity
  price,   \* mult_price
  n,       \* n of MoneyMultiplySlow, 0 between two items
  exact,   \* history: the exact value of the multiplied price, in nanos
  sum,     \* history: the exact value of what was added, in nanos
  due,     \* history: the shipping cost and each cost times its quantity, in nanos
  odd      \* history: an item that costs something was of a quantity but 1 and 2

vars == <<total, added, item, price, n, exact, sum, due, odd>>

TypeOK ==
  /\ total \in Money
  /\ added \in 0 .. MaxItems + 1
  /\ item \in [cost : Money, quantity : Nat]
  /\ price \in Money
  /\ n \in Nat
  /\ exact \in Int /\ sum \in Int /\ due \in Int
  /\ odd \in BOOLEAN

Init ==
  /\ total = Amount(0, 0)
  /\ added = 0
  /\ item = [cost |-> Amount(0, 0), quantity |-> 0]
  /\ price = Amount(0, 0)
  /\ n = 0
  /\ exact = 0 /\ sum = 0 /\ due = 0
  /\ odd = FALSE

Shipping ==
  /\ added = 0
  /\ \E cost \in Prices :
       /\ total' = MoneySum(total, cost)
       /\ sum' = sum + Value(cost) /\ due' = due + Value(cost)
  /\ added' = 1
  /\ UNCHANGED <<item, price, n, exact, odd>>

\* The loop of MoneyMultiplySlow runs for neither 0 nor 1.
Times_OneMore(q) == q + 1
Times(q) == IF q = 0 THEN 1 ELSE q

\* The next item: a price and a quantity.
NextItem ==
  /\ 0 < added /\ added <= MaxItems
  /\ n = 0
  /\ \E cost \in Prices, q \in Quantities :
       /\ item' = [cost |-> cost, quantity |-> q]
       /\ price' = cost
       /\ exact' = Value(cost)
       /\ n' = Times(q)
  /\ added' = added + 1
  /\ UNCHANGED <<total, sum, due, odd>>

\* The loop of MoneyMultiplySlow.
Double ==
  /\ n > 1
  /\ price' = MoneySum(price, price)
  /\ exact' = exact + exact
  /\ n' = n - 1
  /\ UNCHANGED <<total, added, item, sum, due, odd>>

AddItem ==
  /\ n = 1
  /\ total' = MoneySum(total, price)
  /\ sum' = sum + exact
  /\ due' = due + item.quantity * Value(item.cost)
  /\ odd' = (odd \/ (item.quantity \notin {1, 2} /\ Value(item.cost) > 0))
  /\ n' = 0
  /\ UNCHANGED <<added, item, price, exact>>

Next == Shipping \/ NextItem \/ Double \/ AddItem

Spec == Init /\ [][Next]_vars

-----------------------------------------------------------------------------
(* Properties *)

\* No nano is lost or made up by carrying and borrowing, over any sequence of
\* doublings and additions.
TotalExact == Value(total) = sum /\ Value(price) = exact

\* What is charged is the shipping cost and each item's times its quantity, when
\* the quantities are 1 and 2; a quantity of 0 is charged once and one above 2 too
\* often (utilities.h:36), so that any of those makes the total too high.
TotalRight == Value(total) >= due /\ (Value(total) = due <=> ~odd)

\* "different sign. nanos guaranteed to not to go over the limit"
\* (utilities.h:24): whatever is added, in whatever order, off-sign amounts
\* included.
NanosWithinLimit == InRange(total) /\ InRange(price)

=============================================================================
