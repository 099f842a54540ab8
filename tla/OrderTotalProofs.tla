-------------------------- MODULE OrderTotalProofs --------------------------
(***************************************************************************)
(* Proofs about the total of an order, for every number of nanos to a      *)
(* unit, all prices, all quantities and any number of items.               *)
(***************************************************************************)
EXTENDS OrderTotal, TLAPS

\* An amount as the sums produce them: units and nanos that are not negative, or
\* one unit less some nanos.
Amounts == {m \in Money : /\ InRange(m)
                          /\ m.units >= 0
                          /\ m.nanos < 0 => m.units = 1}

TotalInv ==
  /\ TypeOK
  /\ total \in Amounts
  /\ price \in Amounts
  /\ TotalExact

\* A price of v that MoneyMultiplySlow makes e when it should count k times: right
\* for 1 and 2, too much after that.
Counted(e, v, k) ==
  /\ k \in {1, 2} => e = k * v
  /\ k > 2 => IF v = 0 THEN e = 0 ELSE e > k * v

\* After each round the price has been counted as often as if the loop ended there.
RightInv ==
  /\ Value(item.cost) \in Nat
  /\ n > 0 =>
       IF item.quantity = 0 THEN n = 1 /\ exact = Value(item.cost)
       ELSE n <= item.quantity /\ Counted(exact, Value(item.cost), item.quantity - n + 1)
  /\ sum >= due /\ (sum = due <=> ~odd)

-----------------------------------------------------------------------------
(* MoneySum *)

\* Division and remainder of nanos that do not exceed two units.
LEMMA CarryAtMostOne ==
  ASSUME NEW k \in Nat, k < NANOSMOD + NANOSMOD
  PROVE  /\ k < NANOSMOD => Quot(k, NANOSMOD) = 0 /\ Rem(k, NANOSMOD) = k
         /\ k >= NANOSMOD => Quot(k, NANOSMOD) = 1 /\ Rem(k, NANOSMOD) = k - NANOSMOD
BY MoneyAssumption, SMTT(30) DEF Quot, Rem

\* The nanos of u units and one more, or one less.
LEMMA OneUnit ==
  ASSUME NEW u \in Int
  PROVE  /\ (u + 1) * NANOSMOD = u * NANOSMOD + NANOSMOD
         /\ (u - 1) * NANOSMOD = u * NANOSMOD - NANOSMOD
         /\ u * NANOSMOD \in Int
BY MoneyAssumption

\* The nanos of a sum of units.
LEMMA SumOfUnits ==
  ASSUME NEW u \in Int, NEW v \in Int
  PROVE  (u + v) * NANOSMOD = u * NANOSMOD + v * NANOSMOD
BY MoneyAssumption

\* The components of an amount.
LEMMA AmountFields ==
  ASSUME NEW u \in Int, NEW k \in Int
  PROVE  /\ Amount(u, k) \in Money
         /\ Amount(u, k).units = u /\ Amount(u, k).nanos = k
         /\ Value(Amount(u, k)) = u * NANOSMOD + k
BY MoneyAssumption DEF Amount, Money, Value

\* What has to be shown of the units and nanos of an amount.
LEMMA MakeAmount ==
  ASSUME NEW u \in Nat, NEW k \in Int, -NANOSMOD < k, k < NANOSMOD, k < 0 => u = 1
  PROVE  Amount(u, k) \in Amounts
BY AmountFields DEF Amounts, InRange

\* Carrying: the nanos of the sum are not negative (utilities.h:20).
LEMMA CarryOK ==
  ASSUME NEW u \in Nat, NEW k \in Nat, k < NANOSMOD + NANOSMOD
  PROVE  Carry(u, k) \in Amounts /\ Value(Carry(u, k)) = u * NANOSMOD + k
<1>1. NANOSMOD \in Nat /\ NANOSMOD > 0
  BY MoneyAssumption
<1>2. CASE k < NANOSMOD
  <2>1. Carry(u, k) = Amount(u, k)
    BY <1>2, CarryAtMostOne DEF Carry
  <2>2. Amount(u, k) \in Amounts
    BY <1>1, <1>2, MakeAmount
  <2>3. Value(Amount(u, k)) = u * NANOSMOD + k
    <3>1. u \in Int /\ k \in Int
      OBVIOUS
    <3> QED
      BY <3>1, AmountFields, Zenon
  <2> QED
    BY <2>1, <2>2, <2>3
<1>3. CASE k >= NANOSMOD
  <2>1. Carry(u, k) = Amount(u + 1, k - NANOSMOD)
    BY <1>3, CarryAtMostOne DEF Carry
  <2>2. Amount(u + 1, k - NANOSMOD) \in Amounts
    BY <1>1, <1>3, MakeAmount
  <2>3. Value(Amount(u + 1, k - NANOSMOD)) = (u + 1) * NANOSMOD + (k - NANOSMOD)
    <3>1. u + 1 \in Int /\ k - NANOSMOD \in Int
      BY <1>1
    <3> QED
      BY <3>1, AmountFields, Zenon
  <2> QED
    BY <1>1, <2>1, <2>2, <2>3, OneUnit
<1> QED
  BY <1>1, <1>2, <1>3

\* Borrowing: there are no units, or the nanos of the sum are negative
\* (utilities.h:23).
LEMMA BorrowOK ==
  ASSUME NEW u \in Nat, NEW k \in Int,
         \/ u = 0 /\ 0 < k /\ k < NANOSMOD + NANOSMOD
         \/ u > 0 /\ k < 0 /\ -NANOSMOD < k
         \/ u = 2 /\ k < 0 /\ -(NANOSMOD + NANOSMOD) < k
  PROVE  Borrow(u, k) \in Amounts /\ Value(Borrow(u, k)) = u * NANOSMOD + k
<1>1. NANOSMOD \in Nat /\ NANOSMOD > 0
  BY MoneyAssumption
<1>2. CASE u = 0
  <2>1. Borrow(u, k) = Amount(u + 1, k - NANOSMOD)
    BY <1>2 DEF Borrow
  <2>2. Amount(u + 1, k - NANOSMOD) \in Amounts
    BY <1>1, <1>2, MakeAmount
  <2>3. Value(Amount(u + 1, k - NANOSMOD)) = (u + 1) * NANOSMOD + (k - NANOSMOD)
    <3>1. u + 1 \in Int /\ k - NANOSMOD \in Int
      BY <1>1
    <3> QED
      BY <3>1, AmountFields, Zenon
  <2> QED
    BY <1>1, <2>1, <2>2, <2>3, OneUnit
<1>3. CASE u > 0
  <2>1. Borrow(u, k) = Amount(u - 1, k + NANOSMOD)
    BY <1>3 DEF Borrow
  <2>2. Amount(u - 1, k + NANOSMOD) \in Amounts
    BY <1>1, <1>3, MakeAmount
  <2>3. Value(Amount(u - 1, k + NANOSMOD)) = (u - 1) * NANOSMOD + (k + NANOSMOD)
    <3>1. u - 1 \in Int /\ k + NANOSMOD \in Int
      BY <1>1
    <3> QED
      BY <3>1, AmountFields, Zenon
  <2> QED
    BY <1>1, <2>1, <2>2, <2>3, OneUnit
<1> QED
  BY <1>2, <1>3

\* The sum of two amounts is an amount, and its value the sum of theirs.
LEMMA MoneySumOK ==
  ASSUME NEW t \in Amounts, NEW a \in Amounts
  PROVE  MoneySum(t, a) \in Amounts /\ Value(MoneySum(t, a)) = Value(t) + Value(a)
<1> DEFINE u == t.units + a.units
           k == t.nanos + a.nanos
<1>1. /\ t.units \in Nat /\ a.units \in Nat /\ t.nanos \in Int /\ a.nanos \in Int
      /\ -NANOSMOD < t.nanos /\ t.nanos < NANOSMOD /\ (t.nanos < 0 => t.units = 1)
      /\ -NANOSMOD < a.nanos /\ a.nanos < NANOSMOD /\ (a.nanos < 0 => a.units = 1)
  BY DEF Amounts, Money, InRange
<1>2. NANOSMOD \in Nat /\ NANOSMOD > 0
  BY MoneyAssumption
<1>3. u \in Nat /\ k \in Int
  BY <1>1
<1>4. SameSign(u, k) => k \in Nat /\ k < NANOSMOD + NANOSMOD
  BY <1>1, <1>2 DEF SameSign
<1>5. ~SameSign(u, k) =>
        \/ u = 0 /\ 0 < k /\ k < NANOSMOD + NANOSMOD
        \/ u > 0 /\ k < 0 /\ -NANOSMOD < k
        \/ u = 2 /\ k < 0 /\ -(NANOSMOD + NANOSMOD) < k
  BY <1>1, <1>2 DEF SameSign
<1>6. u * NANOSMOD + k = Value(t) + Value(a)
  <2>1. u * NANOSMOD = t.units * NANOSMOD + a.units * NANOSMOD
    <3>1. t.units \in Int /\ a.units \in Int
      BY <1>1
    <3> QED
      BY <3>1, SumOfUnits, Zenon
  <2>2. t.units * NANOSMOD \in Int /\ a.units * NANOSMOD \in Int
    BY <1>1, OneUnit
  <2> QED
    BY <1>1, <2>1, <2>2 DEF Value
<1>7. MoneySum(t, a) = IF SameSign(u, k) THEN Carry(u, k) ELSE Borrow(u, k)
  BY DEF MoneySum
<1> HIDE DEF u, k
<1>8. CASE SameSign(u, k)
  BY <1>3, <1>4, <1>6, <1>7, <1>8, CarryOK
<1>9. CASE ~SameSign(u, k)
  BY <1>3, <1>5, <1>6, <1>7, <1>9, BorrowOK
<1> QED
  BY <1>8, <1>9

-----------------------------------------------------------------------------
(* The total *)

\* Prices are amounts.
LEMMA PriceIsAmount == Prices \subseteq Amounts
BY OrderAssumption DEF Amounts, Money

\* The value of an amount is an integer.
LEMMA ValueType == \A m \in Amounts : Value(m) \in Int
<1> SUFFICES ASSUME NEW m \in Amounts PROVE Value(m) \in Int
  OBVIOUS
<1>1. m.units \in Int /\ m.nanos \in Int
  BY DEF Amounts, Money
<1> QED
  BY <1>1, OneUnit DEF Value


\* So is that of any money, and a price's is not negative.
LEMMA ValueOfMoney == \A m \in Money : Value(m) \in Int
<1> SUFFICES ASSUME NEW m \in Money PROVE Value(m) \in Int
  OBVIOUS
<1>1. m.units \in Int /\ m.nanos \in Int
  BY DEF Money
<1> QED
  BY <1>1, OneUnit DEF Value

LEMMA PriceValue == \A m \in Prices : Value(m) \in Nat
<1> SUFFICES ASSUME NEW m \in Prices PROVE Value(m) \in Nat
  OBVIOUS
<1>1. m.units \in Nat /\ m.nanos \in Nat
  BY OrderAssumption DEF Money
<1>2. m.units * NANOSMOD \in Nat
  BY <1>1, MoneyAssumption
<1> QED
  BY <1>1, <1>2 DEF Value

\* Nothing was added yet.
LEMMA TotalInvInit == Init => TotalInv /\ RightInv
<1> SUFFICES ASSUME Init PROVE TotalInv /\ RightInv
  OBVIOUS
<1>1. NANOSMOD \in Nat /\ NANOSMOD > 0 /\ MaxItems \in Nat
  BY MoneyAssumption, OrderAssumption
<1>2. Amount(0, 0) \in Amounts /\ Amount(0, 0) \in Money
  BY <1>1, MakeAmount, AmountFields
<1>3. Value(Amount(0, 0)) = 0
  BY <1>1, AmountFields
<1>4. TotalInv
  <2>1. item \in [cost : Money, quantity : Nat]
    BY <1>2 DEF Init
  <2>2. added \in 0 .. MaxItems + 1 /\ n \in Nat
    <3>1. added = 0 /\ n = 0
      BY DEF Init
    <3> QED
      BY <1>1, <3>1
  <2>3. TypeOK
    <3>1. total \in Money /\ price \in Money
      BY <1>2 DEF Init
    <3>2. exact = 0 /\ sum = 0 /\ due = 0 /\ odd = FALSE
      BY DEF Init
    <3>3. exact \in Int /\ sum \in Int /\ due \in Int
      BY <3>2
    <3>4. odd \in BOOLEAN
      BY <3>2
    <3> QED
      BY <2>1, <2>2, <3>1, <3>3, <3>4 DEF TypeOK
  <2>4. TotalExact
    BY <1>3 DEF Init, TotalExact
  <2> QED
    BY <1>2, <2>3, <2>4 DEF Init, TotalInv
<1>5. RightInv
  BY <1>3 DEF Init, RightInv
<1> QED
  BY <1>4, <1>5

\* Every addition and doubling keeps the invariant.
LEMMA TotalInvNext == TotalInv /\ [Next]_vars => TotalInv'
<1> SUFFICES ASSUME TotalInv, [Next]_vars PROVE TotalInv'
  OBVIOUS
<1>1. Amounts \subseteq Money
  BY DEF Amounts
<1>2. CASE Shipping
  <2>1. PICK cost \in Prices : total' = MoneySum(total, cost) /\ sum' = sum + Value(cost)
                            /\ due' = due + Value(cost)
    BY <1>2 DEF Shipping
  <2>2. cost \in Amounts /\ Value(cost) \in Int
    BY PriceIsAmount, ValueType
  <2>3. total' \in Amounts /\ Value(total') = Value(total) + Value(cost)
    BY <2>1, <2>2, MoneySumOK DEF TotalInv
  <2>4. added' \in 0 .. MaxItems + 1 /\ UNCHANGED <<item, price, n, exact, odd>>
    BY <1>2, OrderAssumption DEF Shipping
  <2>5. TotalExact'
    BY <2>1, <2>3, <2>4 DEF TotalInv, TotalExact
  <2> QED
    BY <1>1, <2>1, <2>2, <2>3, <2>4, <2>5 DEF TotalInv, TypeOK
<1>3. CASE NextItem
  <2>1. PICK cost \in Prices, q \in Quantities :
          /\ item' = [cost |-> cost, quantity |-> q]
          /\ price' = cost /\ exact' = Value(cost) /\ n' = IF q = 0 THEN 1 ELSE q
    BY <1>3 DEF NextItem, Times
  <2>2. cost \in Amounts /\ Value(cost) \in Int /\ q \in Nat
    BY PriceIsAmount, ValueType, OrderAssumption
  <2>3. added' \in 0 .. MaxItems + 1 /\ UNCHANGED <<total, sum, due, odd>>
    BY <1>3, OrderAssumption DEF NextItem, TotalInv, TypeOK
  <2>4. TotalExact'
    BY <2>1, <2>3 DEF TotalInv, TotalExact
  <2> QED
    BY <1>1, <2>1, <2>2, <2>3, <2>4 DEF TotalInv, TypeOK
<1>4. CASE Double
  <2>1. /\ price' = MoneySum(price, price) /\ exact' = exact + exact /\ n' = n - 1
        /\ n > 1 /\ UNCHANGED <<total, added, item, sum, due, odd>>
    BY <1>4 DEF Double
  <2>2. price' \in Amounts /\ Value(price') = Value(price) + Value(price)
    BY <2>1, MoneySumOK DEF TotalInv
  <2>3. TotalExact'
    BY <2>1, <2>2 DEF TotalInv, TotalExact
  <2>4. n' \in Nat /\ exact' \in Int
    BY <2>1 DEF TotalInv, TypeOK
  <2> QED
    BY <1>1, <2>1, <2>2, <2>3, <2>4 DEF TotalInv, TypeOK
<1>5. CASE AddItem
  <2>1. /\ total' = MoneySum(total, price) /\ sum' = sum + exact /\ n' = 0
        /\ due' = due + item.quantity * Value(item.cost) /\ odd' \in BOOLEAN
        /\ UNCHANGED <<added, item, price, exact>>
    BY <1>5 DEF AddItem
  <2>2. total' \in Amounts /\ Value(total') = Value(total) + Value(price)
    BY <2>1, MoneySumOK DEF TotalInv
  <2>3. TotalExact'
    BY <2>1, <2>2 DEF TotalInv, TotalExact
  <2>4. sum' \in Int /\ due' \in Int
    <3>1. item.quantity * Value(item.cost) \in Int
      <4>1. item.quantity \in Nat /\ Value(item.cost) \in Int
        BY ValueOfMoney DEF TotalInv, TypeOK
      <4> QED
        BY <4>1
    <3> QED
      BY <2>1, <3>1 DEF TotalInv, TypeOK
  <2> QED
    BY <1>1, <2>1, <2>2, <2>3, <2>4 DEF TotalInv, TypeOK
<1>6. CASE UNCHANGED vars
  BY <1>6 DEF vars, TotalInv, TypeOK, TotalExact
<1> QED
  BY <1>2, <1>3, <1>4, <1>5, <1>6 DEF Next

\* The multiple of a price.
LEMMA Multiple ==
  ASSUME NEW k \in Nat \ {0}, NEW v \in Nat
  PROVE  \E p \in Nat : p = k * v /\ (k + 1) * v = p + v /\ p >= v
<1>1. PICK p \in Nat : p = k * v
  OBVIOUS
<1>2. (k + 1) * v = p + v
  BY <1>1
<1>3. p = (k - 1) * v + v /\ (k - 1) * v \in Nat
  BY <1>1
<1>4. p >= v
  BY <1>3
<1> QED
  BY <1>1, <1>2, <1>4

\* A round of the loop doubles what should grow by one price.
LEMMA CountOn ==
  ASSUME NEW e \in Int, NEW v \in Nat, NEW k \in Nat \ {0}, Counted(e, v, k)
  PROVE  Counted(e + e, v, k + 1)
<1>1. CASE k = 1
  BY <1>1 DEF Counted
<1>2. CASE k = 2
  BY <1>2 DEF Counted
<1>3. CASE k > 2
  <2>1. PICK p \in Nat : p = k * v /\ (k + 1) * v = p + v /\ p >= v
    BY Multiple
  <2>2. IF v = 0 THEN e = 0 ELSE e > p
    BY <1>3, <2>1 DEF Counted
  <2>3. IF v = 0 THEN e + e = 0 ELSE e + e > p + v
    BY <2>1, <2>2
  <2>4. k + 1 \notin {1, 2}
    BY <1>3
  <2> QED
    BY <2>1, <2>3, <2>4 DEF Counted
<1> QED
  BY <1>1, <1>2, <1>3

LEMMA RightInvNext == TotalInv /\ RightInv /\ [Next]_vars => RightInv'
<1> SUFFICES ASSUME TotalInv, RightInv, [Next]_vars PROVE RightInv'
  OBVIOUS
<1> DEFINE v == Value(item.cost)
           q == item.quantity
<1>1. /\ v \in Nat /\ q \in Nat /\ n \in Nat /\ exact \in Int /\ sum \in Int /\ due \in Int
      /\ odd \in BOOLEAN
  BY DEF TotalInv, TypeOK, RightInv
<1>2. CASE Shipping
  <2>1. PICK cost \in Prices : sum' = sum + Value(cost) /\ due' = due + Value(cost)
    BY <1>2 DEF Shipping
  <2>2. Value(cost) \in Int
    BY PriceIsAmount, ValueType
  <2>3. UNCHANGED <<item, n, exact, odd>>
    BY <1>2 DEF Shipping
  <2>4. sum' >= due' /\ (sum' = due' <=> ~odd')
    BY <1>1, <2>1, <2>2, <2>3 DEF RightInv
  <2> QED
    BY <2>3, <2>4 DEF RightInv
<1>3. CASE NextItem
  <2>1. PICK cost \in Prices, r \in Quantities :
          /\ item' = [cost |-> cost, quantity |-> r]
          /\ exact' = Value(cost) /\ n' = IF r = 0 THEN 1 ELSE r
    BY <1>3 DEF NextItem, Times
  <2>2. UNCHANGED <<sum, due, odd>>
    BY <1>3 DEF NextItem
  <2>3. r \in Nat /\ Value(cost) \in Nat
    BY PriceValue, OrderAssumption
  <2>4. Counted(exact', Value(item'.cost), 1)
    BY <2>1, <2>3 DEF Counted
  <2>5. item'.cost = cost /\ item'.quantity = r
    BY <2>1
  <2>6. r # 0 => r - n' + 1 = 1 /\ n' = r /\ r <= r
    BY <2>1, <2>3
  <2> QED
    BY <2>1, <2>2, <2>3, <2>4, <2>5, <2>6 DEF RightInv
<1>4. CASE Double
  <2>1. n > 1 /\ exact' = exact + exact /\ n' = n - 1 /\ UNCHANGED <<item, sum, due, odd>>
    BY <1>4 DEF Double
  <2>2. q # 0 /\ n <= q /\ Counted(exact, v, q - n + 1)
    BY <1>1, <2>1 DEF RightInv
  <2>3. q - n + 1 \in Nat \ {0} /\ (q - n + 1) + 1 = q - n' + 1 /\ n' <= q
    BY <1>1, <2>1, <2>2
  <2>4. Counted(exact + exact, v, q - n' + 1)
    <3> HIDE DEF v, q
    <3>1. Counted(exact + exact, v, (q - n + 1) + 1)
      BY <1>1, <2>2, <2>3, CountOn
    <3> QED
      BY <2>3, <3>1
  <2> QED
    BY <2>1, <2>2, <2>3, <2>4 DEF RightInv
<1>5. CASE AddItem
  <2>1. /\ n = 1 /\ n' = 0 /\ sum' = sum + exact /\ due' = due + q * v
        /\ odd' = (odd \/ (q \notin {1, 2} /\ v > 0)) /\ item' = item
    BY <1>5 DEF AddItem
  <2>2. PICK p \in Nat : p = q * v
    BY <1>1
  <2>3. exact >= p /\ (exact = p <=> ~(q \notin {1, 2} /\ v > 0))
    <3>1. CASE q = 0
      <4>1. exact = v /\ p = 0
        BY <1>1, <2>1, <2>2, <3>1 DEF RightInv
      <4> QED
        BY <1>1, <3>1, <4>1
    <3>2. CASE q # 0
      <4>1. q - n + 1 = q /\ Counted(exact, v, q - n + 1)
        BY <1>1, <2>1, <3>2 DEF RightInv
      <4>2. Counted(exact, v, q)
        BY <4>1
      <4>3. (q \in {1, 2} => exact = p) /\ (q > 2 => IF v = 0 THEN exact = 0 ELSE exact > p)
        BY <2>2, <4>2 DEF Counted
      <4>4. CASE q \in {1, 2}
        BY <4>3, <4>4, <2>2
      <4>5. CASE q > 2 /\ v > 0
        BY <1>1, <4>3, <4>5, <2>2
      <4>6. CASE q > 2 /\ v = 0
        <5>1. exact = 0 /\ p = 0
          BY <1>1, <2>2, <4>3, <4>6
        <5> QED
          BY <5>1, <4>6
      <4> QED
        BY <1>1, <3>2, <4>4, <4>5, <4>6
    <3> QED
      BY <3>1, <3>2
  <2> HIDE DEF v, q
  <2>4. sum' >= due' /\ (sum' = due' <=> ~odd')
    <3>1. sum >= due /\ (sum = due <=> ~odd)
      BY DEF RightInv
    <3>2. sum' = sum + exact /\ due' = due + p
      BY <2>1, <2>2
    <3>3. sum' >= due' /\ (sum' = due' <=> sum = due /\ exact = p)
      BY <1>1, <2>2, <2>3, <3>1, <3>2
    <3>4. ~odd' <=> ~odd /\ ~(q \notin {1, 2} /\ v > 0)
      BY <2>1
    <3> QED
      BY <2>3, <3>1, <3>3, <3>4
  <2> USE DEF v, q
  <2> QED
    BY <2>1, <2>4 DEF RightInv
<1>6. CASE UNCHANGED vars
  BY <1>6 DEF vars, RightInv
<1> QED
  BY <1>2, <1>3, <1>4, <1>5, <1>6 DEF Next

\* The invariant holds in every reachable state.
THEOREM TotalInvariant == Spec => [](TotalInv /\ RightInv)
BY TotalInvInit, TotalInvNext, RightInvNext, PTL DEF Spec

\* Every variable has its type: the running total and the price being multiplied
\* stay amounts, and no more is added up than an order has.
THEOREM TypeCorrect == Spec => []TypeOK
<1>1. TotalInv => TypeOK
  BY DEF TotalInv
<1> QED
  BY <1>1, TotalInvariant, PTL

\* Carrying and borrowing neither lose nor make up a nano, over any order: the total
\* is what was added to it, and the multiplied price what doubling makes of it.
THEOREM TotalsAreExact == Spec => []TotalExact
<1>1. TotalInv => TotalExact
  BY DEF TotalInv
<1> QED
  BY <1>1, TotalInvariant, PTL

\* The total is right to the last nano for an order of ones and twos, and too high as
\* soon as it has another quantity of something that costs anything (utilities.h:36).
THEOREM TotalsRightUpToTwo == Spec => []TotalRight
<1>1. TotalInv /\ RightInv => TotalRight
  BY DEF TotalInv, TotalExact, RightInv, TotalRight
<1> QED
  BY <1>1, TotalInvariant, PTL

\* "nanos guaranteed to not to go over the limit" (utilities.h:24) holds for every
\* order, although sums may be off in sign.
THEOREM NanosStayWithinLimit == Spec => []NanosWithinLimit
<1>1. TotalInv => NanosWithinLimit
  BY DEF TotalInv, NanosWithinLimit, Amounts
<1> QED
  BY <1>1, TotalInvariant, PTL

\* "If `units` is positive, `nanos` must be positive or zero" (message.h:134): sums
\* do not keep to that, but only below one unit, written as one unit less the rest.
THEOREM OffSignCharacterised ==
  Spec => [](\A m \in {total, price} : ~SignsAgree(m) => 0 < Value(m) /\ Value(m) < NANOSMOD)
<1>1. TotalInv => \A m \in {total, price} : ~SignsAgree(m) => 0 < Value(m) /\ Value(m) < NANOSMOD
  <2> SUFFICES ASSUME TotalInv, NEW m \in {total, price}, ~SignsAgree(m)
               PROVE  0 < Value(m) /\ Value(m) < NANOSMOD
    OBVIOUS
  <2>1. /\ m.units \in Nat /\ m.nanos \in Int /\ -NANOSMOD < m.nanos
        /\ (m.nanos < 0 => m.units = 1)
    BY DEF TotalInv, Amounts, Money, InRange
  <2>2. m.nanos < 0 /\ m.units = 1
    BY <2>1 DEF SignsAgree
  <2>3. Value(m) = NANOSMOD + m.nanos
    BY <2>2, MoneyAssumption DEF Value
  <2> QED
    BY <2>1, <2>2, <2>3, MoneyAssumption
<1> QED
  BY <1>1, TotalInvariant, PTL

\* Such amounts there are: a price below one unit, added to a total of none.
LEMMA OffSignOccurs ==
  ASSUME NEW k \in 1 .. NANOSMOD - 1
  PROVE  /\ MoneySum(Amount(0, 0), Amount(0, k)) = Amount(1, k - NANOSMOD)
         /\ ~SignsAgree(Amount(1, k - NANOSMOD))
BY MoneyAssumption DEF MoneySum, Amount, SameSign, Borrow, SignsAgree

=============================================================================
