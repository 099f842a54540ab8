------------------------------- MODULE Money -------------------------------
(***************************************************************************)
(* The arithmetic on amounts of money of utilities.h, which checkout and   *)
(* frontend total orders and carts with.  The currency is left out: the    *)
(* code never compares it.                                                 *)
(***************************************************************************)
EXTENDS Integers

CONSTANT NANOSMOD  \* nanos per unit

ASSUME MoneyAssumption == NANOSMOD \in Nat \ {0}

Money == [units : Int, nanos : Int]

Amount(u, n) == [units |-> u, nanos |-> n]

\* The division and remainder of C, which round towards zero.
Quot(a, b) == IF a >= 0 THEN a \div b ELSE -((-a) \div b)
Rem(a, b) == IF a >= 0 THEN a % b ELSE -((-a) % b)

\* "same sign <units, nanos>"
SameSign(u, n) ==
  \/ u = 0 /\ n = 0
  \/ u > 0 /\ n >= 0
  \/ u < 0 /\ n <= 0

\* One unit is exchanged for nanos.
Borrow_OneWay(u, n) == Amount(u - 1, n + NANOSMOD)
Borrow(u, n) == IF u > 0 THEN Amount(u - 1, n + NANOSMOD)
                         ELSE Amount(u + 1, n - NANOSMOD)

\* Nanos beyond a unit are carried.
Carry_NotReduced(u, n) == Amount(u + Quot(n, NANOSMOD), n)
Carry(u, n) == Amount(u + Quot(n, NANOSMOD), Rem(n, NANOSMOD))

MoneySum(total, add) ==
  LET u == total.units + add.units
      n == total.nanos + add.nanos
  IN IF SameSign(u, n) THEN Carry(u, n) ELSE Borrow(u, n)

\* Adds the running amount to itself n - 1 times.
MoneyMultiplySlow(total, n) ==
  LET times == IF n > 1 THEN n - 1 ELSE 0
      after[k \in 0 .. times] == IF k = 0 THEN total ELSE MoneySum(after[k - 1], after[k - 1])
  IN after[times]

\* The amount, in nanos.
Value(m) == m.units * NANOSMOD + m.nanos

\* What message.h:132-136 asks of an amount: nanos below a unit, and of the sign
\* of the units.
InRange(m) == -NANOSMOD < m.nanos /\ m.nanos < NANOSMOD
SignsAgree(m) == /\ m.units > 0 => m.nanos >= 0
                 /\ m.units < 0 => m.nanos <= 0

=============================================================================
