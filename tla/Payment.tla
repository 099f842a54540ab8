------------------------------ MODULE Payment ------------------------------
(***************************************************************************)
(* The payment service: which cards Charge accepts.  It keeps no state.    *)
(*                                                                         *)
(* A card number is a string of digits 0 .. 9 and other characters, for    *)
(* which 10 stands.                                                        *)
(***************************************************************************)
EXTENDS Integers, Sequences

CONSTANT Now  \* currentYear * 12 + currentMonth

ASSUME PaymentAssumption == Now \in Nat

Other == 10

Card == [number : Seq(0 .. 10), expires : Nat]

\* strtoll reads up to the first character that is not a digit; leading zeros
\* do not count.
strtoll(number) ==
  LET Stop  == {i \in 1 .. Len(number) : number[i] = Other}
      end   == IF Stop = {} THEN Len(number) ELSE (CHOOSE i \in Stop : \A j \in Stop : i <= j) - 1
      First == {i \in 1 .. end : number[i] # 0}
  IN IF First = {} THEN << >>
     ELSE SubSeq(number, CHOOSE i \in First : \A j \in First : i <= j, end)

get_digit_sum(n) == n \div 10 + (n % 10)

\* What the i-th digit from the right, counted from 0, adds to the checksum.
Weighted_Even(i, d) == IF i % 2 = 0 THEN get_digit_sum(2 * d) ELSE d
Weighted(i, d) == IF i % 2 = 1 THEN get_digit_sum(2 * d) ELSE d

Checksum(s) ==
  LET sum[i \in 0 .. Len(s)] ==
        IF i = 0 THEN 0 ELSE sum[i - 1] + Weighted(i - 1, s[Len(s) - i + 1])
  IN sum[Len(s)]

creditcard_validator(s) ==
  LET digits       == Len(s)
      first_digits == s[1] * 10 + s[2]
  IN IF digits < 2 \/ Checksum(s) % 10 # 0 THEN "invalid"
     ELSE CASE digits = 15 /\ first_digits \in {34, 37} -> "amex"
            [] digits = 16 /\ first_digits \in (50 .. 55) \cup (22 .. 27) -> "mastercard"
            [] digits \in 13 .. 16 /\ first_digits \div 10 = 4 -> "visa"
            [] OTHER -> "invalid"

Expired(card) == Now > card.expires

\* A transaction id is returned; otherwise the response is left as it was.
Charge(card) ==
  /\ creditcard_validator(strtoll(card.number)) \in {"visa", "mastercard"}
  /\ ~Expired(card)

=============================================================================
