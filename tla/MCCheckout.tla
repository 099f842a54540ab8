----------------------------- MODULE MCCheckout -----------------------------
(* Checkout with two overlapping orders. *)
EXTENDS Checkout

\* 4432801561520454, the number the load generator sends; the same in the form
\* card numbers are printed, and with two neighbouring digits exchanged.
Visa == <<4, 4, 3, 2, 8, 0, 1, 5, 6, 1, 5, 2, 0, 4, 5, 4>>
Dashed == <<4, 4, 3, 2, Other, 8, 0, 1, 5, Other, 6, 1, 5, 2, Other, 0, 4, 5, 4>>
Mistyped == <<4, 4, 3, 2, 8, 0, 1, 5, 6, 1, 5, 2, 4, 0, 5, 4>>

\* A mastercard number and an amex number.
Mastercard == <<5, 1, 0, 5, 1, 0, 5, 1, 0, 5, 1, 0, 5, 1, 0, 0>>
Amex == <<3, 4, 0, 0, 0, 0, 0, 0, 0, 0, 0, 0, 0, 0, 9>>

MCNow == 2022 * 12 + 5

\* Cards that are good until this month, and one that expired the month before.
MCCards ==
  {[number |-> n, expires |-> MCNow] : n \in {Visa, Dashed, Mistyped, Mastercard, Amex}}
  \cup {[number |-> Visa, expires |-> MCNow - 1]}

=============================================================================
