----------------------------- MODULE MCFrontend -----------------------------
(* Frontend with one product in the catalog, and four nanos to a unit. *)
EXTENDS Frontend, TLC

CONSTANTS p1, eur, clothing

MCPriceUsd == p1 :> Amount(3, 2)
MCAdFor == clothing :> p1
MCRate == (eur :> <<1, 1>>) @@ (USD :> <<9, 8>>) @@ (CAD :> <<3, 2>>)
MCQuoteUsd == Amount(2, 3)

=============================================================================
