------------------------------ MODULE Checkout ------------------------------
(***************************************************************************)
(* The checkout service: PlaceOrder, a sequence of RPCs to the cart,       *)
(* catalog, currency, shipping, payment and email services.  Several       *)
(* orders are in progress at once, each in a coroutine (ServiceAsync shows *)
(* that each gets the responses to its own calls).  A step is the response *)
(* to an RPC, with all the coroutine does up to its next RPC.              *)
(*                                                                         *)
(* A price is named by the item it is the price of and its currency, and a *)
(* total is the list of the prices added up: OrderTotal models the sums.   *)
(* The cart service may return any cart.                                   *)
(***************************************************************************)
EXTENDS Payment, FiniteSets, FiniteSetsExt

CONSTANTS
  Orders,      \* the orders placed
  Items,       \* the items (product and quantity) carts hold
  Catalog,     \* those whose product is in the catalog
  Cards,       \* the cards orders are paid with
  Currencies,  \* the currencies orders are placed in
  Supported,   \* those the currency service knows
  Garbage,     \* what a response holds when the service wrote nothing to it
  MaxItems,    \* the length of Cart.Items
  PoolSize     \* buffers the other services leave to checkout

ASSUME CheckoutAssumption ==
  /\ IsFiniteSet(Orders)
  /\ Catalog \subseteq Items
  /\ Garbage \notin Items
  /\ Cards \subseteq Card
  /\ Supported \subseteq Currencies
  /\ MaxItems \in Nat
  /\ PoolSize \in Nat

VARIABLES
  pc,       \* pc[o]: the RPC order o waits for
  req,      \* req[o]: the card and the currency of rr->req
  cart,     \* cart[o]: the items in cart_desc, then in order->Items
  price,    \* price[o]: the item whose price the catalog returned last
  costs,    \* costs[o]: the Cost of order->Items
  quoted,   \* quoted[o]: the items whose shipping was quoted
  charged,  \* charged[o]: what the amount sent to the payment service is the sum of
  paid,     \* paid[o]: whether the payment service made a transaction
  shipped,  \* shipped[o]: the items sent to the shipping service
  pool,     \* buffers in the pool
  status    \* "run", or "exit" after exit(1)

vars == <<pc, req, cart, price, costs, quoted, charged, paid, shipped, pool, status>>

RPCs == {"cart", "product", "convert", "quote", "localize", "charge", "ship",
         "empty", "confirm"}

Nothing == << >>

Cost == [of : Items, in : Currencies]
Amount == [shipping : Seq(Items), in : Currencies, costs : Seq(Cost)]

TypeOK ==
  /\ pc \in [Orders -> RPCs \cup {"new", "done"}]
  /\ \A o \in Orders : req[o] = Nothing \/ req[o] \in [card : Cards, currency : Currencies]
  /\ cart \in [Orders -> Seq(Items)] /\ \A o \in Orders : Len(cart[o]) <= MaxItems
  /\ price \in [Orders -> Catalog \cup {Garbage}]
  /\ costs \in [Orders -> Seq(Cost)]
  /\ quoted \in [Orders -> Seq(Items)]
  /\ \A o \in Orders : charged[o] = Nothing \/ charged[o] \in Amount
  /\ paid \in [Orders -> BOOLEAN]
  /\ shipped \in [Orders -> Seq(Items)]
  /\ pool \in 0 .. PoolSize
  /\ status \in {"run", "exit"}

Init ==
  /\ pc = [o \in Orders |-> "new"]
  /\ req = [o \in Orders |-> Nothing]
  /\ cart = [o \in Orders |-> << >>]
  /\ price = [o \in Orders |-> Garbage]
  /\ costs = [o \in Orders |-> << >>]
  /\ quoted = [o \in Orders |-> << >>]
  /\ charged = [o \in Orders |-> Nothing]
  /\ paid = [o \in Orders |-> FALSE]
  /\ shipped = [o \in Orders |-> << >>]
  /\ pool = PoolSize
  /\ status = "run"

-----------------------------------------------------------------------------
(* PlaceOrder *)

\* Order o receives the response to one RPC and runs to the next one.
Step(o, from, to) ==
  /\ status = "run"
  /\ pc[o] = from
  /\ pc' = [pc EXCEPT ![o] = to]
  /\ UNCHANGED status

\* The request arrives: buffers for the order and for its cart.
Begin(o) ==
  /\ Step(o, "new", "cart")
  /\ pool >= 2
  /\ pool' = pool - 2
  /\ \E card \in Cards, cur \in Currencies :
       req' = [req EXCEPT ![o] = [card |-> card, currency |-> cur]]
  /\ UNCHANGED <<cart, price, costs, quoted, charged, paid, shipped>>

Carts == UNION {[1 .. n -> Items] : n \in 0 .. MaxItems}

\* getUserCart returns.  A buffer for prepOrderItems, which without items is put
\* back and taken again for the quote.
CartReply(o) ==
  /\ \E s \in Carts :
       /\ Step(o, "cart", IF s = << >> THEN "quote" ELSE "product")
       /\ cart' = [cart EXCEPT ![o] = s]
  /\ pool >= 1
  /\ pool' = pool - 1
  /\ UNCHANGED <<req, price, costs, quoted, charged, paid, shipped>>

\* cart->Items[i]
ItemAt(o) == cart[o][Len(costs[o]) + 1]

\* getProduct returns.  For a product that is not in the catalog the response
\* holds whatever was in the buffer: another product, or no product at all.
ProductReply(o) ==
  /\ Step(o, "product", "convert")
  /\ \E p \in IF ItemAt(o) \in Catalog THEN {ItemAt(o)} ELSE Catalog \cup {Garbage} :
       price' = [price EXCEPT ![o] = p]
  /\ UNCHANGED <<req, cart, costs, quoted, charged, paid, shipped, pool>>

\* i < cart->num_items after i++
MoreItems_OneShort(o) == Len(costs[o]) + 2 < Len(cart[o])
MoreItems(o) == Len(costs[o]) + 1 < Len(cart[o])

Converts(o) == req[o].currency \in Supported

\* convertCurrency returns, to prepOrderItems.  After the last item its buffer
\* is put back and one is taken for the quote.
ConvertReply(o) ==
  /\ Step(o, "convert", IF MoreItems(o) THEN "product" ELSE "quote")
  /\ Converts(o) /\ price[o] # Garbage
  /\ costs' = [costs EXCEPT ![o] = Append(@, [of |-> price[o], in |-> req[o].currency])]
  /\ UNCHANGED <<req, cart, price, quoted, charged, paid, shipped, pool>>

\* quoteShipping returns.
QuoteReply(o) ==
  /\ Step(o, "quote", "localize")
  /\ quoted' = [quoted EXCEPT ![o] = cart[o]]
  /\ UNCHANGED <<req, cart, price, costs, charged, paid, shipped, pool>>

\* The buffers of quote and cart are put back.
PutBoth == pool + 2

\* convertCurrency returns, to prepareOrderItemsAndShippingQuoteFromCart; the
\* amounts are added up and the card is charged.
ConvertQuoteReply(o) ==
  /\ Step(o, "localize", "charge")
  /\ Converts(o)
  /\ charged' = [charged EXCEPT ![o] = [shipping |-> quoted[o], in |-> req[o].currency,
                                        costs |-> costs[o]]]
  /\ pool' = PutBoth
  /\ UNCHANGED <<req, cart, price, costs, quoted, paid, shipped>>

\* The cards for which the payment service makes a transaction.
Approved == {c \in Cards : Charge(c)}

\* chargeCard returns, with a transaction id or without.
ChargeReply(o) ==
  /\ Step(o, "charge", "ship")
  /\ paid' = [paid EXCEPT ![o] = req[o].card \in Approved]
  /\ UNCHANGED <<req, cart, price, costs, quoted, charged, shipped, pool>>

ShipReply(o) ==
  /\ Step(o, "ship", "empty")
  /\ shipped' = [shipped EXCEPT ![o] = cart[o]]
  /\ UNCHANGED <<req, cart, price, costs, quoted, charged, paid, pool>>

EmptyReply(o) ==
  /\ Step(o, "empty", "confirm")
  /\ UNCHANGED <<req, cart, price, costs, quoted, charged, paid, shipped, pool>>

PutOrder_Not == pool
PutOrder == pool + 1

\* sendOrderConfirmation returns, and PlaceOrder does.
ConfirmReply(o) ==
  /\ Step(o, "confirm", "done")
  /\ pool' = PutOrder
  /\ UNCHANGED <<req, cart, price, costs, quoted, charged, paid, shipped>>

\* exit(1): no buffer; or the currency service, asked to convert from or to a
\* currency it does not know, exits, and checkout with it when it finds the
\* connection closed.
NoBuffer(o) == \/ pc[o] = "new" /\ pool < 2
               \/ pc[o] = "cart" /\ pool < 1

NoRate_Never(o) == FALSE
NoRate_Always(o) == pc[o] \in {"convert", "localize"}
NoRate(o) == \/ pc[o] = "convert" /\ (price[o] = Garbage \/ ~Converts(o))
             \/ pc[o] = "localize" /\ ~Converts(o)

Exit(o) ==
  /\ status = "run"
  /\ NoBuffer(o) \/ NoRate(o)
  /\ status' = "exit"
  /\ UNCHANGED <<pc, req, cart, price, costs, quoted, charged, paid, shipped, pool>>

PlaceOrder(o) ==
  \/ CartReply(o) \/ ProductReply(o) \/ ConvertReply(o) \/ QuoteReply(o)
  \/ ConvertQuoteReply(o) \/ ChargeReply(o) \/ ShipReply(o) \/ EmptyReply(o)
  \/ ConfirmReply(o) \/ Exit(o)

Next == \E o \in Orders : Begin(o) \/ PlaceOrder(o)

\* Every service answers every request, and the coroutine runtime resumes the
\* order (ServiceAsync).  Nobody need place an order.
Spec == Init /\ [][Next]_vars /\ \A o \in Orders : WF_vars(pc[o] # "new" /\ PlaceOrder(o))

-----------------------------------------------------------------------------
(* Properties *)

InProgress == {o \in Orders : pc[o] \in RPCs}

\* The buffers an order holds at most at a time.
PerOrder == 3

\* Every buffer an order took is back in the pool when it is done, however the
\* orders overlap and whichever way each went.
BuffersReturned ==
  /\ InProgress = {} => pool = PoolSize
  /\ pool + PerOrder * Cardinality(InProgress) >= PoolSize

\* Checkout exits for lack of buffers only when the pool is too small for the
\* orders in progress and the one that arrives; the other reason is an order in
\* a currency that is not supported, or of a product that is not in the catalog.
ExitNeedsCause ==
  status = "exit" =>
    \/ PoolSize < PerOrder * Cardinality(InProgress)
    \/ PoolSize < PerOrder * (Cardinality(InProgress) + 1) /\ \E o \in Orders : pc[o] = "new"
    \/ \E o \in InProgress : \/ req[o].currency \notin Supported
                             \/ \E i \in 1 .. Len(cart[o]) : cart[o][i] \notin Catalog

\* What is shipped is what was charged: one cost for each item, of that item if
\* it is in the catalog, the shipping of these items, all in the order's currency.
ShippedAsCharged ==
  \A o \in Orders : pc[o] \in {"empty", "confirm", "done"} =>
    LET c == charged[o].costs
    IN /\ charged[o].shipping = shipped[o]
       /\ charged[o].in = req[o].currency
       /\ Len(c) = Len(shipped[o])
       /\ \A i \in 1 .. Len(c) : /\ c[i].in = req[o].currency
                                 /\ shipped[o][i] \in Catalog => c[i].of = shipped[o][i]

\* The Luhn check: every second digit from the right is doubled, less 9 if that
\* has two digits.
Luhn(s) ==
  MapThenSumSet(LAMBDA j : LET d == s[j]
                           IN IF (Len(s) - j) % 2 = 0 THEN d
                              ELSE IF d > 4 THEN 2 * d - 9 ELSE 2 * d, 1 .. Len(s)) % 10 = 0

\* The cards with the length and prefix of a VISA or mastercard, digits that pass
\* the Luhn check, and an expiration date that has not passed.
GoodCards ==
  {c \in Cards : LET s == strtoll(c.number)
                 IN /\ \/ Len(s) \in 13 .. 16 /\ s[1] = 4
                       \/ Len(s) = 16 /\ s[1] = 5 /\ s[2] <= 5
                       \/ Len(s) = 16 /\ s[1] = 2 /\ s[2] \in 2 .. 7
                    /\ Luhn(s)
                    /\ Now <= c.expires}

\* "Only VISA and mastercard is accepted" (paymentservice/main.c:87): the payment
\* service makes a transaction exactly for the good cards.
AcceptedCards ==
  \A o \in Orders : pc[o] \in {"ship", "empty", "confirm", "done"} =>
    (paid[o] <=> req[o].card \in GoodCards)

\* Every order is completed, unless checkout exits.
EveryOrderCompleted ==
  \A o \in Orders : pc[o] = "cart" ~> (pc[o] = "done" \/ status = "exit")

\* "other card types (AMEX, dinersclub) will throw UnacceptedCreditCard error"
\* (paymentservice/main.c:88): an order whose card was refused is not shipped.
RefusedNotShipped ==
  \A o \in Orders : pc[o] \in {"empty", "confirm", "done"} => paid[o]

-----------------------------------------------------------------------------
(* The strengthenings that make the properties inductive *)

\* The orders that hold two buffers, three, and one.
Early == {o \in Orders : pc[o] = "cart"}
Middle == {o \in Orders : pc[o] \in {"product", "convert", "quote", "localize"}}
Late == {o \in Orders : pc[o] \in {"charge", "ship", "empty", "confirm"}}

BufferInv ==
  /\ pc \in [Orders -> RPCs \cup {"new", "done"}]
  /\ pool \in Nat
  /\ pool + 2 * Cardinality(Early) + 3 * Cardinality(Middle) + Cardinality(Late) = PoolSize

\* What an order has put together so far, by how far it has come.
OrderOK(o) ==
  /\ pc[o] # "new" => req[o].currency \in Currencies
  /\ pc[o] \in {"new", "cart"} => costs[o] = << >>
  /\ pc[o] \in {"product", "convert"} => Len(costs[o]) < Len(cart[o])
  /\ pc[o] = "convert" /\ ItemAt(o) \in Catalog => price[o] = ItemAt(o)
  /\ pc[o] \notin {"new", "cart", "product", "convert"} => Len(costs[o]) = Len(cart[o])
  /\ \A i \in 1 .. Len(costs[o]) :
       /\ costs[o][i].in = req[o].currency
       /\ cart[o][i] \in Catalog => costs[o][i].of = cart[o][i]
  /\ pc[o] \in {"localize", "charge", "ship", "empty", "confirm", "done"} => quoted[o] = cart[o]
  /\ pc[o] \in {"charge", "ship", "empty", "confirm", "done"} =>
       charged[o] = [shipping |-> cart[o], in |-> req[o].currency, costs |-> costs[o]]
  /\ pc[o] \in {"empty", "confirm", "done"} => shipped[o] = cart[o]

OrderInv ==
  /\ pc \in [Orders -> RPCs \cup {"new", "done"}]
  /\ req = [o \in Orders |-> req[o]]
  /\ cart \in [Orders -> Seq(Items)]
  /\ price \in [Orders -> Catalog \cup {Garbage}]
  /\ costs \in [Orders -> Seq(Cost)]
  /\ quoted = [o \in Orders |-> quoted[o]]
  /\ charged = [o \in Orders |-> charged[o]]
  /\ shipped = [o \in Orders |-> shipped[o]]
  /\ \A o \in Orders : OrderOK(o)

=============================================================================
