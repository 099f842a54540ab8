--------------------------- MODULE CheckoutProofs ---------------------------
(***************************************************************************)
(* Proofs about checkout, for every number of orders, every pool, all      *)
(* carts, cards and currencies.                                            *)
(***************************************************************************)
EXTENDS Checkout, FiniteSetTheorems, SequenceTheorems, WellFoundedInduction, TLAPS

-----------------------------------------------------------------------------
(* Buffers *)

\* The three groups of orders are finite, and apart.
LEMMA GroupsFinite ==
  /\ IsFiniteSet(Early) /\ IsFiniteSet(Middle) /\ IsFiniteSet(Late)
  /\ Cardinality(Early) \in Nat /\ Cardinality(Middle) \in Nat /\ Cardinality(Late) \in Nat
<1>1. Early \in SUBSET Orders /\ Middle \in SUBSET Orders /\ Late \in SUBSET Orders
  BY DEF Early, Middle, Late
<1>2. IsFiniteSet(Early) /\ IsFiniteSet(Middle) /\ IsFiniteSet(Late)
  BY <1>1, FS_Subset, CheckoutAssumption
<1> QED
  BY <1>2, FS_CardinalityType

\* The orders in progress, counted.
LEMMA CountInProgress ==
  /\ Cardinality(InProgress) = Cardinality(Early) + Cardinality(Middle) + Cardinality(Late)
  /\ InProgress = Early \cup Middle \cup Late
<1>1. InProgress = (Early \cup Middle) \cup Late
  BY DEF InProgress, Early, Middle, Late, RPCs
<1>2. Early \cap Middle = {} /\ (Early \cup Middle) \cap Late = {}
  BY DEF Early, Middle, Late
<1>3. /\ IsFiniteSet(Early \cup Middle)
      /\ Cardinality(Early \cup Middle)
           = Cardinality(Early) + Cardinality(Middle) - Cardinality(Early \cap Middle)
  BY GroupsFinite, FS_Union
<1>4. Cardinality((Early \cup Middle) \cup Late)
        = Cardinality(Early \cup Middle) + Cardinality(Late)
            - Cardinality((Early \cup Middle) \cap Late)
  BY <1>3, GroupsFinite, FS_Union
<1>5. Cardinality(Early \cap Middle) = 0 /\ Cardinality((Early \cup Middle) \cap Late) = 0
  BY <1>2, FS_EmptySet
<1> QED
  BY <1>1, <1>3, <1>4, <1>5, GroupsFinite

LEMMA BufferInvInit == Init => BufferInv
<1> SUFFICES ASSUME Init PROVE BufferInv
  OBVIOUS
<1>1. Early = {} /\ Middle = {} /\ Late = {}
  BY DEF Init, Early, Middle, Late
<1>2. Cardinality(Early) = 0 /\ Cardinality(Middle) = 0 /\ Cardinality(Late) = 0
  BY <1>1, FS_EmptySet
<1>3. pc \in [Orders -> RPCs \cup {"new", "done"}] /\ pool = PoolSize
  BY DEF Init
<1> QED
  BY <1>2, <1>3, CheckoutAssumption DEF BufferInv

\* Steps of an order that stays in its group.
LEMMA SameGroup ==
  ASSUME BufferInv, NEW o \in Orders, NEW to \in RPCs \cup {"new", "done"},
         pc' = [pc EXCEPT ![o] = to], pool' = pool,
         pc[o] = "cart" <=> to = "cart",
         pc[o] \in {"product", "convert", "quote", "localize"}
           <=> to \in {"product", "convert", "quote", "localize"},
         pc[o] \in {"charge", "ship", "empty", "confirm"}
           <=> to \in {"charge", "ship", "empty", "confirm"}
  PROVE  BufferInv'
<1>1. pc' \in [Orders -> RPCs \cup {"new", "done"}]
  BY DEF BufferInv
<1>2. Early' = Early /\ Middle' = Middle /\ Late' = Late
  BY DEF BufferInv, Early, Middle, Late
<1> QED
  BY <1>1, <1>2 DEF BufferInv

\* The group an order leaves, and the one it joins.
LEMMA Leave ==
  ASSUME NEW S, IsFiniteSet(S), NEW o \in S
  PROVE  Cardinality(S \ {o}) = Cardinality(S) - 1
BY FS_RemoveElement

LEMMA Join ==
  ASSUME NEW S, IsFiniteSet(S), NEW o, o \notin S
  PROVE  Cardinality(S \cup {o}) = Cardinality(S) + 1
BY FS_AddElement

LEMMA BufferInvNext == BufferInv /\ [Next]_vars => BufferInv'
<1> SUFFICES ASSUME BufferInv, [Next]_vars PROVE BufferInv'
  OBVIOUS
<1> USE CheckoutAssumption
<1>1. ASSUME NEW o \in Orders, Begin(o) PROVE BufferInv'
  <2>1. /\ pc[o] = "new" /\ pc' = [pc EXCEPT ![o] = "cart"]
        /\ pool >= 2 /\ pool' = pool - 2
    BY <1>1 DEF Begin, Step
  <2>2. Early' = Early \cup {o} /\ Middle' = Middle /\ Late' = Late /\ o \notin Early
    BY <2>1 DEF BufferInv, Early, Middle, Late
  <2>3. Cardinality(Early') = Cardinality(Early) + 1
    BY <2>2, GroupsFinite, Join
  <2>4. pc' \in [Orders -> RPCs \cup {"new", "done"}]
    BY <2>1 DEF BufferInv, RPCs
  <2> QED
    BY <2>1, <2>2, <2>3, <2>4, GroupsFinite DEF BufferInv
<1>2. ASSUME NEW o \in Orders, CartReply(o) PROVE BufferInv'
  <2>1. PICK to \in {"quote", "product"} : pc[o] = "cart" /\ pc' = [pc EXCEPT ![o] = to]
    BY <1>2 DEF CartReply, Step
  <2>2. pool >= 1 /\ pool' = pool - 1
    BY <1>2 DEF CartReply
  <2>3. /\ Early' = Early \ {o} /\ Middle' = Middle \cup {o} /\ Late' = Late
        /\ o \in Early /\ o \notin Middle
    BY <2>1 DEF BufferInv, Early, Middle, Late
  <2>4. /\ Cardinality(Early') = Cardinality(Early) - 1
        /\ Cardinality(Middle') = Cardinality(Middle) + 1
    BY <2>3, GroupsFinite, Join, Leave
  <2>5. pc' \in [Orders -> RPCs \cup {"new", "done"}]
    BY <2>1 DEF BufferInv, RPCs
  <2> QED
    BY <2>2, <2>3, <2>4, <2>5, GroupsFinite DEF BufferInv
<1>3. ASSUME NEW o \in Orders, ConvertQuoteReply(o) PROVE BufferInv'
  <2>1. /\ pc[o] = "localize" /\ pc' = [pc EXCEPT ![o] = "charge"]
        /\ pool' = pool + 2
    BY <1>3 DEF ConvertQuoteReply, Step, PutBoth
  <2>2. /\ Early' = Early /\ Middle' = Middle \ {o} /\ Late' = Late \cup {o}
        /\ o \in Middle /\ o \notin Late
    BY <2>1 DEF BufferInv, Early, Middle, Late
  <2>3. /\ Cardinality(Middle') = Cardinality(Middle) - 1
        /\ Cardinality(Late') = Cardinality(Late) + 1
    BY <2>2, GroupsFinite, Join, Leave
  <2>4. pc' \in [Orders -> RPCs \cup {"new", "done"}]
    BY <2>1 DEF BufferInv, RPCs
  <2> QED
    BY <2>1, <2>2, <2>3, <2>4, GroupsFinite DEF BufferInv
<1>4. ASSUME NEW o \in Orders, ConfirmReply(o) PROVE BufferInv'
  <2>1. /\ pc[o] = "confirm" /\ pc' = [pc EXCEPT ![o] = "done"]
        /\ pool' = pool + 1
    BY <1>4 DEF ConfirmReply, Step, PutOrder
  <2>2. Early' = Early /\ Middle' = Middle /\ Late' = Late \ {o} /\ o \in Late
    BY <2>1 DEF BufferInv, Early, Middle, Late
  <2>3. Cardinality(Late') = Cardinality(Late) - 1
    BY <2>2, GroupsFinite, Leave
  <2>4. pc' \in [Orders -> RPCs \cup {"new", "done"}]
    BY <2>1 DEF BufferInv, RPCs
  <2> QED
    BY <2>1, <2>2, <2>3, <2>4, GroupsFinite DEF BufferInv
<1>5. ASSUME NEW o \in Orders,
             \/ ProductReply(o) \/ ConvertReply(o) \/ QuoteReply(o)
             \/ ChargeReply(o) \/ ShipReply(o) \/ EmptyReply(o)
      PROVE  BufferInv'
  <2>1. CASE ProductReply(o)
    BY <2>1, SameGroup DEF ProductReply, Step, RPCs
  <2>2. CASE ConvertReply(o)
    BY <2>2, SameGroup DEF ConvertReply, MoreItems, Step, RPCs
  <2>3. CASE QuoteReply(o)
    BY <2>3, SameGroup DEF QuoteReply, Step, RPCs
  <2>4. CASE ChargeReply(o)
    BY <2>4, SameGroup DEF ChargeReply, Step, RPCs
  <2>5. CASE ShipReply(o)
    BY <2>5, SameGroup DEF ShipReply, Step, RPCs
  <2>6. CASE EmptyReply(o)
    BY <2>6, SameGroup DEF EmptyReply, Step, RPCs
  <2> QED
    BY <1>5, <2>1, <2>2, <2>3, <2>4, <2>5, <2>6
<1>6. ASSUME UNCHANGED <<pc, pool>> PROVE BufferInv'
  BY <1>6 DEF BufferInv, Early, Middle, Late
<1> QED
  BY <1>1, <1>2, <1>3, <1>4, <1>5, <1>6 DEF Next, PlaceOrder, Exit, vars

\* The buffers of the pool and those the orders hold, by how far each has come,
\* are all the buffers there are.
THEOREM BuffersAccounted == Spec => []BufferInv
BY BufferInvInit, BufferInvNext, PTL DEF Spec

\* Whatever orders overlap, every buffer an order took is put back when it is
\* done, and no order ever holds more than three (unimsg_buffer_get and
\* unimsg_buffer_put in PlaceOrder and the functions it calls).
THEOREM BuffersComeBack == Spec => []BuffersReturned
<1>1. BufferInv => BuffersReturned
  <2> SUFFICES ASSUME BufferInv PROVE BuffersReturned
    OBVIOUS
  <2>1. pool \in Nat /\ pool + 2 * Cardinality(Early) + 3 * Cardinality(Middle) + Cardinality(Late) = PoolSize
    BY DEF BufferInv
  <2>2. ASSUME InProgress = {} PROVE pool = PoolSize
    <3>1. Early = {} /\ Middle = {} /\ Late = {}
      BY <2>2, CountInProgress
    <3>2. Cardinality(Early) = 0 /\ Cardinality(Middle) = 0 /\ Cardinality(Late) = 0
      BY <3>1, FS_EmptySet
    <3> QED
      BY <2>1, <3>2
  <2>3. pool + PerOrder * Cardinality(InProgress) >= PoolSize
    BY <2>1, CountInProgress, GroupsFinite, CheckoutAssumption DEF PerOrder
  <2> QED
    BY <2>2, <2>3 DEF BuffersReturned
<1> QED
  BY <1>1, BuffersAccounted, PTL

-----------------------------------------------------------------------------
(* What an order puts together *)

\* Order q is not touched by a step.
Kept(q) ==
  /\ pc'[q] = pc[q] /\ req'[q] = req[q] /\ cart'[q] = cart[q] /\ price'[q] = price[q]
  /\ costs'[q] = costs[q] /\ quoted'[q] = quoted[q] /\ charged'[q] = charged[q]
  /\ shipped'[q] = shipped[q]

\* The types of the variables after a step, and that they are functions.
Shape ==
  /\ pc \in [Orders -> RPCs \cup {"new", "done"}]
  /\ req = [o \in Orders |-> req[o]]
  /\ cart \in [Orders -> Seq(Items)]
  /\ price \in [Orders -> Catalog \cup {Garbage}]
  /\ costs \in [Orders -> Seq(Cost)]
  /\ quoted = [o \in Orders |-> quoted[o]]
  /\ charged = [o \in Orders |-> charged[o]]
  /\ shipped = [o \in Orders |-> shipped[o]]

LEMMA KeptOK ==
  ASSUME NEW q \in Orders, OrderOK(q), Kept(q)
  PROVE  OrderOK(q)'
BY DEF OrderOK, Kept, ItemAt

\* A step of one order preserves the invariant if it does so for that order.
LEMMA OneOrder ==
  ASSUME OrderInv, NEW o \in Orders, Shape', OrderOK(o)',
         \A q \in Orders : q # o => Kept(q)
  PROVE  OrderInv'
<1>1. \A q \in Orders : OrderOK(q)'
  <2> TAKE q \in Orders
  <2>1. CASE q = o
    BY <2>1
  <2>2. CASE q # o
    BY <2>2, KeptOK DEF OrderInv
  <2> QED
    BY <2>1, <2>2
<1> QED
  BY <1>1 DEF OrderInv, Shape

LEMMA OrderInvInit == Init => OrderInv
<1> SUFFICES ASSUME Init PROVE OrderInv
  OBVIOUS
<1>1. Shape
  BY DEF Init, Shape
<1>2. ASSUME NEW o \in Orders PROVE OrderOK(o)
  <2>1. pc[o] = "new" /\ costs[o] = << >> /\ Len(costs[o]) = 0
    BY DEF Init
  <2> QED
    BY <2>1 DEF OrderOK
<1> QED
  BY <1>1, <1>2 DEF OrderInv, Shape

\* A fresh cart: nothing is priced yet.
LEMMA BeginOK == ASSUME OrderInv, NEW o \in Orders, Begin(o) PROVE OrderInv'
<1>1. PICK card \in Cards, cur \in Currencies :
        req' = [req EXCEPT ![o] = [card |-> card, currency |-> cur]]
  BY DEF Begin
<1>2. /\ pc[o] = "new" /\ pc' = [pc EXCEPT ![o] = "cart"]
      /\ UNCHANGED <<cart, price, costs, quoted, charged, shipped>>
  BY DEF Begin, Step
<1>3. Shape'
  BY <1>1, <1>2 DEF OrderInv, Shape, RPCs
<1>4. \A q \in Orders : q # o => Kept(q)
  BY <1>1, <1>2 DEF OrderInv, Kept
<1>5. pc'[o] = "cart" /\ costs'[o] = << >> /\ req'[o].currency = cur
  BY <1>1, <1>2 DEF OrderInv, OrderOK
<1>6. OrderOK(o)'
  BY <1>5 DEF OrderOK
<1> QED
  BY <1>3, <1>4, <1>6, OneOrder

LEMMA CartReplyOK == ASSUME OrderInv, NEW o \in Orders, CartReply(o) PROVE OrderInv'
<1>1. PICK s \in Carts :
        /\ pc[o] = "cart"
        /\ pc' = [pc EXCEPT ![o] = IF s = << >> THEN "quote" ELSE "product"]
        /\ cart' = [cart EXCEPT ![o] = s]
  BY DEF CartReply, Step
<1>2. UNCHANGED <<req, price, costs, quoted, charged, shipped>>
  BY DEF CartReply
<1>3. s \in Seq(Items) /\ Len(s) \in Nat /\ (s # << >> => Len(s) > 0)
  <2>1. PICK n \in 0 .. MaxItems : s \in [1 .. n -> Items]
    BY DEF Carts
  <2>2. n \in Nat
    BY <2>1, CheckoutAssumption
  <2>3. s \in Seq(Items)
    BY <2>1, <2>2
  <2> QED
    BY <2>3
<1>4. Shape'
  BY <1>1, <1>2, <1>3 DEF OrderInv, Shape, RPCs
<1>5. \A q \in Orders : q # o => Kept(q)
  BY <1>1, <1>2 DEF OrderInv, Kept
<1>6. costs[o] = << >> /\ req[o].currency \in Currencies
  BY <1>1 DEF OrderInv, OrderOK
<1>7. /\ pc'[o] = (IF s = << >> THEN "quote" ELSE "product") /\ cart'[o] = s
      /\ costs'[o] = << >> /\ Len(costs'[o]) = 0 /\ req'[o].currency \in Currencies
  BY <1>1, <1>2, <1>6 DEF OrderInv
<1>8. OrderOK(o)'
  <2>1. CASE s = << >>
    BY <1>7, <2>1 DEF OrderOK
  <2>2. CASE s # << >>
    BY <1>3, <1>7, <2>2 DEF OrderOK
  <2> QED
    BY <2>1, <2>2
<1> QED
  BY <1>4, <1>5, <1>8, OneOrder

LEMMA ProductReplyOK == ASSUME OrderInv, NEW o \in Orders, ProductReply(o) PROVE OrderInv'
<1>1. PICK p \in (IF ItemAt(o) \in Catalog THEN {ItemAt(o)} ELSE Catalog \cup {Garbage}) :
        price' = [price EXCEPT ![o] = p]
  BY DEF ProductReply
<1>2. /\ pc[o] = "product" /\ pc' = [pc EXCEPT ![o] = "convert"]
      /\ UNCHANGED <<req, cart, costs, quoted, charged, shipped>>
  BY DEF ProductReply, Step
<1>3. p \in Catalog \cup {Garbage} /\ (ItemAt(o) \in Catalog => p = ItemAt(o))
  BY <1>1
<1>4. Shape'
  BY <1>1, <1>2, <1>3 DEF OrderInv, Shape, RPCs
<1>5. \A q \in Orders : q # o => Kept(q)
  BY <1>1, <1>2 DEF OrderInv, Kept
<1>6. pc'[o] = "convert" /\ price'[o] = p /\ ItemAt(o)' = ItemAt(o)
  BY <1>1, <1>2 DEF OrderInv, ItemAt
<1>7. OrderOK(o)
  BY DEF OrderInv
<1>8. OrderOK(o)'
  BY <1>2, <1>3, <1>6, <1>7 DEF OrderOK
<1> QED
  BY <1>4, <1>5, <1>8, OneOrder

\* One more cost, of the item it is the cost of.
LEMMA ConvertReplyOK == ASSUME OrderInv, NEW o \in Orders, ConvertReply(o) PROVE OrderInv'
<1> DEFINE c  == [of |-> price[o], in |-> req[o].currency]
           to == IF Len(costs[o]) + 1 < Len(cart[o]) THEN "product" ELSE "quote"
<1>1. /\ pc[o] = "convert" /\ pc' = [pc EXCEPT ![o] = to]
      /\ costs' = [costs EXCEPT ![o] = Append(@, c)]
      /\ price[o] # Garbage
      /\ UNCHANGED <<req, cart, price, quoted, charged, shipped>>
  BY DEF ConvertReply, MoreItems, Step
<1>2. OrderOK(o)
  BY DEF OrderInv
<1>3. /\ costs[o] \in Seq(Cost) /\ cart[o] \in Seq(Items) /\ price[o] \in Catalog
      /\ Len(costs[o]) < Len(cart[o]) /\ req[o].currency \in Currencies
  BY <1>1, <1>2 DEF OrderInv, OrderOK
<1>4. c \in Cost /\ c.of = price[o] /\ c.in = req[o].currency
  BY <1>3, CheckoutAssumption DEF Cost
<1> HIDE DEF c
<1>5. costs'[o] = Append(costs[o], c)
  BY <1>1 DEF OrderInv
<1>6. /\ costs'[o] \in Seq(Cost) /\ Len(costs'[o]) = Len(costs[o]) + 1
      /\ costs'[o][Len(costs[o]) + 1] = c
      /\ \A i \in 1 .. Len(costs[o]) : costs'[o][i] = costs[o][i]
  BY <1>3, <1>4, <1>5
<1>7. Shape'
  BY <1>1, <1>6 DEF OrderInv, Shape, RPCs
<1>8. \A q \in Orders : q # o => Kept(q)
  BY <1>1 DEF OrderInv, Kept
<1>9. /\ pc'[o] = to /\ req'[o] = req[o] /\ cart'[o] = cart[o]
  BY <1>1 DEF OrderInv
<1>10. ASSUME NEW i \in 1 .. Len(costs'[o])
       PROVE  /\ costs'[o][i].in = req'[o].currency
              /\ cart'[o][i] \in Catalog => costs'[o][i].of = cart'[o][i]
  <2>1. CASE i \in 1 .. Len(costs[o])
    BY <1>2, <1>6, <1>9, <2>1 DEF OrderOK
  <2>2. CASE i = Len(costs[o]) + 1
    <3>1. cart[o][i] \in Catalog => price[o] = cart[o][i]
      BY <1>1, <1>2, <2>2 DEF OrderOK, ItemAt
    <3> QED
      BY <1>4, <1>6, <1>9, <2>2, <3>1
  <2>3. Len(costs[o]) \in Nat
    BY <1>3
  <2> QED
    BY <1>6, <2>1, <2>2, <2>3
<1>11. /\ pc'[o] \in {"product", "quote"}
       /\ pc'[o] = "product" => Len(costs'[o]) < Len(cart'[o])
       /\ pc'[o] = "quote" => Len(costs'[o]) = Len(cart'[o])
  BY <1>3, <1>6, <1>9
<1>12. OrderOK(o)'
  BY <1>3, <1>9, <1>10, <1>11 DEF OrderOK
<1> QED
  BY <1>7, <1>8, <1>12, OneOrder

LEMMA QuoteReplyOK == ASSUME OrderInv, NEW o \in Orders, QuoteReply(o) PROVE OrderInv'
<1>1. /\ pc[o] = "quote" /\ pc' = [pc EXCEPT ![o] = "localize"]
      /\ quoted' = [quoted EXCEPT ![o] = cart[o]]
      /\ UNCHANGED <<req, cart, price, costs, charged, shipped>>
  BY DEF QuoteReply, Step
<1>2. Shape'
  BY <1>1 DEF OrderInv, Shape, RPCs
<1>3. \A q \in Orders : q # o => Kept(q)
  BY <1>1 DEF OrderInv, Kept
<1>4. pc'[o] = "localize" /\ quoted'[o] = cart[o]
  BY <1>1 DEF OrderInv
<1>5. OrderOK(o)
  BY DEF OrderInv
<1>6. OrderOK(o)'
  BY <1>1, <1>4, <1>5 DEF OrderOK
<1> QED
  BY <1>2, <1>3, <1>6, OneOrder

LEMMA ConvertQuoteReplyOK ==
  ASSUME OrderInv, NEW o \in Orders, ConvertQuoteReply(o) PROVE OrderInv'
<1> DEFINE a == [shipping |-> quoted[o], in |-> req[o].currency, costs |-> costs[o]]
<1>1. /\ pc[o] = "localize" /\ pc' = [pc EXCEPT ![o] = "charge"]
      /\ charged' = [charged EXCEPT ![o] = a]
      /\ UNCHANGED <<req, cart, price, costs, quoted, shipped>>
  BY DEF ConvertQuoteReply, Step
<1>2. Shape'
  BY <1>1 DEF OrderInv, Shape, RPCs
<1>3. \A q \in Orders : q # o => Kept(q)
  BY <1>1 DEF OrderInv, Kept
<1>4. pc'[o] = "charge" /\ charged'[o] = a
  BY <1>1 DEF OrderInv
<1>5. OrderOK(o)
  BY DEF OrderInv
<1>6. OrderOK(o)'
  BY <1>1, <1>4, <1>5 DEF OrderOK
<1> QED
  BY <1>2, <1>3, <1>6, OneOrder

LEMMA ShipReplyOK == ASSUME OrderInv, NEW o \in Orders, ShipReply(o) PROVE OrderInv'
<1>1. /\ pc[o] = "ship" /\ pc' = [pc EXCEPT ![o] = "empty"]
      /\ shipped' = [shipped EXCEPT ![o] = cart[o]]
      /\ UNCHANGED <<req, cart, price, costs, quoted, charged>>
  BY DEF ShipReply, Step
<1>2. Shape'
  BY <1>1 DEF OrderInv, Shape, RPCs
<1>3. \A q \in Orders : q # o => Kept(q)
  BY <1>1 DEF OrderInv, Kept
<1>4. pc'[o] = "empty" /\ shipped'[o] = cart[o]
  BY <1>1 DEF OrderInv
<1>5. OrderOK(o)
  BY DEF OrderInv
<1>6. OrderOK(o)'
  BY <1>1, <1>4, <1>5 DEF OrderOK
<1> QED
  BY <1>2, <1>3, <1>6, OneOrder

\* The responses that only let the order go on.
LEMMA GoOnOK ==
  ASSUME OrderInv, NEW o \in Orders,
         ChargeReply(o) \/ EmptyReply(o) \/ ConfirmReply(o)
  PROVE  OrderInv'
<1>1. PICK to \in {"ship", "confirm", "done"} :
        /\ pc' = [pc EXCEPT ![o] = to]
        /\ to = "ship" => pc[o] = "charge"
        /\ to = "confirm" => pc[o] = "empty"
        /\ to = "done" => pc[o] = "confirm"
  BY DEF ChargeReply, EmptyReply, ConfirmReply, Step
<1>2. UNCHANGED <<req, cart, price, costs, quoted, charged, shipped>>
  BY DEF ChargeReply, EmptyReply, ConfirmReply
<1>3. Shape'
  BY <1>1, <1>2 DEF OrderInv, Shape, RPCs
<1>4. \A q \in Orders : q # o => Kept(q)
  BY <1>1, <1>2 DEF OrderInv, Kept
<1>5. pc'[o] = to
  BY <1>1 DEF OrderInv
<1>6. OrderOK(o)
  BY DEF OrderInv
<1>7. OrderOK(o)'
  BY <1>1, <1>2, <1>5, <1>6 DEF OrderOK
<1> QED
  BY <1>3, <1>4, <1>7, OneOrder

LEMMA OrderInvNext == OrderInv /\ [Next]_vars => OrderInv'
<1> SUFFICES ASSUME OrderInv, [Next]_vars PROVE OrderInv'
  OBVIOUS
<1>1. ASSUME UNCHANGED <<pc, req, cart, price, costs, quoted, charged, shipped>>
      PROVE  OrderInv'
  BY <1>1 DEF OrderInv, OrderOK, ItemAt
<1>2. ASSUME NEW o \in Orders, Exit(o) PROVE OrderInv'
  BY <1>1, <1>2 DEF Exit
<1>3. CASE UNCHANGED vars
  BY <1>1, <1>3 DEF vars
<1> QED
  BY <1>2, <1>3, BeginOK, CartReplyOK, ProductReplyOK, ConvertReplyOK, QuoteReplyOK,
     ConvertQuoteReplyOK, ShipReplyOK, GoOnOK DEF Next, PlaceOrder

\* At every point an order has a cost for each item it has come to, and has
\* charged, quoted and shipped the cart it received.
THEOREM OrderInvariant == Spec => []OrderInv
BY OrderInvInit, OrderInvNext, PTL DEF Spec

\* What is shipped is what was charged, however orders overlap (PlaceOrder and
\* prepareOrderItemsAndShippingQuoteFromCart).
THEOREM ShipsWhatItCharges == Spec => []ShippedAsCharged
<1>1. OrderInv => ShippedAsCharged
  <2> SUFFICES ASSUME OrderInv, NEW o \in Orders, pc[o] \in {"empty", "confirm", "done"}
               PROVE  LET c == charged[o].costs
                      IN /\ charged[o].shipping = shipped[o]
                         /\ charged[o].in = req[o].currency
                         /\ Len(c) = Len(shipped[o])
                         /\ \A i \in 1 .. Len(c) :
                              /\ c[i].in = req[o].currency
                              /\ shipped[o][i] \in Catalog => c[i].of = shipped[o][i]
    BY DEF ShippedAsCharged
  <2>1. OrderOK(o)
    BY DEF OrderInv
  <2>2. /\ charged[o] = [shipping |-> cart[o], in |-> req[o].currency, costs |-> costs[o]]
        /\ shipped[o] = cart[o] /\ Len(costs[o]) = Len(cart[o])
    BY <2>1 DEF OrderOK
  <2> QED
    BY <2>1, <2>2 DEF OrderOK
<1> QED
  BY <1>1, OrderInvariant, PTL

-----------------------------------------------------------------------------
(* Why checkout exits *)

\* The step that exits has a cause.
LEMMA ExitStep ==
  ASSUME BufferInv, OrderInv, NEW o \in Orders, Exit(o)
  PROVE  ExitNeedsCause'
<1> USE CheckoutAssumption
<1>1. UNCHANGED <<pc, req, cart>>
  BY DEF Exit
<1>2. InProgress' = InProgress
  BY <1>1 DEF InProgress
<1>3. /\ pool \in Nat
      /\ pool + 2 * Cardinality(Early) + 3 * Cardinality(Middle) + Cardinality(Late) = PoolSize
  BY DEF BufferInv
<1>4. CASE pc[o] = "new" /\ pool < 2
  <2>1. PoolSize < 3 * (Cardinality(InProgress) + 1)
    BY <1>3, <1>4, CountInProgress, GroupsFinite
  <2> QED
    BY <1>1, <1>2, <1>4, <2>1 DEF ExitNeedsCause, PerOrder
<1>5. CASE pc[o] = "cart" /\ pool < 1
  <2>1. Early # {}
    BY <1>5 DEF Early
  <2>2. Cardinality(Early) > 0
    BY <2>1, GroupsFinite, FS_EmptySet
  <2>3. PoolSize < 3 * Cardinality(InProgress)
    BY <1>3, <1>5, <2>2, CountInProgress, GroupsFinite
  <2> QED
    BY <1>2, <2>3 DEF ExitNeedsCause, PerOrder
<1>6. CASE NoRate(o)
  <2>1. o \in InProgress
    BY <1>6 DEF NoRate, InProgress, RPCs
  <2>2. CASE ~Converts(o)
    BY <1>1, <1>2, <2>1, <2>2 DEF ExitNeedsCause, Converts
  <2>3. CASE pc[o] = "convert" /\ price[o] = Garbage
    <3>1. OrderOK(o) /\ cart[o] \in Seq(Items) /\ costs[o] \in Seq(Cost)
      BY DEF OrderInv
    <3>2. Len(costs[o]) + 1 \in 1 .. Len(cart[o])
      BY <2>3, <3>1 DEF OrderOK
    <3>3. cart[o][Len(costs[o]) + 1] \notin Catalog
      BY <2>3, <3>1 DEF OrderOK, ItemAt
    <3> QED
      BY <1>1, <1>2, <2>1, <3>2, <3>3 DEF ExitNeedsCause
  <2> QED
    BY <1>6, <2>2, <2>3 DEF NoRate
<1> QED
  BY <1>4, <1>5, <1>6 DEF Exit, NoBuffer

\* Checkout exits only when the pool is too small for the orders in progress,
\* or for an order that cannot be priced (the exit(1) after unimsg_buffer_get, and
\* those of the currency service).
THEOREM ExitsForCause == Spec => []ExitNeedsCause
<1>1. Init => ExitNeedsCause
  BY DEF Init, ExitNeedsCause
<1>2. BufferInv /\ OrderInv /\ ExitNeedsCause /\ [Next]_vars => ExitNeedsCause'
  <2> SUFFICES ASSUME BufferInv, OrderInv, ExitNeedsCause, [Next]_vars PROVE ExitNeedsCause'
    OBVIOUS
  <2>1. CASE UNCHANGED vars
    BY <2>1 DEF vars, ExitNeedsCause, InProgress
  <2>2. ASSUME NEW o \in Orders, NEW from, NEW to, Step(o, from, to) PROVE ExitNeedsCause'
    BY <2>2 DEF Step, ExitNeedsCause
  <2>3. ASSUME NEW o \in Orders, Begin(o) \/ PlaceOrder(o), ~Exit(o) PROVE ExitNeedsCause'
    BY <2>2, <2>3 DEF PlaceOrder, Begin, CartReply, ProductReply, ConvertReply, QuoteReply,
         ConvertQuoteReply, ChargeReply, ShipReply, EmptyReply, ConfirmReply
  <2> QED
    BY <2>1, <2>3, ExitStep DEF Next
<1> QED
  BY <1>1, <1>2, BuffersAccounted, OrderInvariant, PTL DEF Spec

-----------------------------------------------------------------------------
(* Induction, and sums *)

\* The least number of a set.
LEMMA LeastNumber ==
  ASSUME NEW T, T \subseteq Nat, T # {}
  PROVE  \E x \in T : \A y \in T : x <= y
<1> DEFINE R == OpToRel(<, Nat)
<1>1. IsWellFoundedOn(R, Nat)
  BY NatLessThanWellFounded
<1>2. \A x, y \in Nat : x < y => <<x, y>> \in R
  BY DEF OpToRel
<1> HIDE DEF R
<1>3. PICK x \in T : \A y \in T : ~(<<y, x>> \in R)
  BY <1>1, WFMin
<1>4. ASSUME NEW y \in T PROVE x <= y
  <2>1. x \in Nat /\ y \in Nat /\ ~(y < x)
    BY <1>2, <1>3
  <2> QED
    BY <2>1
<1> QED
  BY <1>4

\* Induction, for the numbers with a property as a set.
LEMMA SetInduction ==
  ASSUME NEW S, 0 \in S, \A n \in Nat : n \in S => n + 1 \in S
  PROVE  \A n \in Nat : n \in S
<1> SUFFICES ASSUME Nat \ S # {} PROVE FALSE
  OBVIOUS
<1>1. PICK x \in Nat \ S : \A y \in Nat \ S : x <= y
  BY LeastNumber
<1>2. x # 0 /\ x - 1 \in Nat /\ ~(x <= x - 1)
  BY <1>1
<1>3. x - 1 \in S
  BY <1>1, <1>2
<1>4. (x - 1) + 1 \in S
  BY <1>2, <1>3
<1> QED
  BY <1>4

\* There is a function of the sums of the first numbers of W.
LEMMA UptoExists ==
  ASSUME NEW n \in Nat, NEW W \in [1 .. n -> Int]
  PROVE  \E g \in [0 .. n -> Int] : \A i \in 0 .. n : g[i] = IF i = 0 THEN 0 ELSE g[i - 1] + W[i]
<1> DEFINE Holds(g, i) == g[i] = IF i = 0 THEN 0 ELSE g[i - 1] + W[i]
           S == {m \in Nat : \E g \in [0 .. n -> Int] : \A i \in 0 .. n : i <= m => Holds(g, i)}
<1>1. 0 \in S
  <2>1. [i \in 0 .. n |-> 0] \in [0 .. n -> Int]
    OBVIOUS
  <2>2. \A i \in 0 .. n : i <= 0 => Holds([j \in 0 .. n |-> 0], i)
    OBVIOUS
  <2> QED
    BY <2>1, <2>2
<1>2. ASSUME NEW m \in Nat, m \in S PROVE m + 1 \in S
  <2>1. PICK g \in [0 .. n -> Int] : \A i \in 0 .. n : i <= m => Holds(g, i)
    BY <1>2
  <2> DEFINE h == [i \in 0 .. n |-> IF i <= m THEN g[i] ELSE g[i - 1] + W[i]]
  <2>2. h \in [0 .. n -> Int]
    <3>1. ASSUME NEW i \in 0 .. n, ~(i <= m) PROVE i - 1 \in 0 .. n /\ i \in 1 .. n
      BY <3>1
    <3>2. ASSUME NEW i \in 0 .. n PROVE (IF i <= m THEN g[i] ELSE g[i - 1] + W[i]) \in Int
      BY <3>1
    <3> QED
      BY <3>2
  <2>3. ASSUME NEW i \in 0 .. n, i <= m + 1 PROVE Holds(h, i)
    <3>1. CASE i = 0
      BY <2>1, <3>1
    <3>2. CASE i # 0
      <4>1. i - 1 \in 0 .. n /\ i - 1 <= m
        BY <2>3, <3>2
      <4>2. h[i - 1] = g[i - 1]
        BY <4>1
      <4>3. h[i] = g[i - 1] + W[i]
        BY <2>1, <3>2
      <4> QED
        BY <3>2, <4>2, <4>3
    <3> QED
      BY <3>1, <3>2
  <2> HIDE DEF h, Holds
  <2>4. m + 1 \in Nat /\ \E f \in [0 .. n -> Int] : \A i \in 0 .. n : i <= m + 1 => Holds(f, i)
    BY <2>2, <2>3
  <2> QED
    BY <2>4, Zenon
<1>3. n \in S
  <2> HIDE DEF S
  <2> QED
    BY <1>1, <1>2, SetInduction
<1> HIDE DEF Holds
<1>4. PICK g \in [0 .. n -> Int] : \A i \in 0 .. n : i <= n => Holds(g, i)
  BY <1>3
<1>5. \A i \in 0 .. n : Holds(g, i)
  BY <1>4
<1> QED
  BY <1>5, Zenon DEF Holds

\* The element of a set that a sum takes first.
Pick(s) == CHOOSE x \in s : TRUE

\* g has the sums of the numbers F of the subsets of S.
Sums(g, S, F) ==
  /\ g \in [SUBSET S -> Int]
  /\ \A s \in SUBSET S : g[s] = IF s = {} THEN 0 ELSE F[Pick(s)] + g[s \ {Pick(s)}]

LEMMA SumsExist ==
  ASSUME NEW S, IsFiniteSet(S), NEW F \in [S -> Int]
  PROVE  \E g : Sums(g, S, F)
<1> DEFINE Holds(g, s) == g[s] = IF s = {} THEN 0 ELSE F[Pick(s)] + g[s \ {Pick(s)}]
           N == {m \in Nat : \E g \in [SUBSET S -> Int] :
                               \A s \in SUBSET S : Cardinality(s) <= m => Holds(g, s)}
<1>1. ASSUME NEW s \in SUBSET S
      PROVE  /\ IsFiniteSet(s) /\ Cardinality(s) \in Nat
             /\ Cardinality(s) <= Cardinality(S) /\ Cardinality(S) \in Nat
             /\ Cardinality(s) = 0 <=> s = {}
  BY FS_Subset, FS_CardinalityType, FS_EmptySet
<1>2. ASSUME NEW s \in SUBSET S, s # {}
      PROVE  /\ Pick(s) \in s /\ s \ {Pick(s)} \in SUBSET S
             /\ Cardinality(s \ {Pick(s)}) = Cardinality(s) - 1
             /\ F[Pick(s)] \in Int
  <2>1. Pick(s) \in s
    BY <1>2 DEF Pick
  <2>2. Cardinality(s \ {Pick(s)}) = Cardinality(s) - 1
    BY <1>1, <2>1, FS_RemoveElement
  <2> QED
    BY <2>1, <2>2
<1>3. 0 \in N
  <2> DEFINE z == [s \in SUBSET S |-> 0]
  <2>1. z \in [SUBSET S -> Int]
    OBVIOUS
  <2>2. \A s \in SUBSET S : Cardinality(s) <= 0 => s = {}
    BY <1>1
  <2>3. \A s \in SUBSET S : Cardinality(s) <= 0 => Holds(z, s)
    BY <2>2
  <2> HIDE DEF z, Holds
  <2> QED
    BY <2>1, <2>3
<1>4. ASSUME NEW m \in Nat, m \in N PROVE m + 1 \in N
  <2>1. PICK g \in [SUBSET S -> Int] : \A s \in SUBSET S : Cardinality(s) <= m => Holds(g, s)
    BY <1>4
  <2> DEFINE h == [s \in SUBSET S |->
                     IF Cardinality(s) <= m THEN g[s] ELSE F[Pick(s)] + g[s \ {Pick(s)}]]
  <2>2. ASSUME NEW s \in SUBSET S
        PROVE  (IF Cardinality(s) <= m THEN g[s] ELSE F[Pick(s)] + g[s \ {Pick(s)}]) \in Int
    <3>1. ~(Cardinality(s) <= m) => s # {}
      BY <1>1
    <3> QED
      BY <1>2, <3>1
  <2>3. h \in [SUBSET S -> Int]
    BY <2>2
  <2>4. ASSUME NEW s \in SUBSET S, Cardinality(s) <= m + 1 PROVE Holds(h, s)
    <3>1. CASE s = {}
      <4>1. Cardinality(s) <= m
        BY <1>1, <3>1
      <4>2. h[s] = g[s] /\ g[s] = 0
        BY <2>1, <3>1, <4>1
      <4> QED
        BY <3>1, <4>2
    <3>2. CASE s # {}
      <4>1. s \ {Pick(s)} \in SUBSET S /\ Cardinality(s \ {Pick(s)}) <= m
        BY <1>1, <1>2, <2>4, <3>2
      <4>2. h[s \ {Pick(s)}] = g[s \ {Pick(s)}]
        BY <4>1
      <4>3. h[s] = F[Pick(s)] + g[s \ {Pick(s)}]
        BY <2>1, <3>2
      <4> HIDE DEF h
      <4> QED
        BY <3>2, <4>2, <4>3
    <3> QED
      BY <3>1, <3>2
  <2> HIDE DEF h, Holds
  <2>5. \E f \in [SUBSET S -> Int] : \A s \in SUBSET S : Cardinality(s) <= m + 1 => Holds(f, s)
    BY <2>3, <2>4
  <2> QED
    BY <2>5
<1>5. Cardinality(S) \in N
  <2> HIDE DEF N
  <2> QED
    BY <1>1, <1>3, <1>4, SetInduction
<1>6. PICK g \in [SUBSET S -> Int] :
        \A s \in SUBSET S : Cardinality(s) <= Cardinality(S) => Holds(g, s)
  BY <1>5
<1> QED
  BY <1>1, <1>6 DEF Sums

\* It does not matter which element is taken first.
AnyOrder(g, S, F) == \A s \in SUBSET S : \A x \in s : g[s] = F[x] + g[s \ {x}]

LEMMA SumsAnyOrder ==
  ASSUME NEW S, IsFiniteSet(S), NEW F \in [S -> Int], NEW g, Sums(g, S, F)
  PROVE  AnyOrder(g, S, F)
<1> DEFINE N == {m \in Nat : \A s \in SUBSET S : Cardinality(s) = m =>
                               \A x \in s : g[s] = F[x] + g[s \ {x}]}
<1>1. ASSUME NEW s \in SUBSET S
      PROVE  IsFiniteSet(s) /\ Cardinality(s) \in Nat /\ (Cardinality(s) = 0 <=> s = {})
  BY FS_Subset, FS_CardinalityType, FS_EmptySet
<1>2. 0 \in N
  BY <1>1
<1>3. ASSUME NEW m \in Nat, m \in N PROVE m + 1 \in N
  <2> SUFFICES ASSUME NEW s \in SUBSET S, Cardinality(s) = m + 1, NEW x \in s
               PROVE  g[s] = F[x] + g[s \ {x}]
    OBVIOUS
  <2>1. PICK y : y = Pick(s)
    OBVIOUS
  <2>2. y \in s /\ g[s] = F[y] + g[s \ {y}]
    <3>1. s # {}
      OBVIOUS
    <3>2. Pick(s) \in s
      BY <3>1 DEF Pick
    <3> QED
      BY <2>1, <3>1, <3>2 DEF Sums
  <2>3. CASE x = y
    BY <2>2, <2>3
  <2>4. CASE x # y
    <3>1. /\ s \ {x} \in SUBSET S /\ s \ {y} \in SUBSET S /\ y \in s \ {x} /\ x \in s \ {y}
          /\ (s \ {x}) \ {y} \in SUBSET S /\ (s \ {y}) \ {x} = (s \ {x}) \ {y}
      BY <2>2, <2>4
    <3>2. Cardinality(s \ {x}) = m /\ Cardinality(s \ {y}) = m
      <4>1. IsFiniteSet(s) /\ y \in s
        BY <1>1, <2>2
      <4>2. Cardinality(s \ {x}) = Cardinality(s) - 1
        BY <4>1, FS_RemoveElement
      <4>3. Cardinality(s \ {y}) = Cardinality(s) - 1
        BY <4>1, FS_RemoveElement
      <4> QED
        BY <4>2, <4>3
    <3>3. /\ g[s \ {y}] = F[x] + g[(s \ {y}) \ {x}]
          /\ g[s \ {x}] = F[y] + g[(s \ {x}) \ {y}]
      BY <1>3, <3>1, <3>2
    <3>4. PICK w : w = (s \ {x}) \ {y}
      OBVIOUS
    <3>5. F[x] \in Int /\ F[y] \in Int /\ g[w] \in Int
      BY <2>2, <3>1, <3>4 DEF Sums
    <3>6. g[s] = F[y] + (F[x] + g[w]) /\ g[s \ {x}] = F[y] + g[w]
      BY <2>2, <3>1, <3>3, <3>4, Zenon
    <3> QED
      BY <3>5, <3>6
  <2> QED
    BY <2>3, <2>4
<1>4. \A m \in Nat : m \in N
  <2> HIDE DEF N
  <2> QED
    BY <1>2, <1>3, SetInduction
<1> QED
  BY <1>1, <1>4 DEF AnyOrder

\* Any such function has numbers as its values.
LEMMA UptoNumbers ==
  ASSUME NEW n \in Nat, NEW W \in [1 .. n -> Int], NEW g,
         \A i \in 0 .. n : g[i] = IF i = 0 THEN 0 ELSE g[i - 1] + W[i]
  PROVE  \A i \in 0 .. n : g[i] \in Int
<1> DEFINE S == {m \in Nat : m <= n => g[m] \in Int}
<1>1. 0 \in S
  OBVIOUS
<1>2. ASSUME NEW m \in Nat, m \in S PROVE m + 1 \in S
  <2> SUFFICES ASSUME m + 1 <= n PROVE g[m + 1] \in Int
    OBVIOUS
  <2>1. m + 1 \in 0 .. n /\ m + 1 # 0 /\ m + 1 \in 1 .. n /\ (m + 1) - 1 = m /\ g[m] \in Int
    BY <1>2
  <2>2. g[m + 1] = g[m] + W[m + 1]
    BY <2>1
  <2> QED
    BY <2>1, <2>2
<1>3. \A m \in Nat : m \in S
  <2> HIDE DEF S
  <2> QED
    BY <1>1, <1>2, SetInduction
<1> QED
  BY <1>3

LEMMA SumsNumbers ==
  ASSUME NEW S, IsFiniteSet(S), NEW F \in [S -> Int], NEW g,
         \A s \in SUBSET S : g[s] = IF s = {} THEN 0 ELSE F[Pick(s)] + g[s \ {Pick(s)}]
  PROVE  \A s \in SUBSET S : g[s] \in Int
<1> DEFINE N == {m \in Nat : \A s \in SUBSET S : Cardinality(s) = m => g[s] \in Int}
<1>1. ASSUME NEW s \in SUBSET S
      PROVE  IsFiniteSet(s) /\ Cardinality(s) \in Nat /\ (Cardinality(s) = 0 <=> s = {})
  BY FS_Subset, FS_CardinalityType, FS_EmptySet
<1>2. 0 \in N
  <2>1. g[{}] = 0
    OBVIOUS
  <2>2. ASSUME NEW s \in SUBSET S, Cardinality(s) = 0 PROVE g[s] \in Int
    <3>1. s = {}
      BY <1>1, <2>2
    <3> QED
      BY <2>1, <3>1
  <2> QED
    BY <2>2
<1>3. ASSUME NEW m \in Nat, m \in N PROVE m + 1 \in N
  <2> SUFFICES ASSUME NEW s \in SUBSET S, Cardinality(s) = m + 1 PROVE g[s] \in Int
    OBVIOUS
  <2>1. s # {}
    BY <1>1
  <2>2. Pick(s) \in s
    BY <2>1 DEF Pick
  <2>3. s \ {Pick(s)} \in SUBSET S /\ Cardinality(s \ {Pick(s)}) = m
    BY <1>1, <2>2, FS_RemoveElement
  <2>4. g[s] = F[Pick(s)] + g[s \ {Pick(s)}] /\ g[s \ {Pick(s)}] \in Int /\ F[Pick(s)] \in Int
    BY <1>3, <2>1, <2>2, <2>3
  <2> QED
    BY <2>4
<1>4. \A m \in Nat : m \in N
  <2> HIDE DEF N
  <2> QED
    BY <1>2, <1>3, SetInduction
<1> QED
  BY <1>1, <1>4

-----------------------------------------------------------------------------
(* Card numbers *)

LEMMA WeightsAgree ==
  ASSUME NEW n \in Nat, NEW j \in 1 .. n, NEW d \in 0 .. 9
  PROVE  /\ Weighted(n - j, d) = IF (n - j) % 2 = 0 THEN d ELSE IF d > 4 THEN 2 * d - 9 ELSE 2 * d
         /\ Weighted(n - j, d) \in Int
<1>1. (n - j) % 2 \in {0, 1}
  OBVIOUS
<1>2. get_digit_sum(2 * d) = IF d > 4 THEN 2 * d - 9 ELSE 2 * d
  BY DEF get_digit_sum
<1> QED
  BY <1>1, <1>2 DEF Weighted

\* The digits from the right, with what get_digit_sum makes of them, add up to
\* the Luhn sum.
LEMMA LuhnIsChecksum ==
  ASSUME NEW s \in Seq(0 .. 9)
  PROVE  Luhn(s) <=> Checksum(s) % 10 = 0
<1>1. PICK n \in Nat : n = Len(s)
  OBVIOUS
<1> DEFINE L(j) == LET d == s[j] IN IF (Len(s) - j) % 2 = 0 THEN d ELSE IF d > 4 THEN 2 * d - 9 ELSE 2 * d
           F == [j \in 1 .. n |-> L(j)]
           W == [i \in 1 .. n |-> Weighted(i - 1, s[Len(s) - i + 1])]
           U(g) == [i \in 0 .. Len(s) |->
                      IF i = 0 THEN 0 ELSE g[i - 1] + Weighted(i - 1, s[Len(s) - i + 1])]
           V(g) == [t \in SUBSET (1 .. Len(s)) |-> IF t = {} THEN 0 ELSE L(Pick(t)) + g[t \ {Pick(t)}]]
           u == CHOOSE g : g = U(g)
           v == CHOOSE g : g = V(g)
<1>2. Checksum(s) = u[Len(s)]
  BY DEF Checksum
<1>3. Luhn(s) <=> v[1 .. Len(s)] % 10 = 0
  BY DEF Luhn, MapThenSumSet, MapThenFoldSet, Pick
<1>4. ASSUME NEW j \in 1 .. n
      PROVE  /\ L(j) \in Int /\ Weighted(n - j, s[j]) = L(j)
  <2>1. s[j] \in 0 .. 9
    BY <1>1
  <2>2. PICK d \in 0 .. 9 : d = s[j]
    BY <2>1
  <2>3. L(j) = IF (n - j) % 2 = 0 THEN d ELSE IF d > 4 THEN 2 * d - 9 ELSE 2 * d
    BY <1>1, <2>2
  <2> HIDE DEF L
  <2> QED
    BY <2>2, <2>3, WeightsAgree
<1>5. F \in [1 .. n -> Int]
  BY <1>4
<1>6. ASSUME NEW i \in 1 .. n
      PROVE  W[i] = F[n - i + 1] /\ W[i] \in Int
  <2>1. n - i + 1 \in 1 .. n /\ n - (n - i + 1) = i - 1
    OBVIOUS
  <2>2. W[i] = Weighted(i - 1, s[n - i + 1])
    BY <1>1
  <2> HIDE DEF W, L
  <2>3. W[i] = L(n - i + 1) /\ L(n - i + 1) \in Int
    BY <1>4, <2>1, <2>2
  <2> QED
    BY <2>1, <2>3
<1>7. W \in [1 .. n -> Int]
  BY <1>6
<1>8. PICK g \in [0 .. n -> Int] : \A i \in 0 .. n : g[i] = IF i = 0 THEN 0 ELSE g[i - 1] + W[i]
  <2> HIDE DEF W
  <2> QED
    BY <1>7, UptoExists
<1>9. g = U(g)
  <2>1. ASSUME NEW i \in 0 .. n, i # 0 PROVE W[i] = Weighted(i - 1, s[Len(s) - i + 1])
    BY <2>1
  <2> HIDE DEF W
  <2>2. \A i \in 0 .. n : g[i] = IF i = 0 THEN 0 ELSE g[i - 1] + Weighted(i - 1, s[Len(s) - i + 1])
    BY <1>8, <2>1
  <2> QED
    BY <1>1, <1>8, <2>2
<1>10. u = U(u)
  <2> HIDE DEF U
  <2> QED
    BY <1>9, Zenon
<1> HIDE DEF u
<1>11. IsFiniteSet(1 .. n)
  BY FS_Interval
<1>12. PICK f : Sums(f, 1 .. n, F)
  <2> HIDE DEF F
  <2> QED
    BY <1>5, <1>11, SumsExist
<1>13. f = V(f)
  <2>1. ASSUME NEW t \in SUBSET (1 .. n), t # {} PROVE F[Pick(t)] = L(Pick(t))
    <3>1. Pick(t) \in t
      BY <2>1 DEF Pick
    <3> QED
      BY <3>1
  <2> HIDE DEF F, L
  <2>2. \A t \in SUBSET (1 .. n) : f[t] = IF t = {} THEN 0 ELSE L(Pick(t)) + f[t \ {Pick(t)}]
    BY <1>12, <2>1 DEF Sums
  <2> QED
    BY <1>1, <1>12, <2>2 DEF Sums
<1>14. v = V(v)
  <2> HIDE DEF V
  <2> QED
    BY <1>13, Zenon
<1> HIDE DEF v
<1>15. \A i \in 0 .. n : u[i] = IF i = 0 THEN 0 ELSE u[i - 1] + W[i]
  <2>1. ASSUME NEW i \in 0 .. n, i # 0 PROVE W[i] = Weighted(i - 1, s[Len(s) - i + 1])
    BY <2>1
  <2> HIDE DEF W
  <2> SUFFICES ASSUME NEW i \in 0 .. n PROVE u[i] = IF i = 0 THEN 0 ELSE u[i - 1] + W[i]
    OBVIOUS
  <2>2. u[i] = U(u)[i]
    BY <1>10, Zenon
  <2> QED
    BY <1>1, <2>1, <2>2
<1>16. \A i \in 0 .. n : u[i] \in Int
  <2> HIDE DEF W
  <2> QED
    BY <1>7, <1>15, UptoNumbers
<1>17. \A t \in SUBSET (1 .. n) : v[t] = IF t = {} THEN 0 ELSE F[Pick(t)] + v[t \ {Pick(t)}]
  <2>1. ASSUME NEW t \in SUBSET (1 .. n), t # {} PROVE F[Pick(t)] = L(Pick(t))
    <3>1. Pick(t) \in t
      BY <2>1 DEF Pick
    <3> QED
      BY <3>1
  <2> HIDE DEF F, L
  <2> SUFFICES ASSUME NEW t \in SUBSET (1 .. n)
               PROVE  v[t] = IF t = {} THEN 0 ELSE F[Pick(t)] + v[t \ {Pick(t)}]
    OBVIOUS
  <2>2. v[t] = V(v)[t]
    BY <1>14, Zenon
  <2> QED
    BY <1>1, <2>1, <2>2
<1>18. DOMAIN v = SUBSET (1 .. n)
  <2>1. DOMAIN V(v) = SUBSET (1 .. n)
    BY <1>1
  <2> HIDE DEF V
  <2> QED
    BY <1>14, <2>1, Zenon
<1> HIDE DEF F, W
<1>19. Sums(v, 1 .. n, F)
  <2>1. \A t \in SUBSET (1 .. n) : v[t] \in Int
    BY <1>5, <1>11, <1>17, SumsNumbers
  <2>2. v = [t \in SUBSET (1 .. n) |-> v[t]]
    <3> DEFINE r == [t \in SUBSET (1 .. n) |-> IF t = {} THEN 0 ELSE L(Pick(t)) + v[t \ {Pick(t)}]]
    <3>1. v = r
      BY <1>1, <1>14
    <3> HIDE DEF r
    <3>2. r = [t \in SUBSET (1 .. n) |-> r[t]]
      BY DEF r
    <3> QED
      BY <3>1, <3>2, Zenon
  <2>3. v \in [SUBSET (1 .. n) -> Int]
    BY <2>1, <2>2
  <2> QED
    BY <1>17, <2>3 DEF Sums
<1>20. \A t \in SUBSET (1 .. n) : \A j \in t : v[t] = F[j] + v[t \ {j}]
  <2> HIDE DEF L, U, V
  <2>1. AnyOrder(v, 1 .. n, F)
    BY <1>5, <1>11, <1>19, SumsAnyOrder
  <2> QED
    BY <2>1, Zenon DEF AnyOrder
<1> DEFINE K == {k \in Nat : k <= n => u[k] = v[(n - k + 1) .. n]}
<1>21. 0 \in K
  <2>1. (n - 0 + 1) .. n = {} /\ {} \in SUBSET (1 .. n)
    OBVIOUS
  <2>2. u[0] = 0
    <3>1. 0 \in 0 .. n
      OBVIOUS
    <3> QED
      BY <1>15, <3>1
  <2>3. v[{}] = 0
    BY <1>17, <2>1
  <2> QED
    BY <2>1, <2>2, <2>3
<1>22. ASSUME NEW k \in Nat, k \in K PROVE k + 1 \in K
  <2> SUFFICES ASSUME k + 1 <= n PROVE u[k + 1] = v[(n - (k + 1) + 1) .. n]
    OBVIOUS
  <2>1. PICK t : t = (n - k + 1) .. n
    OBVIOUS
  <2>2. PICK r : r = (n - (k + 1) + 1) .. n
    OBVIOUS
  <2>3. n - k \in 1 .. n /\ n - k \in r /\ r \ {n - k} = t /\ r \in SUBSET (1 .. n)
    BY <2>1, <2>2
  <2>4. v[r] = F[n - k] + v[t]
    BY <1>20, <2>3
  <2>5. /\ k + 1 \in 0 .. n /\ k + 1 \in 1 .. n /\ k + 1 # 0 /\ (k + 1) - 1 = k /\ k \in 0 .. n
        /\ n - (k + 1) + 1 = n - k
    OBVIOUS
  <2>6. u[k + 1] = u[k] + W[k + 1] /\ W[k + 1] = F[n - k] /\ u[k] = v[t]
    BY <1>6, <1>15, <1>22, <2>1, <2>5
  <2>7. u[k] \in Int /\ W[k + 1] \in Int
    BY <1>6, <1>16, <2>5
  <2> QED
    BY <2>2, <2>4, <2>6, <2>7
<1>23. u[n] = v[(n - n + 1) .. n]
  <2>1. n \in K
    <3> HIDE DEF K
    <3> QED
      BY <1>21, <1>22, SetInduction
  <2> QED
    BY <2>1
<1>24. (n - n + 1) .. n = 1 .. n
  OBVIOUS
<1>25. Checksum(s) = v[1 .. Len(s)]
  BY <1>1, <1>2, <1>23, <1>24, Zenon
<1> QED
  BY <1>3, <1>25, Zenon

\* strtoll reads digits only.
LEMMA ReadsDigits ==
  ASSUME NEW number \in Seq(0 .. 10)
  PROVE  strtoll(number) \in Seq(0 .. 9)
<1> DEFINE Stop  == {i \in 1 .. Len(number) : number[i] = Other}
           Least(T) == CHOOSE i \in T : \A j \in T : i <= j
           end   == IF Stop = {} THEN Len(number) ELSE Least(Stop) - 1
           First == {i \in 1 .. end : number[i] # 0}
<1>1. ASSUME NEW T, T \subseteq Nat, T # {}
      PROVE  Least(T) \in T /\ \A j \in T : Least(T) <= j
  BY <1>1, LeastNumber
<1>2. strtoll(number) = IF First = {} THEN << >> ELSE SubSeq(number, Least(First), end)
  BY DEF strtoll
<1> HIDE DEF Least
<1>3. end \in 0 .. Len(number) /\ \A i \in 1 .. end : number[i] # Other
  <2>1. CASE Stop = {}
    BY <2>1
  <2>2. CASE Stop # {}
    <3>1. Least(Stop) \in Stop /\ \A j \in Stop : Least(Stop) <= j
      <4>1. Stop \subseteq Nat
        OBVIOUS
      <4> HIDE DEF Stop
      <4> QED
        BY <1>1, <2>2, <4>1
    <3>2. end = Least(Stop) - 1 /\ Least(Stop) \in 1 .. Len(number)
      BY <2>2, <3>1
    <3> HIDE DEF end
    <3>3. ASSUME NEW i \in 1 .. end PROVE i \notin Stop /\ i \in 1 .. Len(number)
      BY <3>1, <3>2
    <3> QED
      BY <3>2, <3>3
  <2> QED
    BY <2>1, <2>2
<1> HIDE DEF end
<1>4. CASE First = {}
  BY <1>2, <1>4
<1>5. CASE First # {}
  <2>1. Least(First) \in First
    <3>1. First \subseteq Nat
      OBVIOUS
    <3> HIDE DEF First
    <3> QED
      BY <1>1, <1>5, <3>1
  <2>2. \A i \in Least(First) .. end : number[i] \in 0 .. 9
    BY <1>3, <2>1 DEF Other
  <2>3. SubSeq(number, Least(First), end) \in Seq(0 .. 9)
    BY <1>3, <2>1, <2>2, SubSeqProperties
  <2> QED
    BY <1>2, <1>5, <2>3
<1> QED
  BY <1>4, <1>5

\* The prefixes and lengths that creditcard_validator knows.
LEMMA ValidatorAccepts ==
  ASSUME NEW s \in Seq(0 .. 9)
  PROVE  creditcard_validator(s) \in {"visa", "mastercard"} <=>
           /\ \/ Len(s) \in 13 .. 16 /\ s[1] = 4
              \/ Len(s) = 16 /\ s[1] = 5 /\ s[2] <= 5
              \/ Len(s) = 16 /\ s[1] = 2 /\ s[2] \in 2 .. 7
           /\ Checksum(s) % 10 = 0
<1>2. CASE Len(s) < 2
  BY <1>2 DEF creditcard_validator
<1>3. CASE ~(Len(s) < 2)
  <2>1. s[1] \in 0 .. 9 /\ s[2] \in 0 .. 9 /\ Len(s) \in Nat
    BY <1>3
  <2> DEFINE a == s[1]
             b == s[2]
             f == a * 10 + b
             d == Len(s)
  <2>2. creditcard_validator(s) =
          IF Checksum(s) % 10 # 0 THEN "invalid"
          ELSE CASE d = 15 /\ f \in {34, 37} -> "amex"
                 [] d = 16 /\ f \in (50 .. 55) \cup (22 .. 27) -> "mastercard"
                 [] d \in 13 .. 16 /\ f \div 10 = 4 -> "visa"
                 [] OTHER -> "invalid"
    BY <1>3 DEF creditcard_validator
  <2>3. a \in 0 .. 9 /\ b \in 0 .. 9 /\ d \in Nat
    BY <2>1, Zenon
  <2> HIDE DEF a, b, d
  <2>4. f = a * 10 + b /\ f \in Nat
    BY <2>3
  <2> HIDE DEF f
  <2>5. f \div 10 = a
    BY <2>3, <2>4
  <2>6. f \in (50 .. 55) \cup (22 .. 27) <=> (a = 5 /\ b <= 5) \/ (a = 2 /\ b \in 2 .. 7)
    BY <2>3, <2>4
  <2>7. a = 4 => f \notin {34, 37} /\ f \notin (50 .. 55) \cup (22 .. 27)
    BY <2>3, <2>4
  <2>8. creditcard_validator(s) \in {"visa", "mastercard"} <=>
          /\ \/ d \in 13 .. 16 /\ a = 4
             \/ d = 16 /\ f \in (50 .. 55) \cup (22 .. 27)
          /\ Checksum(s) % 10 = 0
    <3>1. CASE Checksum(s) % 10 # 0
      BY <2>2, <3>1
    <3>2. CASE Checksum(s) % 10 = 0
      <4>1. CASE d = 15 /\ f \in {34, 37}
        <5>1. creditcard_validator(s) = "amex"
          BY <2>2, <2>7, <3>2, <4>1
        <5>2. a # 4 /\ d # 16
          BY <2>7, <4>1
        <5> QED
          BY <5>1, <5>2
      <4>2. CASE d = 16 /\ f \in (50 .. 55) \cup (22 .. 27)
        <5>1. creditcard_validator(s) = "mastercard"
          BY <2>2, <3>2, <4>2
        <5> QED
          BY <3>2, <4>2, <5>1
      <4>3. CASE d \in 13 .. 16 /\ a = 4
        <5>1. f \div 10 = 4 /\ f \notin {34, 37} /\ f \notin (50 .. 55) \cup (22 .. 27)
          BY <2>5, <2>7, <4>3
        <5>2. creditcard_validator(s) = "visa"
          BY <2>2, <3>2, <4>3, <5>1
        <5>3. "visa" \in {"visa", "mastercard"}
          OBVIOUS
        <5> QED
          BY <3>2, <4>3, <5>2, <5>3, Zenon
      <4>4. CASE /\ ~(d = 15 /\ f \in {34, 37})
                 /\ ~(d = 16 /\ f \in (50 .. 55) \cup (22 .. 27))
                 /\ ~(d \in 13 .. 16 /\ a = 4)
        <5>1. creditcard_validator(s) = "invalid"
          BY <2>2, <2>5, <3>2, <4>4
        <5> QED
          BY <4>4, <5>1
      <4> QED
        BY <4>1, <4>2, <4>3, <4>4
    <3> QED
      BY <3>1, <3>2
  <2>9. s[1] = a /\ s[2] = b /\ Len(s) = d
    BY Zenon DEF a, b, d
  <2>10. creditcard_validator(s) \in {"visa", "mastercard"} <=>
           /\ \/ d \in 13 .. 16 /\ a = 4
              \/ d = 16 /\ a = 5 /\ b <= 5
              \/ d = 16 /\ a = 2 /\ b \in 2 .. 7
           /\ Checksum(s) % 10 = 0
    BY <2>6, <2>8
  <2> QED
    BY <2>9, <2>10, Zenon
<1> QED
  BY <1>2, <1>3

LEMMA ApprovedAreGood == Approved = GoodCards
<1> SUFFICES ASSUME NEW c \in Cards PROVE c \in Approved <=> c \in GoodCards
  BY DEF Approved, GoodCards
<1>1. c.number \in Seq(0 .. 10) /\ c.expires \in Nat
  BY CheckoutAssumption DEF Card
<1>2. PICK s : s = strtoll(c.number)
  OBVIOUS
<1>3. s \in Seq(0 .. 9)
  BY <1>1, <1>2, ReadsDigits
<1>4. ~Expired(c) <=> Now <= c.expires
  BY <1>1, PaymentAssumption DEF Expired
<1> QED
  BY <1>2, <1>3, <1>4, LuhnIsChecksum, ValidatorAccepts DEF Approved, GoodCards, Charge

-----------------------------------------------------------------------------
(* Who is charged *)

\* From the answer of the payment service on, an order knows whether its card was
\* approved.
PaidInv ==
  /\ DOMAIN pc = Orders /\ DOMAIN paid = Orders
  /\ \A o \in Orders : pc[o] \in {"ship", "empty", "confirm", "done"} =>
       (paid[o] <=> req[o].card \in Approved)

LEMMA PaidInvNext == PaidInv /\ [Next]_vars => PaidInv'
<1> SUFFICES ASSUME PaidInv, [Next]_vars PROVE PaidInv'
  OBVIOUS
<1>1. ASSUME NEW o \in Orders, NEW from, NEW to, Step(o, from, to), UNCHANGED <<req, paid>>,
             to \in {"ship", "empty", "confirm", "done"} => from \in {"ship", "empty", "confirm", "done"}
      PROVE  PaidInv'
  BY <1>1 DEF PaidInv, Step, Approved
<1>2. ASSUME NEW o \in Orders, Begin(o) PROVE PaidInv'
  <2>1. PICK r : req' = [req EXCEPT ![o] = r]
    BY <1>2 DEF Begin
  <2> QED
    BY <1>2, <2>1 DEF PaidInv, Begin, Step, Approved
<1>3. ASSUME NEW o \in Orders, ChargeReply(o) PROVE PaidInv'
  BY <1>3 DEF PaidInv, ChargeReply, Step, Approved
<1>4. ASSUME NEW o \in Orders, CartReply(o) PROVE PaidInv'
  BY <1>1, <1>4 DEF CartReply
<1>5. ASSUME NEW o \in Orders, ProductReply(o) PROVE PaidInv'
  BY <1>1, <1>5 DEF ProductReply
<1>6. ASSUME NEW o \in Orders, ConvertReply(o) PROVE PaidInv'
  BY <1>1, <1>6 DEF ConvertReply
<1>7. ASSUME NEW o \in Orders, QuoteReply(o) PROVE PaidInv'
  BY <1>1, <1>7 DEF QuoteReply
<1>8. ASSUME NEW o \in Orders, ConvertQuoteReply(o) PROVE PaidInv'
  BY <1>1, <1>8 DEF ConvertQuoteReply
<1>9. ASSUME NEW o \in Orders, ShipReply(o) PROVE PaidInv'
  BY <1>1, <1>9 DEF ShipReply
<1>10. ASSUME NEW o \in Orders, EmptyReply(o) PROVE PaidInv'
  BY <1>1, <1>10 DEF EmptyReply
<1>11. ASSUME NEW o \in Orders, ConfirmReply(o) PROVE PaidInv'
  BY <1>1, <1>11 DEF ConfirmReply
<1>12. ASSUME UNCHANGED <<pc, req, paid>> PROVE PaidInv'
  BY <1>12 DEF PaidInv, Approved
<1> QED
  BY <1>2, <1>3, <1>4, <1>5, <1>6, <1>7, <1>8, <1>9, <1>10, <1>11, <1>12
     DEF Next, PlaceOrder, Exit, vars

\* The payment service makes a transaction exactly for the cards with the length
\* and the prefix of a VISA or mastercard and a right check digit that have not
\* expired (creditcard_validator, Charge), and the order keeps its answer.
THEOREM GoodCardsArePaid == Spec => []AcceptedCards
<1>1. Init => PaidInv
  BY DEF Init, PaidInv
<1>2. PaidInv => AcceptedCards
  BY ApprovedAreGood DEF PaidInv, AcceptedCards
<1> QED
  BY <1>1, <1>2, PaidInvNext, PTL DEF Spec

-----------------------------------------------------------------------------
(* Types *)

\* The types the invariants above do not give.  An order that has begun has its
\* card and its currency.
TypeInv ==
  /\ \A o \in Orders : req[o] = Nothing \/ req[o] \in [card : Cards, currency : Currencies]
  /\ \A o \in Orders : pc[o] # "new" => req[o] \in [card : Cards, currency : Currencies]
  /\ \A o \in Orders : Len(cart[o]) <= MaxItems
  /\ quoted \in [Orders -> Seq(Items)]
  /\ \A o \in Orders : charged[o] = Nothing \/ charged[o] \in Amount
  /\ paid \in [Orders -> BOOLEAN]
  /\ shipped \in [Orders -> Seq(Items)]
  /\ status \in {"run", "exit"}

LEMMA TypeInvInit == Init => TypeInv
<1> SUFFICES ASSUME Init PROVE TypeInv
  OBVIOUS
<1>1. /\ quoted \in [Orders -> Seq(Items)] /\ shipped \in [Orders -> Seq(Items)]
      /\ paid \in [Orders -> BOOLEAN] /\ status \in {"run", "exit"}
  BY DEF Init
<1>2. ASSUME NEW o \in Orders
      PROVE  req[o] = Nothing /\ charged[o] = Nothing /\ pc[o] = "new" /\ Len(cart[o]) <= MaxItems
  BY CheckoutAssumption DEF Init
<1> QED
  BY <1>1, <1>2 DEF TypeInv

\* Where only the progress of an order changes.
LEMMA TypesKept ==
  ASSUME TypeInv, OrderInv, UNCHANGED <<req, cart, quoted, charged, paid, shipped>>,
         status' \in {"run", "exit"},
         \A o \in Orders : pc'[o] # "new" => pc[o] # "new"
  PROVE  TypeInv'
BY DEF TypeInv, Amount

LEMMA TypeInvNext == ASSUME TypeInv, OrderInv, [Next]_vars PROVE TypeInv'
<1>1. /\ pc \in [Orders -> RPCs \cup {"new", "done"}] /\ cart \in [Orders -> Seq(Items)]
      /\ costs \in [Orders -> Seq(Cost)]
      /\ DOMAIN req = Orders /\ DOMAIN charged = Orders
  BY DEF OrderInv
<1>2. ASSUME NEW o \in Orders, NEW from, NEW to, from # "new", Step(o, from, to)
      PROVE  /\ status' \in {"run", "exit"} /\ pc[o] # "new"
             /\ \A q \in Orders : pc'[q] # "new" => pc[q] # "new"
  BY <1>1, <1>2 DEF TypeInv, Step
<1>3. ASSUME NEW o \in Orders, Begin(o) PROVE TypeInv'
  <2>1. PICK card \in Cards, cur \in Currencies :
          req' = [req EXCEPT ![o] = [card |-> card, currency |-> cur]]
    BY <1>3 DEF Begin
  <2>2. req'[o] \in [card : Cards, currency : Currencies]
    BY <1>1, <2>1
  <2>3. \A q \in Orders : q # o => req'[q] = req[q] /\ pc'[q] = pc[q]
    BY <1>1, <1>3, <2>1 DEF Begin, Step
  <2> QED
    BY <1>3, <2>2, <2>3 DEF TypeInv, Amount, Begin, Step
<1>4. ASSUME NEW o \in Orders, CartReply(o) PROVE TypeInv'
  <2>1. PICK s \in Carts : cart' = [cart EXCEPT ![o] = s] /\ Step(o, "cart", pc'[o])
    BY <1>1, <1>4 DEF CartReply, Step
  <2>2. Len(s) <= MaxItems
    <3>1. PICK k \in 0 .. MaxItems : s \in [1 .. k -> Items]
      BY <2>1 DEF Carts
    <3>2. k \in Nat /\ k <= MaxItems
      BY <3>1, CheckoutAssumption
    <3>3. s \in Seq(Items) /\ Len(s) = k
      BY <3>1, <3>2
    <3> QED
      BY <3>2, <3>3
  <2>3. \A q \in Orders : Len(cart'[q]) <= MaxItems
    BY <1>1, <2>1, <2>2 DEF TypeInv
  <2> QED
    BY <1>2, <1>4, <2>1, <2>3 DEF TypeInv, Amount, CartReply
<1>5. ASSUME NEW o \in Orders, QuoteReply(o) PROVE TypeInv'
  BY <1>1, <1>2, <1>5 DEF TypeInv, Amount, QuoteReply
<1>6. ASSUME NEW o \in Orders, ConvertQuoteReply(o) PROVE TypeInv'
  <2> DEFINE a == [shipping |-> quoted[o], in |-> req[o].currency, costs |-> costs[o]]
  <2>1. Step(o, "localize", "charge") /\ charged' = [charged EXCEPT ![o] = a]
    BY <1>6 DEF ConvertQuoteReply
  <2>2. a \in Amount
    BY <1>1, <1>2, <2>1 DEF TypeInv, Amount
  <2> HIDE DEF a
  <2>3. \A q \in Orders : charged'[q] = Nothing \/ charged'[q] \in Amount
    BY <1>1, <2>1, <2>2 DEF TypeInv
  <2> QED
    BY <1>2, <1>6, <2>1, <2>3 DEF TypeInv, ConvertQuoteReply
<1>7. ASSUME NEW o \in Orders, ChargeReply(o) PROVE TypeInv'
  BY <1>1, <1>2, <1>7 DEF TypeInv, Amount, ChargeReply
<1>8. ASSUME NEW o \in Orders, ShipReply(o) PROVE TypeInv'
  BY <1>1, <1>2, <1>8 DEF TypeInv, Amount, ShipReply
<1>9. ASSUME NEW o \in Orders,
             ProductReply(o) \/ ConvertReply(o) \/ EmptyReply(o) \/ ConfirmReply(o)
      PROVE  TypeInv'
  BY <1>2, <1>9, TypesKept DEF ProductReply, ConvertReply, EmptyReply, ConfirmReply
<1>10. ASSUME NEW o \in Orders, Exit(o) PROVE TypeInv'
  BY <1>10, TypesKept DEF Exit
<1>11. CASE UNCHANGED vars
  BY <1>11, TypesKept DEF TypeInv, vars
<1> QED
  BY <1>3, <1>4, <1>5, <1>6, <1>7, <1>8, <1>9, <1>10, <1>11 DEF Next, PlaceOrder

\* Every variable has its type: no cart outgrows Cart.Items, and the pool is
\* never overdrawn nor filled beyond its size.
THEOREM TypeCorrect == Spec => []TypeOK
<1>1. ASSUME TypeInv, OrderInv, BufferInv PROVE TypeOK
  <2>1. pool \in 0 .. PoolSize
    BY <1>1, GroupsFinite, CheckoutAssumption DEF BufferInv
  <2> QED
    BY <1>1, <2>1 DEF TypeInv, OrderInv, TypeOK
<1>2. TypeInv /\ OrderInv /\ [Next]_vars => TypeInv'
  BY TypeInvNext
<1> QED
  BY <1>1, <1>2, TypeInvInit, OrderInvariant, BuffersAccounted, PTL DEF Spec

-----------------------------------------------------------------------------
(* Progress *)

\* The responses order o can still receive before it is done, at most: two for
\* each item without a cost, and one for each of the other calls.
Calls == [new |-> 8, cart |-> 7, product |-> 6, convert |-> 5, quote |-> 6, localize |-> 5,
          charge |-> 4, ship |-> 3, empty |-> 2, confirm |-> 1, done |-> 0]

ToGo(at, items, priced) ==
  2 * (IF at \in {"new", "cart"} THEN MaxItems ELSE items - priced) + Calls[at]

ToCome(o) == ToGo(pc[o], Len(cart[o]), Len(costs[o]))

\* No step leaves an order where it was: it brings one order closer to its end
\* and leaves the others alone, or checkout exits.
Advances ==
  \/ status = "run" /\ status' = "exit" /\ \A o \in Orders : ToCome(o)' = ToCome(o)
  \/ \E o \in Orders : /\ ToCome(o)' < ToCome(o)
                       /\ \A q \in Orders \ {o} : ToCome(q)' = ToCome(q)

LEMMA ToGoIs ==
  ASSUME NEW a \in 0 .. MaxItems, NEW c \in Nat
  PROVE  /\ ToGo("new", a, c) = 2 * MaxItems + 8 /\ ToGo("cart", a, c) = 2 * MaxItems + 7
         /\ ToGo("product", a, c) = 2 * (a - c) + 6 /\ ToGo("convert", a, c) = 2 * (a - c) + 5
         /\ c = a => /\ ToGo("quote", a, c) = 6 /\ ToGo("localize", a, c) = 5
                     /\ ToGo("charge", a, c) = 4 /\ ToGo("ship", a, c) = 3
                     /\ ToGo("empty", a, c) = 2 /\ ToGo("confirm", a, c) = 1
                     /\ ToGo("done", a, c) = 0
BY CheckoutAssumption DEF ToGo, Calls

\* The lengths an order has, by how far it has come.
LEMMA Lengths ==
  ASSUME TypeInv, OrderInv, NEW o \in Orders
  PROVE  /\ Len(cart[o]) \in 0 .. MaxItems /\ Len(costs[o]) \in Nat
         /\ pc[o] \in RPCs \cup {"new", "done"}
         /\ pc[o] \in {"product", "convert"} => Len(costs[o]) < Len(cart[o])
         /\ pc[o] \notin {"new", "cart", "product", "convert"} => Len(costs[o]) = Len(cart[o])
<1>1. cart[o] \in Seq(Items) /\ costs[o] \in Seq(Cost) /\ pc[o] \in RPCs \cup {"new", "done"}
  BY DEF OrderInv
<1>2. Len(cart[o]) \in Nat /\ Len(costs[o]) \in Nat /\ Len(cart[o]) <= MaxItems
  BY <1>1 DEF TypeInv
<1>3. OrderOK(o)
  BY DEF OrderInv
<1> QED
  BY <1>1, <1>2, <1>3, CheckoutAssumption DEF OrderOK

LengthsOK ==
  \A o \in Orders : /\ Len(cart[o]) \in 0 .. MaxItems /\ Len(costs[o]) \in Nat
                    /\ pc[o] = "quote" => Len(costs[o]) = Len(cart[o])

LEMMA LengthsNext == (TypeInv /\ OrderInv => LengthsOK)'
<1>1. TypeInv /\ OrderInv => LengthsOK
  BY Lengths DEF LengthsOK
<1> QED
  BY <1>1, PTL

LEMMA ToGoBound ==
  ASSUME NEW a \in 0 .. MaxItems, NEW c \in Nat, NEW p \in RPCs \cup {"new", "done"},
         p \in {"product", "convert"} => c < a,
         p \notin {"new", "cart", "product", "convert"} => c = a
  PROVE  ToGo(p, a, c) \in 0 .. 2 * MaxItems + 8
<1>1. MaxItems \in Nat
  BY CheckoutAssumption
<1>2. CASE p \in {"new", "cart"}
  BY <1>1, <1>2, ToGoIs
<1>3. CASE p \in {"product", "convert"}
  BY <1>1, <1>3, ToGoIs
<1>4. CASE p \in {"quote", "localize", "charge", "ship", "empty", "confirm", "done"}
  BY <1>1, <1>4, ToGoIs
<1> QED
  BY <1>2, <1>3, <1>4 DEF RPCs

LEMMA ToComeBound ==
  ASSUME TypeInv, OrderInv, NEW o \in Orders
  PROVE  ToCome(o) \in 0 .. 2 * MaxItems + 8
BY Lengths, ToGoBound DEF ToCome

\* What a step leaves to come is less, by where it comes from and goes to.
LEMMA ToGoLess ==
  ASSUME NEW a \in 0 .. MaxItems, NEW b \in 0 .. MaxItems, NEW c \in Nat, NEW d \in Nat
  PROVE  /\ ToGo("cart", b, d) < ToGo("new", a, c)
         /\ ToGo("product", b, d) < ToGo("cart", a, c)
         /\ b = d => ToGo("quote", b, d) < ToGo("cart", a, c)
         /\ ToGo("convert", a, c) < ToGo("product", a, c)
         /\ ToGo("product", a, c + 1) < ToGo("convert", a, c)
         /\ a = c + 1 => ToGo("quote", a, c + 1) < ToGo("convert", a, c)
         /\ a = c => /\ ToGo("localize", a, c) < ToGo("quote", a, c)
                     /\ ToGo("charge", a, c) < ToGo("localize", a, c)
                     /\ ToGo("ship", a, c) < ToGo("charge", a, c)
                     /\ ToGo("empty", a, c) < ToGo("ship", a, c)
                     /\ ToGo("confirm", a, c) < ToGo("empty", a, c)
                     /\ ToGo("done", a, c) < ToGo("confirm", a, c)
<1>1. MaxItems \in Nat /\ c + 1 \in Nat
  BY CheckoutAssumption
<1>2. ToGo("product", a, c + 1) < ToGo("convert", a, c)
  BY <1>1, ToGoIs
<1>3. a = c + 1 => ToGo("quote", a, c + 1) < ToGo("convert", a, c)
  BY <1>1, ToGoIs
<1>4. ToGo("convert", a, c) < ToGo("product", a, c)
  BY <1>1, ToGoIs
<1>5. ToGo("product", b, d) < ToGo("cart", a, c)
  BY <1>1, ToGoIs
<1>6. b = d => ToGo("quote", b, d) < ToGo("cart", a, c)
  BY <1>1, ToGoIs
<1> QED
  BY <1>1, <1>2, <1>3, <1>4, <1>5, <1>6, ToGoIs

LEMMA OthersWait ==
  ASSUME OrderInv, NEW o \in Orders, NEW q \in Orders \ {o}, NEW to,
         pc' = [pc EXCEPT ![o] = to],
         cart' = cart \/ \E s : cart' = [cart EXCEPT ![o] = s],
         costs' = costs \/ \E s : costs' = [costs EXCEPT ![o] = s]
  PROVE  ToCome(q)' = ToCome(q)
<1>1. pc'[q] = pc[q] /\ cart'[q] = cart[q] /\ costs'[q] = costs[q]
  BY DEF OrderInv
<1> QED
  BY <1>1 DEF ToCome

\* One order goes on from one point to a later one, with so many items and costs.
LEMMA OneAdvances ==
  ASSUME OrderInv, NEW o \in Orders, NEW to, pc' = [pc EXCEPT ![o] = to],
         cart' = cart \/ \E s : cart' = [cart EXCEPT ![o] = s],
         costs' = costs \/ \E s : costs' = [costs EXCEPT ![o] = s],
         ToGo(to, Len(cart'[o]), Len(costs'[o])) < ToGo(pc[o], Len(cart[o]), Len(costs[o]))
  PROVE  Advances
<1>1. pc'[o] = to
  BY DEF OrderInv
<1>2. ToCome(o)' < ToCome(o)
  BY <1>1 DEF ToCome
<1> QED
  BY <1>2, OthersWait DEF Advances

LEMMA StepAdvances ==
  ASSUME TypeInv, OrderInv, TypeInv', OrderInv', Next
  PROVE  Advances
<1>1. ASSUME NEW o \in Orders, Exit(o) PROVE Advances
  BY <1>1 DEF Exit, Advances, ToCome
<1>2. ASSUME NEW o \in Orders
      PROVE  /\ Len(cart[o]) \in 0 .. MaxItems /\ Len(costs[o]) \in Nat
             /\ Len(cart'[o]) \in 0 .. MaxItems /\ Len(costs'[o]) \in Nat
             /\ pc[o] \notin {"new", "cart", "product", "convert"} => Len(cart[o]) = Len(costs[o])
             /\ pc'[o] = "quote" => Len(cart'[o]) = Len(costs'[o])
  BY Lengths, LengthsNext DEF LengthsOK
<1>3. DOMAIN pc = Orders /\ DOMAIN costs = Orders
  BY DEF OrderInv
<1>4. ASSUME NEW o \in Orders, Begin(o) PROVE Advances
  <2>1. pc[o] = "new" /\ pc' = [pc EXCEPT ![o] = "cart"] /\ UNCHANGED <<cart, costs>>
    BY <1>4 DEF Begin, Step
  <2>2. ToGo("cart", Len(cart'[o]), Len(costs'[o])) < ToGo("new", Len(cart[o]), Len(costs[o]))
    BY <1>2, ToGoLess
  <2> QED
    BY <2>1, <2>2, OneAdvances
<1>5. ASSUME NEW o \in Orders, CartReply(o) PROVE Advances
  <2>1. PICK to \in {"quote", "product"} : pc[o] = "cart" /\ pc' = [pc EXCEPT ![o] = to]
    BY <1>5 DEF CartReply, Step
  <2>2. (\E s : cart' = [cart EXCEPT ![o] = s]) /\ costs' = costs
    BY <1>5 DEF CartReply
  <2>3. pc'[o] = to
    BY <1>3, <2>1
  <2>4. ToGo(to, Len(cart'[o]), Len(costs'[o])) < ToGo("cart", Len(cart[o]), Len(costs[o]))
    BY <1>2, <2>1, <2>3, ToGoLess
  <2> QED
    BY <2>1, <2>2, <2>4, OneAdvances
<1>6. ASSUME NEW o \in Orders, ProductReply(o) PROVE Advances
  <2>1. pc[o] = "product" /\ pc' = [pc EXCEPT ![o] = "convert"] /\ UNCHANGED <<cart, costs>>
    BY <1>6 DEF ProductReply, Step
  <2>2. ToGo("convert", Len(cart'[o]), Len(costs'[o])) < ToGo("product", Len(cart[o]), Len(costs[o]))
    BY <1>2, <2>1, ToGoLess
  <2> QED
    BY <2>1, <2>2, OneAdvances
<1>7. ASSUME NEW o \in Orders, ConvertReply(o) PROVE Advances
  <2>1. PICK c : costs' = [costs EXCEPT ![o] = Append(@, c)]
    BY <1>7 DEF ConvertReply
  <2>2. PICK to \in {"quote", "product"} : pc[o] = "convert" /\ pc' = [pc EXCEPT ![o] = to]
    BY <1>7 DEF ConvertReply, Step
  <2>3. cart' = cart /\ \E s : costs' = [costs EXCEPT ![o] = s]
    BY <1>7, <2>1 DEF ConvertReply
  <2>4. pc'[o] = to
    BY <1>3, <2>2
  <2>5. Len(costs'[o]) = Len(costs[o]) + 1
    <3>1. costs'[o] = Append(costs[o], c) /\ costs[o] \in Seq(Cost)
      BY <1>3, <2>1 DEF OrderInv
    <3>2. Len(Append(costs[o], c)) = Len(costs[o]) + 1
      BY <3>1
    <3> QED
      BY <3>1, <3>2
  <2>6. ToGo(to, Len(cart'[o]), Len(costs'[o])) < ToGo("convert", Len(cart[o]), Len(costs[o]))
    BY <1>2, <2>2, <2>3, <2>4, <2>5, ToGoLess
  <2> QED
    BY <2>2, <2>3, <2>6, OneAdvances
<1>8. ASSUME NEW o \in Orders,
             \/ QuoteReply(o) \/ ConvertQuoteReply(o) \/ ChargeReply(o)
             \/ ShipReply(o) \/ EmptyReply(o) \/ ConfirmReply(o)
      PROVE  Advances
  <2>1. PICK from \in RPCs, to \in RPCs \cup {"done"} :
          /\ pc[o] = from /\ pc' = [pc EXCEPT ![o] = to]
          /\ <<from, to>> \in {<<"quote", "localize">>, <<"localize", "charge">>,
                               <<"charge", "ship">>, <<"ship", "empty">>,
                               <<"empty", "confirm">>, <<"confirm", "done">>}
    BY <1>8 DEF QuoteReply, ConvertQuoteReply, ChargeReply, ShipReply, EmptyReply,
                ConfirmReply, Step, RPCs
  <2>2. UNCHANGED <<cart, costs>>
    BY <1>8 DEF QuoteReply, ConvertQuoteReply, ChargeReply, ShipReply, EmptyReply, ConfirmReply
  <2>3. ToGo(to, Len(cart'[o]), Len(costs'[o])) < ToGo(from, Len(cart[o]), Len(costs[o]))
    BY <1>2, <2>1, <2>2, ToGoLess
  <2> QED
    BY <2>1, <2>2, <2>3, OneAdvances
<1> QED
  BY <1>1, <1>4, <1>5, <1>6, <1>7, <1>8 DEF Next, PlaceOrder

\* PlaceOrder has no way to go round in circles: every step of it brings its order
\* closer to the end, of which it is 2 * MaxItems + 8 steps away at most, and
\* leaves the other orders where they are.
THEOREM OrdersAdvance ==
  Spec => /\ []\A o \in Orders : ToCome(o) \in 0 .. 2 * MaxItems + 8
          /\ [][Advances]_vars
<1>1. TypeInv /\ OrderInv => \A o \in Orders : ToCome(o) \in 0 .. 2 * MaxItems + 8
  BY ToComeBound
<1>2. TypeInv /\ OrderInv /\ TypeInv' /\ OrderInv' /\ [Next]_vars => [Advances]_vars
  BY StepAdvances
<1>3. TypeInv /\ OrderInv /\ [Next]_vars => TypeInv'
  BY TypeInvNext
<1> QED
  BY <1>1, <1>2, <1>3, TypeInvInit, OrderInvariant, PTL DEF Spec

=============================================================================
