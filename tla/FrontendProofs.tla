-------------------------- MODULE FrontendProofs --------------------------
(***************************************************************************)
(* Proofs about the shop, for every number of browsers and requests, all   *)
(* products, carts, currencies and prices.                                 *)
(*                                                                         *)
(* Nothing that happens to the cart after the first item was added is      *)
(* kept, so that all pages and orders after it see the same cart.  From    *)
(* that and from the order of the RPCs of each page follow the buffers     *)
(* each page holds at any time, the causes for which frontend exits, and   *)
(* the total that a cart page shows.                                       *)
(***************************************************************************)
EXTENDS Frontend, SequenceTheorems, FiniteSetTheorems, WellFoundedInduction, TLAPS

-----------------------------------------------------------------------------
(* The store *)

\* A cart is the first item its user added, and a user who added nothing has none.
FirstItemStays ==
  \A u \in Users : IF adds[u] = {} THEN store[u] = NoCart
                   ELSE \E x \in adds[u] : store[u] = NewCart(x.product, x.quantity)

StoreInv ==
  /\ store \in [Users -> Cart \cup {NoCart}]
  /\ adds \in [Users -> SUBSET Item]
  /\ FirstItemStays

LEMMA NewCartIsCart ==
  ASSUME NEW x \in Item
  PROVE  NewCart(x.product, x.quantity) \in Cart /\ NewCart(x.product, x.quantity) # NoCart
<1>1. NewCart(x.product, x.quantity) \in Cart
  BY CartAssumption DEF NewCart, Cart, Item, Index, BlankItem
<1> QED
  BY <1>1, NoCartAssumption

\* A user has a cart when, and only when, the user added something.
LEMMA CartIffAdded ==
  ASSUME StoreInv, NEW u \in Users
  PROVE  store[u] = NoCart <=> adds[u] = {}
<1>1. CASE adds[u] = {}
  BY <1>1 DEF StoreInv, FirstItemStays
<1>2. CASE adds[u] # {}
  <2>1. PICK x \in adds[u] : store[u] = NewCart(x.product, x.quantity)
    BY <1>2 DEF StoreInv, FirstItemStays
  <2>2. x \in Item
    BY DEF StoreInv
  <2> QED
    BY <1>2, <2>1, <2>2, NewCartIsCart
<1> QED
  BY <1>1, <1>2

\* AddItem makes a cart for a user without one, and else changes only its copy.
LEMMA AddKeeps ==
  ASSUME StoreInv, NEW u \in Users, NEW x \in Item, AddItem(u, x.product, x.quantity)
  PROVE  StoreInv' /\ (store[u] # NoCart => store' = store)
<1> DEFINE y == [product |-> x.product, quantity |-> x.quantity]
<1>1. y \in Item
  BY DEF Item
<1>2. /\ adds' = [adds EXCEPT ![u] = adds[u] \cup {y}]
      /\ store' = IF store[u] = NoCart THEN [store EXCEPT ![u] = NewCart(y.product, y.quantity)]
                  ELSE store
  BY DEF AddItem, Freed
<1>3. NewCart(y.product, y.quantity) \in Cart
  BY <1>1, NewCartIsCart
<1> HIDE DEF y
<1>4. store' \in [Users -> Cart \cup {NoCart}] /\ adds' \in [Users -> SUBSET Item]
  BY <1>1, <1>2, <1>3 DEF StoreInv
<1>5. ASSUME NEW v \in Users
      PROVE  IF adds'[v] = {} THEN store'[v] = NoCart
             ELSE \E z \in adds'[v] : store'[v] = NewCart(z.product, z.quantity)
  <2>1. CASE v # u
    BY <1>2, <2>1 DEF StoreInv, FirstItemStays
  <2>2. CASE v = u /\ store[u] = NoCart
    <3>1. y \in adds'[v] /\ store'[v] = NewCart(y.product, y.quantity)
      BY <1>2, <2>2 DEF StoreInv
    <3> QED
      BY <3>1
  <2>3. CASE v = u /\ store[u] # NoCart
    <3>1. adds[u] # {}
      BY <2>3, CartIffAdded
    <3>2. PICK z \in adds[u] : store[u] = NewCart(z.product, z.quantity)
      BY <3>1 DEF StoreInv, FirstItemStays
    <3>3. z \in adds'[v] /\ store'[v] = NewCart(z.product, z.quantity)
      BY <1>2, <2>3, <3>2 DEF StoreInv
    <3> QED
      BY <3>3
  <2> QED
    BY <2>1, <2>2, <2>3
<1> QED
  BY <1>2, <1>4, <1>5 DEF StoreInv, FirstItemStays

-----------------------------------------------------------------------------
(* The pages *)

\* What a cart page showed, if anything, is the cart of the user.
SeenInv ==
  /\ DOMAIN cart = Browsers
  /\ item \in [Browsers -> Item]
  /\ \A b \in Browsers : cart[b] # << >> => store[USER_ID] # NoCart /\ cart[b] = GetCart(USER_ID)

ShopInv == StoreInv /\ SeenInv

LEMMA ShopInvInit == Init => ShopInv
<1> SUFFICES ASSUME Init PROVE ShopInv
  OBVIOUS
<1>1. StoreInv
  BY DEF Init, CartInit, StoreInv, FirstItemStays
<1>2. SeenInv
  BY DEF Init, SeenInv, Item, BlankItem
<1> QED
  BY <1>1, <1>2 DEF ShopInv

\* A step that leaves the store alone, or writes to a cart that was empty.
LEMMA StoreSteps ==
  ASSUME ShopInv, StoreInv', UNCHANGED <<cart, item>>, store[USER_ID] # NoCart => store' = store
  PROVE  ShopInv'
<1>1. store[USER_ID] # NoCart => GetCart(USER_ID)' = GetCart(USER_ID)
  BY DEF GetCart
<1> QED
  BY <1>1 DEF ShopInv, SeenInv

LEMMA StoreSame ==
  ASSUME StoreInv, UNCHANGED <<store, adds>>
  PROVE  StoreInv' /\ \A u : GetCart(u)' = GetCart(u)
BY DEF StoreInv, FirstItemStays, GetCart

LEMMA RestKeeps ==
  ASSUME ShopInv, UNCHANGED <<store, adds, cart, item>>
  PROVE  ShopInv'
BY StoreSame, StoreSteps DEF ShopInv

LEMMA OpenKeeps ==
  ASSUME ShopInv, NEW b \in Browsers, Open(b)
  PROVE  ShopInv'
<1>1. UNCHANGED <<store, adds>> /\ cart' = [cart EXCEPT ![b] = << >>]
  BY DEF Open, cartVars
<1>2. item' \in [Browsers -> Item]
  <2>1. \E p \in Products \cup {Blank}, q \in Quantities \cup {0} :
          item' = [item EXCEPT ![b] = [product |-> p, quantity |-> q]]
    <3>1. PICK handler : \E p \in IF handler \in {"product", "add"} THEN Products ELSE {Blank},
                            q \in IF handler = "add" THEN Quantities ELSE {0} :
                           item' = [item EXCEPT ![b] = [product |-> p, quantity |-> q]]
      BY DEF Open
    <3> QED
      BY <3>1
  <2>2. item \in [Browsers -> Item]
    BY DEF ShopInv, SeenInv
  <2>3. \A p \in Products \cup {Blank}, q \in Quantities \cup {0} : [product |-> p, quantity |-> q] \in Item
    BY CartAssumption DEF Item
  <2> QED
    BY <2>1, <2>2, <2>3
<1> QED
  BY <1>1, <1>2, StoreSame DEF ShopInv, SeenInv

LEMMA CartReplyKeeps ==
  ASSUME ShopInv, NEW b \in Browsers, CartReply(b)
  PROVE  ShopInv'
<1>1. UNCHANGED <<store, adds, item>>
  BY DEF CartReply, cartVars
<1>2. cart' = cart \/ cart' = [cart EXCEPT ![b] = GetCart(USER_ID)]
  BY <1>1 DEF CartReply
<1>3. GetCart(USER_ID) # << >> => store[USER_ID] # NoCart
  BY DEF GetCart
<1> QED
  BY <1>1, <1>2, <1>3, StoreSame DEF ShopInv, SeenInv

LEMMA AddReplyKeeps ==
  ASSUME ShopInv, NEW b \in Browsers, AddReply(b)
  PROVE  ShopInv'
<1>1. item[b] \in Item /\ USER_ID \in Users /\ AddItem(USER_ID, item[b].product, item[b].quantity)
  BY FrontendAssumption DEF ShopInv, SeenInv, AddReply
<1>2. StoreInv' /\ (store[USER_ID] # NoCart => store' = store)
  BY <1>1, AddKeeps DEF ShopInv
<1> QED
  BY <1>2, StoreSteps DEF AddReply, front, ShopInv, SeenInv

LEMMA EmptyReplyKeeps ==
  ASSUME ShopInv, NEW b \in Browsers, EmptyReply(b)
  PROVE  ShopInv'
<1>1. UNCHANGED <<store, adds, cart, item>>
  BY DEF EmptyReply, EmptyCart, Freed, front
<1> QED
  BY <1>1, RestKeeps DEF ShopInv, SeenInv

\* The steps that have nothing to do with carts.
Elsewhere(b) ==
  \/ Reply(b) \/ SetCurrency(b) \/ CurrenciesReply(b) \/ AdReply(b) \/ ProductsReply(b)
  \/ ProductReply(b) \/ QuoteReply(b) \/ ConvertReply(b) \/ RecommendReply(b) \/ ListReply(b)
  \/ OrderReply(b) \/ Exit(b)

LEMMA ElsewhereSame ==
  ASSUME NEW b \in Browsers, Elsewhere(b)
  PROVE  UNCHANGED <<store, adds, cart, item>>
BY DEF Elsewhere, Reply, SetCurrency, CurrenciesReply, AdReply, ProductsReply, ProductReply,
   QuoteReply, ConvertReply, RecommendReply, ListReply, OrderReply, Exit, front, cartVars

LEMMA ShopInvStep == ShopInv /\ [Next]_vars => ShopInv'
<1> SUFFICES ASSUME ShopInv, [Next]_vars PROVE ShopInv'
  OBVIOUS
<1>1. CASE UNCHANGED vars
  BY <1>1, RestKeeps DEF vars, front, cartVars, ShopInv, SeenInv
<1>2. ASSUME NEW b \in Browsers, Elsewhere(b) PROVE ShopInv'
  BY <1>2, ElsewhereSame, RestKeeps DEF ShopInv, SeenInv
<1>3. ASSUME NEW b \in Browsers, Open(b) \/ CartReply(b) \/ AddReply(b) \/ EmptyReply(b)
      PROVE  ShopInv'
  BY <1>3, OpenKeeps, CartReplyKeeps, AddReplyKeeps, EmptyReplyKeeps
<1> QED
  BY <1>1, <1>2, <1>3 DEF Next, PageStep, Elsewhere

LEMMA ShopInvariant == Spec => []ShopInv
<1> QED
  BY ShopInvInit, ShopInvStep, PTL DEF Spec

-----------------------------------------------------------------------------
(* The RPCs of the pages *)

Rpcs == {"currencies", "cart", "products", "product", "convert", "recommend", "list", "ad", "quote",
         "add", "empty", "order", "purge"}

\* Which RPC follows which on a page, and which are the last.
Flow(p) ==
  CASE p = "home"    -> {<<"currencies", "cart">>, <<"cart", "products">>, <<"products", "end">>,
                         <<"convert", "convert">>, <<"convert", "ad">>, <<"ad", "end">>}
    [] p = "product" -> {<<"product", "currencies">>, <<"currencies", "cart">>, <<"cart", "convert">>,
                         <<"convert", "recommend">>, <<"recommend", "list">>, <<"list", "ad">>,
                         <<"ad", "end">>}
    [] p = "cart"    -> {<<"currencies", "cart">>, <<"cart", "recommend">>, <<"recommend", "list">>,
                         <<"list", "quote">>, <<"quote", "convert">>, <<"convert", "product">>,
                         <<"product", "convert">>, <<"convert", "end">>}
    [] p = "add"     -> {<<"product", "add">>, <<"add", "end">>}
    [] p = "empty"   -> {<<"empty", "end">>}
    [] p = "order"   -> {<<"order", "purge">>, <<"purge", "recommend">>, <<"recommend", "list">>,
                         <<"list", "currencies">>, <<"currencies", "end">>}

At(t, j) == IF j \in 1 .. Len(t) THEN t[j] ELSE "end"

\* The RPCs t are the rest of a page p.
Chain(p, t) == t \in Seq(Rpcs) /\ \A j \in 1 .. Len(t) : <<At(t, j), At(t, j + 1)>> \in Flow(p)

\* The cart page looks up the price of one item, which is all a cart has.
OneItem(t) == \A j \in 1 .. Len(t) : t[j] = "product" =>
                j = Len(t) - 1 /\ t[1] \notin {"currencies", "cart"}

\* The RPC a page waits for.
Now(b) == At(todo[b], 1)

PageInv ==
  /\ page \in [Browsers -> Pages \cup {"none", "seen"}]
  /\ todo \in [Browsers -> Seq(Rpcs)]
  /\ \A b \in Browsers : todo[b] # << >> =>
       /\ page[b] \in Pages /\ Chain(page[b], todo[b])
       /\ page[b] = "cart" =>
            /\ OneItem(todo[b])
            /\ (\E j \in 1 .. Len(todo[b]) : todo[b][j] = "product") => cart[b] # << >>

\* The currency of an RPC is one that a browser set, and the price a page
\* converts is that of its product, or of the only item of the cart.
PriceInv ==
  /\ currency \in Currencies \cup {CAD}
  /\ DOMAIN req = Browsers /\ DOMAIN price = Browsers
  /\ \A b \in Browsers :
       /\ Now(b) \in {"convert", "order"} => req[b] \in Currencies \cup {CAD}
       /\ page[b] = "product" /\ Now(b) \in {"currencies", "cart", "convert"}
            => price[b] \in GetProduct(item[b].product)
       /\ page[b] = "cart" /\ Now(b) = "convert"
            => \/ price[b] = "quote"
               \/ cart[b] # << >> /\ price[b] \in GetProduct(cart[b][1].product)

\* The buffers a page holds while it waits for RPC r.
HoldsAt(p, r) ==
  IF r = "list" THEN IF p = "order" THEN 2 ELSE 1
  ELSE IF <<p, r>> \in {<<"home", "convert">>, <<"order", "recommend">>} THEN 1 ELSE 0

Holds == [b \in Browsers |-> HoldsAt(page[b], Now(b))]
Tokens(h) == {x \in Browsers \X {1, 2} : x[2] <= h[x[1]]}

HeldInv == pool = PoolSize - Cardinality(Tokens(Holds))

\* The rest of a page, one RPC later.
LEMMA ChainTail ==
  ASSUME NEW p, NEW t, Chain(p, t), t # << >>
  PROVE  /\ Tail(t) \in Seq(Rpcs) /\ Chain(p, Tail(t))
         /\ At(t, 1) = Head(t) /\ At(Tail(t), 1) = At(t, 2)
         /\ <<At(t, 1), At(t, 2)>> \in Flow(p)
         /\ Len(t) \in Nat \ {0} /\ Len(Tail(t)) = Len(t) - 1
         /\ \A j \in 1 .. Len(t) - 1 : Tail(t)[j] = t[j + 1]
<1> DEFINE n == Len(t)
           u == Tail(t)
<1>1. t \in Seq(Rpcs) /\ n \in Nat \ {0}
  BY EmptySeq DEF Chain
<1>2. /\ u \in Seq(Rpcs) /\ Len(u) = n - 1 /\ Head(t) = t[1]
      /\ \A j \in 1 .. n - 1 : u[j] = t[j + 1]
  BY <1>1, HeadTailProperties
<1> HIDE DEF u
<1>3. \A j \in Nat \ {0} : At(u, j) = At(t, j + 1)
  <2> SUFFICES ASSUME NEW j \in Nat \ {0} PROVE At(u, j) = At(t, j + 1)
    OBVIOUS
  <2>1. j \in 1 .. n - 1 <=> j + 1 \in 1 .. n
    BY <1>1
  <2> QED
    BY <1>1, <1>2, <2>1 DEF At
<1>4. ASSUME NEW j \in 1 .. Len(u) PROVE <<At(u, j), At(u, j + 1)>> \in Flow(p)
  <2>1. j + 1 \in 1 .. n /\ j \in Nat \ {0} /\ j + 1 \in Nat \ {0}
    BY <1>1, <1>2
  <2>2. <<At(t, j + 1), At(t, (j + 1) + 1)>> \in Flow(p)
    BY <2>1 DEF Chain
  <2> QED
    BY <1>3, <2>1, <2>2
<1>5. 1 \in 1 .. n /\ 1 + 1 = 2
  BY <1>1
<1>6. <<At(t, 1), At(t, 2)>> \in Flow(p)
  BY <1>5 DEF Chain
<1>7. At(t, 1) = Head(t)
  BY <1>2, <1>5 DEF At
<1>8. At(u, 1) = At(t, 2)
  BY <1>3, <1>5
<1> QED
  BY <1>1, <1>2, <1>4, <1>6, <1>7, <1>8 DEF Chain, u

\* So with the one item.
LEMMA OneItemTail ==
  ASSUME NEW t, Chain("cart", t), t # << >>, OneItem(t)
  PROVE  OneItem(Tail(t))
<1>1. /\ Len(t) \in Nat \ {0} /\ Len(Tail(t)) = Len(t) - 1 /\ <<At(t, 1), At(t, 2)>> \in Flow("cart")
      /\ \A j \in 1 .. Len(t) - 1 : Tail(t)[j] = t[j + 1]
  BY ChainTail
<1> SUFFICES ASSUME NEW j \in 1 .. Len(t) - 1, Tail(t)[j] = "product"
             PROVE  j = (Len(t) - 1) - 1 /\ Tail(t)[1] \notin {"currencies", "cart"}
  BY <1>1 DEF OneItem
<1>2. j + 1 \in 1 .. Len(t) /\ t[j + 1] = "product" /\ 1 \in 1 .. Len(t) /\ 2 \in 1 .. Len(t)
  BY <1>1
<1>3. j + 1 = Len(t) - 1 /\ t[1] \notin {"currencies", "cart"}
  BY <1>2 DEF OneItem
<1>4. Tail(t)[1] = t[2]
  BY <1>1, <1>2
<1>5. <<t[1], t[2]>> \in Flow("cart")
  BY <1>1, <1>2 DEF At
<1>6. t[2] \notin {"currencies", "cart"}
  BY <1>3, <1>5 DEF Flow
<1>7. Tail(t)[1] \notin {"currencies", "cart"}
  BY <1>4, <1>6
<1> DEFINE l == Len(t)
<1>8. l \in Nat /\ j \in 1 .. l - 1 /\ j + 1 = l - 1
  BY <1>1, <1>3
<1> HIDE DEF l
<1>9. j = (l - 1) - 1
  BY <1>8
<1> QED
  BY <1>7, <1>9 DEF l

\* A page that goes on.
LEMMA GoFacts ==
  ASSUME PageInv, NEW b \in Browsers, NEW rest \in Seq(Rpcs), Go(b, rest)
  PROVE  /\ todo'[b] = rest /\ todo' \in [Browsers -> Seq(Rpcs)]
         /\ page' \in [Browsers -> Pages \cup {"none", "seen"}]
         /\ rest # << >> => page'[b] = page[b]
         /\ \A d \in Browsers \ {b} : todo'[d] = todo[d] /\ page'[d] = page[d]
         /\ req' = [req EXCEPT ![b] = IF At(rest, 1) \in {"convert", "order"}
                                      THEN currency ELSE NoCurrency]
         /\ currency' = currency
<1>1. todo' = [todo EXCEPT ![b] = rest] /\ currency' = currency
  BY DEF Go, Continue
<1>2. todo'[b] = rest /\ todo' \in [Browsers -> Seq(Rpcs)]
      /\ \A d \in Browsers \ {b} : todo'[d] = todo[d]
  BY <1>1 DEF PageInv
<1>3. /\ page' \in [Browsers -> Pages \cup {"none", "seen"}]
      /\ rest # << >> => page'[b] = page[b]
      /\ \A d \in Browsers \ {b} : page'[d] = page[d]
  BY DEF Go, PageInv
<1>4. (rest # << >> /\ Head(rest) \in {"convert", "order"}) <=> At(rest, 1) \in {"convert", "order"}
  <2>1. CASE rest = << >>
    BY <2>1, EmptySeq DEF At
  <2>2. CASE rest # << >>
    <3>1. Len(rest) \in Nat \ {0} /\ Head(rest) = rest[1]
      BY <2>2, EmptySeq, HeadTailProperties
    <3>2. At(rest, 1) = Head(rest)
      BY <3>1 DEF At
    <3> QED
      BY <2>2, <3>2
  <2> QED
    BY <2>1, <2>2
<1>5. req' = [req EXCEPT ![b] = IF rest # << >> /\ Head(rest) \in {"convert", "order"}
                                THEN currency ELSE NoCurrency]
  BY DEF Go, Continue
<1>6. req' = [req EXCEPT ![b] = IF At(rest, 1) \in {"convert", "order"} THEN currency ELSE NoCurrency]
  BY <1>4, <1>5
<1> QED
  BY <1>1, <1>2, <1>3, <1>6

\* Pages after a step of one of them.
LEMMA PageKept ==
  ASSUME PageInv, NEW b \in Browsers, todo[b] # << >>, NEW rest \in Seq(Rpcs), Go(b, rest),
         Chain(page[b], rest),
         page[b] = "cart" =>
           OneItem(rest) /\ ((\E j \in 1 .. Len(rest) : rest[j] = "product") => cart'[b] # << >>),
         \A d \in Browsers \ {b} : cart'[d] = cart[d]
  PROVE  PageInv'
<1>1. /\ todo'[b] = rest /\ todo' \in [Browsers -> Seq(Rpcs)]
      /\ page' \in [Browsers -> Pages \cup {"none", "seen"}]
      /\ rest # << >> => page'[b] = page[b]
      /\ \A d \in Browsers \ {b} : todo'[d] = todo[d] /\ page'[d] = page[d]
  BY GoFacts
<1>2. page[b] \in Pages
  BY DEF PageInv
<1>3. ASSUME NEW d \in Browsers, todo'[d] # << >>
      PROVE  /\ page'[d] \in Pages /\ Chain(page'[d], todo'[d])
             /\ page'[d] = "cart" =>
                  /\ OneItem(todo'[d])
                  /\ (\E j \in 1 .. Len(todo'[d]) : todo'[d][j] = "product") => cart'[d] # << >>
  <2>1. CASE d = b
    BY <1>1, <1>2, <1>3, <2>1
  <2>2. CASE d # b
    BY <1>1, <1>3, <2>2 DEF PageInv
  <2> QED
    BY <2>1, <2>2
<1> QED
  BY <1>1, <1>3 DEF PageInv

\* A page that goes on with its next RPC.
LEMMA PageNext ==
  ASSUME PageInv, NEW b \in Browsers, todo[b] # << >>, Go(b, Then(b)), UNCHANGED cart
  PROVE  PageInv'
<1>1. Chain(page[b], todo[b]) /\ Then(b) = Tail(todo[b])
  BY DEF PageInv, Then
<1>2. /\ Then(b) \in Seq(Rpcs) /\ Chain(page[b], Then(b)) /\ Len(todo[b]) \in Nat \ {0}
      /\ Len(Then(b)) = Len(todo[b]) - 1
      /\ \A j \in 1 .. Len(todo[b]) - 1 : Then(b)[j] = todo[b][j + 1]
  BY <1>1, ChainTail
<1>3. ASSUME page[b] = "cart"
      PROVE  OneItem(Then(b)) /\ ((\E j \in 1 .. Len(Then(b)) : Then(b)[j] = "product") => cart[b] # << >>)
  <2>1. OneItem(todo[b])
    BY <1>3 DEF PageInv
  <2>2. OneItem(Then(b))
    BY <1>1, <1>3, <2>1, OneItemTail
  <2>3. ASSUME NEW j \in 1 .. Len(Then(b)), Then(b)[j] = "product" PROVE cart[b] # << >>
    <3>1. j + 1 \in 1 .. Len(todo[b]) /\ todo[b][j + 1] = "product"
      BY <1>2, <2>3
    <3> QED
      BY <1>3, <3>1 DEF PageInv
  <2> QED
    BY <2>2, <2>3
<1> QED
  BY <1>2, <1>3, PageKept
-----------------------------------------------------------------------------
(* The buffers of the pages *)

LEMMA PairOfNumbers == IsFiniteSet({1, 2}) /\ Cardinality({1, 2}) = 2
<1>1. IsFiniteSet({1}) /\ Cardinality({1}) = 1
  BY FS_Singleton
<1>2. 2 \notin {1} /\ {1} \cup {2} = {1, 2}
  OBVIOUS
<1>3. IsFiniteSet({1} \cup {2}) /\ Cardinality({1} \cup {2}) = Cardinality({1}) + 1
  BY <1>1, <1>2, FS_AddElement
<1> QED
  BY <1>1, <1>2, <1>3

\* The tokens when one page holds m buffers.
LEMMA TokenCount ==
  ASSUME NEW h \in [Browsers -> 0 .. 2], NEW b \in Browsers, NEW m \in 0 .. 2
  PROVE  /\ IsFiniteSet(Tokens(h)) /\ Cardinality(Tokens(h)) \in Nat
         /\ Cardinality(Tokens([h EXCEPT ![b] = m])) = Cardinality(Tokens(h)) - h[b] + m
<1> DEFINE R == {x \in Tokens(h) : x[1] # b}
           x1 == <<b, 1>>
           x2 == <<b, 2>>
<1>1. IsFiniteSet(Browsers \X {1, 2})
  <2>1. IsFiniteSet({1, 2})
    BY PairOfNumbers
  <2> QED
    BY <2>1, FrontendAssumption, FS_Product
<1>2. \A g : IsFiniteSet(Tokens(g)) /\ Cardinality(Tokens(g)) \in Nat
  BY <1>1, FS_Subset, FS_CardinalityType DEF Tokens
<1>3. IsFiniteSet(R) /\ Cardinality(R) \in Nat
  BY <1>2, FS_Subset, FS_CardinalityType
<1>4. ASSUME NEW g \in [Browsers -> 0 .. 2], \A d \in Browsers \ {b} : g[d] = h[d]
      PROVE  Cardinality(Tokens(g)) = Cardinality(R) + g[b]
  <2>1. \A x : x \in R <=> x \in Browsers \X {1, 2} /\ x[1] # b /\ x[2] <= h[x[1]]
    BY DEF Tokens
  <2>2. x1 \notin R /\ x2 \notin R /\ x1 # x2
    OBVIOUS
  <2>3. \A x \in Browsers \X {1, 2} : x[1] = b => x = x1 \/ x = x2
    OBVIOUS
  <2>4. CASE g[b] = 0
    <3>1. Tokens(g) = R
      <4>1. \A x \in Tokens(g) : x[1] # b
        BY <2>4 DEF Tokens
      <4> QED
        BY <1>4, <2>1, <4>1 DEF Tokens
    <3> QED
      BY <1>3, <2>4, <3>1
  <2>5. CASE g[b] = 1
    <3>1. Tokens(g) = R \cup {x1}
      <4>1. x1 \in Tokens(g) /\ x2 \notin Tokens(g)
        BY <2>5 DEF Tokens
      <4>2. \A x \in Browsers \X {1, 2} : x[1] # b => (x \in Tokens(g) <=> x \in R)
        BY <1>4, <2>1 DEF Tokens
      <4>3. Tokens(g) \subseteq Browsers \X {1, 2} /\ R \subseteq Browsers \X {1, 2}
        BY DEF Tokens
      <4> HIDE DEF x1, x2, R
      <4> QED
        BY <2>1, <2>3, <4>1, <4>2, <4>3
    <3> QED
      BY <1>3, <2>2, <2>5, <3>1, FS_AddElement
  <2>6. CASE g[b] = 2
    <3>1. Tokens(g) = (R \cup {x1}) \cup {x2}
      <4>1. x1 \in Tokens(g) /\ x2 \in Tokens(g)
        BY <2>6 DEF Tokens
      <4>2. \A x \in Browsers \X {1, 2} : x[1] # b => (x \in Tokens(g) <=> x \in R)
        BY <1>4, <2>1 DEF Tokens
      <4>3. Tokens(g) \subseteq Browsers \X {1, 2} /\ R \subseteq Browsers \X {1, 2}
        BY DEF Tokens
      <4> HIDE DEF x1, x2, R
      <4> QED
        BY <2>1, <2>3, <4>1, <4>2, <4>3
    <3>2. PICK Q : Q = R \cup {x1}
      OBVIOUS
    <3>3. IsFiniteSet(Q) /\ Cardinality(Q) = Cardinality(R) + 1 /\ x2 \notin Q
      BY <1>3, <2>2, <3>2, FS_AddElement
    <3>4. Cardinality(Tokens(g)) = (Cardinality(R) + 1) + 1
      <4> HIDE DEF x1, x2, R
      <4>1. Cardinality(Q \cup {x2}) = Cardinality(Q) + 1
        BY <3>3, FS_AddElement
      <4> QED
        BY <3>1, <3>2, <3>3, <4>1
    <3> QED
      BY <1>3, <2>6, <3>4
  <2> QED
    BY <1>4, <2>4, <2>5, <2>6
<1> DEFINE g == [h EXCEPT ![b] = m]
<1>5. g \in [Browsers -> 0 .. 2] /\ g[b] = m /\ \A d \in Browsers \ {b} : g[d] = h[d]
  OBVIOUS
<1> HIDE DEF R, g
<1>6. Cardinality(Tokens(g)) = Cardinality(R) + m
  BY <1>4, <1>5
<1>7. Cardinality(Tokens(h)) = Cardinality(R) + h[b] /\ h[b] \in 0 .. 2
  BY <1>4
<1>8. Cardinality(Tokens(g)) = Cardinality(Tokens(h)) - h[b] + m
  BY <1>3, <1>6, <1>7
<1> QED
  BY <1>2, <1>8 DEF g

\* The pool after a step of a page.
LEMMA HeldKept ==
  ASSUME HeldInv, pool \in Int, NEW b \in Browsers, NEW m \in 0 .. 2,
         NEW h \in [Browsers -> 0 .. 2], h = Holds, Holds' = [h EXCEPT ![b] = m],
         pool' = pool + h[b] - m
  PROVE  HeldInv' /\ pool' \in Int
<1> DEFINE c == Cardinality(Tokens(h))
<1>1. c \in Nat /\ Cardinality(Tokens([h EXCEPT ![b] = m])) = c - h[b] + m
  BY TokenCount
<1>2. pool = PoolSize - c
  BY DEF HeldInv
<1>3. \A g : g = Holds' => Cardinality(Tokens(g)) = c - h[b] + m
  BY <1>1
<1> HIDE DEF c
<1>4. pool' = PoolSize - (c - h[b] + m) /\ pool' \in Int
  BY <1>1, <1>2, FrontendAssumption
<1>5. \A g : g = Holds' => pool' = PoolSize - Cardinality(Tokens(g))
  BY <1>3, <1>4
<1>6. \A g : g = Holds' => Tokens(g) = Tokens(Holds)'
  BY DEF Tokens
<1> QED
  BY <1>4, <1>5, <1>6 DEF HeldInv

LEMMA HoldsType ==
  /\ \A p, r : HoldsAt(p, r) \in 0 .. 2
  /\ \A p : HoldsAt(p, "end") = 0
  /\ Holds \in [Browsers -> 0 .. 2]
<1>1. \A p, r : HoldsAt(p, r) \in 0 .. 2
  BY DEF HoldsAt
<1>2. \A p : HoldsAt(p, "end") = 0
  BY DEF HoldsAt
<1> QED
  BY <1>1, <1>2 DEF Holds

\* What pages hold when one of them goes on.
LEMMA HoldsGo ==
  ASSUME PageInv, NEW b \in Browsers, NEW rest \in Seq(Rpcs), Go(b, rest),
         NEW h, h = Holds
  PROVE  Holds' = [h EXCEPT ![b] = HoldsAt(page[b], At(rest, 1))]
<1>1. /\ todo'[b] = rest
      /\ rest # << >> => page'[b] = page[b]
      /\ \A d \in Browsers \ {b} : todo'[d] = todo[d] /\ page'[d] = page[d]
  BY GoFacts
<1>2. Holds' = [d \in Browsers |-> HoldsAt(page'[d], At(todo'[d], 1))]
  BY DEF Holds, Now
<1>3. \A d \in Browsers \ {b} : HoldsAt(page'[d], At(todo'[d], 1)) = h[d]
  BY <1>1 DEF Holds, Now
<1>4. HoldsAt(page'[b], At(todo'[b], 1)) = HoldsAt(page[b], At(rest, 1))
  <2>1. CASE rest = << >>
    <3>1. At(rest, 1) = "end"
      BY <2>1, EmptySeq DEF At
    <3> QED
      BY <1>1, <3>1, HoldsType
  <2>2. CASE rest # << >>
    BY <1>1, <2>2
  <2> QED
    BY <2>1, <2>2
<1>5. DOMAIN h = Browsers
  BY DEF Holds
<1> QED
  BY <1>2, <1>3, <1>4, <1>5 DEF Holds

LEMMA HeldGo ==
  ASSUME PageInv, HeldInv, NEW b \in Browsers, NEW rest \in Seq(Rpcs), Go(b, rest),
         pool' = pool + HoldsAt(page[b], Now(b)) - HoldsAt(page[b], At(rest, 1))
  PROVE  HeldInv'
<1>1. PICK h : h = Holds
  OBVIOUS
<1>2. h \in [Browsers -> 0 .. 2] /\ h[b] = HoldsAt(page[b], Now(b))
  BY <1>1, HoldsType DEF Holds
<1>3. Holds' = [h EXCEPT ![b] = HoldsAt(page[b], At(rest, 1))]
  BY <1>1, HoldsGo
<1>4. pool \in Int
  <2>1. Cardinality(Tokens(h)) \in Nat
    BY <1>2, TokenCount, HoldsType
  <2> QED
    BY <1>1, <2>1, FrontendAssumption DEF HeldInv
<1>5. PICK m : m = HoldsAt(page[b], At(rest, 1))
  OBVIOUS
<1>6. m \in 0 .. 2
  BY <1>5, HoldsType
<1>7. pool' = pool + h[b] - m
  BY <1>2, <1>5
<1> QED
  BY <1>1, <1>2, <1>3, <1>4, <1>5, <1>6, <1>7, HeldKept

LEMMA HeldSame ==
  ASSUME HeldInv, \A d \in Browsers : HoldsAt(page'[d], At(todo'[d], 1)) = HoldsAt(page[d], At(todo[d], 1)),
         UNCHANGED pool
  PROVE  HeldInv'
<1>1. Holds' = Holds
  BY DEF Holds, Now
<1> QED
  BY <1>1 DEF HeldInv, Tokens

-----------------------------------------------------------------------------
(* What is converted *)

\* Prices and currencies when a page goes on.
LEMMA PriceGo ==
  ASSUME PageInv, PriceInv, NEW b \in Browsers, NEW rest \in Seq(Rpcs), Go(b, rest),
         DOMAIN price' = Browsers, UNCHANGED item,
         \A d \in Browsers \ {b} : price'[d] = price[d] /\ cart'[d] = cart[d],
         page[b] = "product" /\ At(rest, 1) \in {"currencies", "cart", "convert"}
           => price'[b] \in GetProduct(item[b].product),
         page[b] = "cart" /\ At(rest, 1) = "convert"
           => \/ price'[b] = "quote"
              \/ cart'[b] # << >> /\ price'[b] \in GetProduct(cart'[b][1].product)
  PROVE  PriceInv'
<1>1. /\ todo'[b] = rest
      /\ rest # << >> => page'[b] = page[b]
      /\ \A d \in Browsers \ {b} : todo'[d] = todo[d] /\ page'[d] = page[d]
      /\ req' = [req EXCEPT ![b] = IF At(rest, 1) \in {"convert", "order"}
                                   THEN currency ELSE NoCurrency]
      /\ currency' = currency
  BY GoFacts
<1>2. currency' \in Currencies \cup {CAD} /\ DOMAIN req' = Browsers
  BY <1>1 DEF PriceInv
<1>3. At(rest, 1) # "end" => rest # << >>
  BY EmptySeq DEF At
<1>4. ASSUME NEW d \in Browsers
      PROVE  /\ At(todo'[d], 1) \in {"convert", "order"} => req'[d] \in Currencies \cup {CAD}
             /\ page'[d] = "product" /\ At(todo'[d], 1) \in {"currencies", "cart", "convert"}
                  => price'[d] \in GetProduct(item'[d].product)
             /\ page'[d] = "cart" /\ At(todo'[d], 1) = "convert"
                  => \/ price'[d] = "quote"
                     \/ cart'[d] # << >> /\ price'[d] \in GetProduct(cart'[d][1].product)
  <2>1. CASE d = b
    <3>1. At(todo'[d], 1) \in {"convert", "order"} => req'[d] \in Currencies \cup {CAD}
      BY <1>1, <2>1 DEF PriceInv
    <3>2. At(todo'[d], 1) \in {"currencies", "cart", "convert"} => page'[d] = page[d]
      BY <1>1, <1>3, <2>1
    <3> QED
      BY <1>1, <2>1, <3>1, <3>2
  <2>2. CASE d # b
    <3>1. req'[d] = req[d] /\ todo'[d] = todo[d] /\ page'[d] = page[d] /\ price'[d] = price[d]
          /\ cart'[d] = cart[d] /\ item'[d] = item[d]
      BY <1>1, <2>2 DEF PriceInv
    <3> QED
      BY <3>1 DEF PriceInv, Now
  <2> QED
    BY <2>1, <2>2
<1> QED
  BY <1>2, <1>4 DEF PriceInv, Now, GetProduct, products

-----------------------------------------------------------------------------
(* The RPCs that pages start with, or add *)

LEMMA CallsChain ==
  ASSUME NEW p \in Pages
  PROVE  /\ Calls(p) \in Seq(Rpcs) /\ Calls(p) # << >> /\ Chain(p, Calls(p))
         /\ At(Calls(p), 1) \in {"currencies", "product", "empty", "order"}
         /\ p = "cart" => At(Calls(p), 1) = "currencies"
         /\ p = "product" => At(Calls(p), 1) = "product"
         /\ p = "cart" => \A j \in 1 .. Len(Calls(p)) : Calls(p)[j] # "product"
<1>a. PICK c : c = Calls(p)
  OBVIOUS
<1>1. CASE p = "home"
  <2>1. c = <<"currencies", "cart", "products">>
    BY <1>a, <1>1 DEF Calls
  <2>2. c \in Seq(Rpcs) /\ Len(c) = 3
    BY <2>1 DEF Rpcs
  <2>3. c[1] = "currencies" /\ c[2] = "cart" /\ c[3] = "products"
    BY <2>1
  <2>4. \A j \in 1 .. 3 : j = 1 \/ j = 2 \/ j = 3
    OBVIOUS
  <2>5. At(c, 1) = "currencies" /\ At(c, 2) = "cart" /\ At(c, 3) = "products" /\ At(c, 4) = "end"
    BY <2>2, <2>3 DEF At
  <2>6. /\ <<"currencies", "cart">> \in Flow(p) /\ <<"cart", "products">> \in Flow(p)
        /\ <<"products", "end">> \in Flow(p)
    BY <1>1 DEF Flow
  <2>7. /\ <<At(c, 1), At(c, 1 + 1)>> \in Flow(p) /\ <<At(c, 2), At(c, 2 + 1)>> \in Flow(p)
        /\ <<At(c, 3), At(c, 3 + 1)>> \in Flow(p)
    BY <2>5, <2>6
  <2>8. \A j \in 1 .. 3 : <<At(c, j), At(c, j + 1)>> \in Flow(p)
    BY <2>4, <2>7
  <2>9. Chain(p, c)
    BY <2>2, <2>8 DEF Chain
  <2> QED
    BY <1>a, <1>1, <2>2, <2>3, <2>4, <2>5, <2>9, EmptySeq
<1>2. CASE p = "product"
  <2>1. c = <<"product", "currencies", "cart", "convert", "recommend", "list", "ad">>
    BY <1>a, <1>2 DEF Calls
  <2>2. c \in Seq(Rpcs) /\ Len(c) = 7
    BY <2>1 DEF Rpcs
  <2>3. /\ c[1] = "product" /\ c[2] = "currencies" /\ c[3] = "cart" /\ c[4] = "convert"
        /\ c[5] = "recommend" /\ c[6] = "list" /\ c[7] = "ad"
    BY <2>1
  <2>4. \A j \in 1 .. 7 : j = 1 \/ j = 2 \/ j = 3 \/ j = 4 \/ j = 5 \/ j = 6 \/ j = 7
    OBVIOUS
  <2>5. /\ At(c, 1) = "product" /\ At(c, 2) = "currencies" /\ At(c, 3) = "cart"
        /\ At(c, 4) = "convert" /\ At(c, 5) = "recommend" /\ At(c, 6) = "list" /\ At(c, 7) = "ad"
        /\ At(c, 8) = "end"
    BY <2>2, <2>3 DEF At
  <2>6. /\ <<"product", "currencies">> \in Flow(p) /\ <<"currencies", "cart">> \in Flow(p)
        /\ <<"cart", "convert">> \in Flow(p) /\ <<"convert", "recommend">> \in Flow(p)
        /\ <<"recommend", "list">> \in Flow(p) /\ <<"list", "ad">> \in Flow(p)
        /\ <<"ad", "end">> \in Flow(p)
    BY <1>2 DEF Flow
  <2>7. /\ <<At(c, 1), At(c, 1 + 1)>> \in Flow(p) /\ <<At(c, 2), At(c, 2 + 1)>> \in Flow(p)
        /\ <<At(c, 3), At(c, 3 + 1)>> \in Flow(p) /\ <<At(c, 4), At(c, 4 + 1)>> \in Flow(p)
        /\ <<At(c, 5), At(c, 5 + 1)>> \in Flow(p) /\ <<At(c, 6), At(c, 6 + 1)>> \in Flow(p)
        /\ <<At(c, 7), At(c, 7 + 1)>> \in Flow(p)
    BY <2>5, <2>6
  <2>8. \A j \in 1 .. 7 : <<At(c, j), At(c, j + 1)>> \in Flow(p)
    BY <2>4, <2>7
  <2>9. Chain(p, c)
    BY <2>2, <2>8 DEF Chain
  <2> QED
    BY <1>a, <1>2, <2>2, <2>3, <2>4, <2>5, <2>9, EmptySeq
<1>3. CASE p = "cart"
  <2>1. c = <<"currencies", "cart", "recommend", "list", "quote", "convert">>
    BY <1>a, <1>3 DEF Calls
  <2>2. c \in Seq(Rpcs) /\ Len(c) = 6
    BY <2>1 DEF Rpcs
  <2>3. /\ c[1] = "currencies" /\ c[2] = "cart" /\ c[3] = "recommend" /\ c[4] = "list"
        /\ c[5] = "quote" /\ c[6] = "convert"
    BY <2>1
  <2>4. \A j \in 1 .. 6 : j = 1 \/ j = 2 \/ j = 3 \/ j = 4 \/ j = 5 \/ j = 6
    OBVIOUS
  <2>5. /\ At(c, 1) = "currencies" /\ At(c, 2) = "cart" /\ At(c, 3) = "recommend"
        /\ At(c, 4) = "list" /\ At(c, 5) = "quote" /\ At(c, 6) = "convert" /\ At(c, 7) = "end"
    BY <2>2, <2>3 DEF At
  <2>6. /\ <<"currencies", "cart">> \in Flow(p) /\ <<"cart", "recommend">> \in Flow(p)
        /\ <<"recommend", "list">> \in Flow(p) /\ <<"list", "quote">> \in Flow(p)
        /\ <<"quote", "convert">> \in Flow(p) /\ <<"convert", "end">> \in Flow(p)
    BY <1>3 DEF Flow
  <2>7. /\ <<At(c, 1), At(c, 1 + 1)>> \in Flow(p) /\ <<At(c, 2), At(c, 2 + 1)>> \in Flow(p)
        /\ <<At(c, 3), At(c, 3 + 1)>> \in Flow(p) /\ <<At(c, 4), At(c, 4 + 1)>> \in Flow(p)
        /\ <<At(c, 5), At(c, 5 + 1)>> \in Flow(p) /\ <<At(c, 6), At(c, 6 + 1)>> \in Flow(p)
    BY <2>5, <2>6
  <2>8. \A j \in 1 .. 6 : <<At(c, j), At(c, j + 1)>> \in Flow(p)
    BY <2>4, <2>7
  <2>9. Chain(p, c)
    BY <2>2, <2>8 DEF Chain
  <2> QED
    BY <1>a, <1>3, <2>2, <2>3, <2>4, <2>5, <2>9, EmptySeq
<1>4. CASE p = "add"
  <2>1. c = <<"product", "add">>
    BY <1>a, <1>4 DEF Calls
  <2>2. c \in Seq(Rpcs) /\ Len(c) = 2
    BY <2>1 DEF Rpcs
  <2>3. c[1] = "product" /\ c[2] = "add"
    BY <2>1
  <2>4. \A j \in 1 .. 2 : j = 1 \/ j = 2
    OBVIOUS
  <2>5. At(c, 1) = "product" /\ At(c, 2) = "add" /\ At(c, 3) = "end"
    BY <2>2, <2>3 DEF At
  <2>6. <<"product", "add">> \in Flow(p) /\ <<"add", "end">> \in Flow(p)
    BY <1>4 DEF Flow
  <2>7. <<At(c, 1), At(c, 1 + 1)>> \in Flow(p) /\ <<At(c, 2), At(c, 2 + 1)>> \in Flow(p)
    BY <2>5, <2>6
  <2>8. \A j \in 1 .. 2 : <<At(c, j), At(c, j + 1)>> \in Flow(p)
    BY <2>4, <2>7
  <2>9. Chain(p, c)
    BY <2>2, <2>8 DEF Chain
  <2> QED
    BY <1>a, <1>4, <2>2, <2>3, <2>4, <2>5, <2>9, EmptySeq
<1>5. CASE p = "empty"
  <2>1. c = <<"empty">>
    BY <1>a, <1>5 DEF Calls
  <2>2. c \in Seq(Rpcs) /\ Len(c) = 1
    BY <2>1 DEF Rpcs
  <2>3. c[1] = "empty"
    BY <2>1
  <2>4. \A j \in 1 .. 1 : j = 1
    OBVIOUS
  <2>5. At(c, 1) = "empty" /\ At(c, 2) = "end"
    BY <2>2, <2>3 DEF At
  <2>6. <<"empty", "end">> \in Flow(p)
    BY <1>5 DEF Flow
  <2>7. <<At(c, 1), At(c, 1 + 1)>> \in Flow(p)
    BY <2>5, <2>6
  <2>8. \A j \in 1 .. 1 : <<At(c, j), At(c, j + 1)>> \in Flow(p)
    BY <2>4, <2>7
  <2>9. Chain(p, c)
    BY <2>2, <2>8 DEF Chain
  <2> QED
    BY <1>a, <1>5, <2>2, <2>3, <2>4, <2>5, <2>9, EmptySeq
<1>6. CASE p = "order"
  <2>1. c = <<"order", "purge", "recommend", "list", "currencies">>
    BY <1>a, <1>6 DEF Calls
  <2>2. c \in Seq(Rpcs) /\ Len(c) = 5
    BY <2>1 DEF Rpcs
  <2>3. c[1] = "order" /\ c[2] = "purge" /\ c[3] = "recommend" /\ c[4] = "list" /\ c[5] = "currencies"
    BY <2>1
  <2>4. \A j \in 1 .. 5 : j = 1 \/ j = 2 \/ j = 3 \/ j = 4 \/ j = 5
    OBVIOUS
  <2>5. /\ At(c, 1) = "order" /\ At(c, 2) = "purge" /\ At(c, 3) = "recommend" /\ At(c, 4) = "list"
        /\ At(c, 5) = "currencies" /\ At(c, 6) = "end"
    BY <2>2, <2>3 DEF At
  <2>6. /\ <<"order", "purge">> \in Flow(p) /\ <<"purge", "recommend">> \in Flow(p)
        /\ <<"recommend", "list">> \in Flow(p) /\ <<"list", "currencies">> \in Flow(p)
        /\ <<"currencies", "end">> \in Flow(p)
    BY <1>6 DEF Flow
  <2>7. /\ <<At(c, 1), At(c, 1 + 1)>> \in Flow(p) /\ <<At(c, 2), At(c, 2 + 1)>> \in Flow(p)
        /\ <<At(c, 3), At(c, 3 + 1)>> \in Flow(p) /\ <<At(c, 4), At(c, 4 + 1)>> \in Flow(p)
        /\ <<At(c, 5), At(c, 5 + 1)>> \in Flow(p)
    BY <2>5, <2>6
  <2>8. \A j \in 1 .. 5 : <<At(c, j), At(c, j + 1)>> \in Flow(p)
    BY <2>4, <2>7
  <2>9. Chain(p, c)
    BY <2>2, <2>8 DEF Chain
  <2> QED
    BY <1>a, <1>6, <2>2, <2>3, <2>4, <2>5, <2>9, EmptySeq
<1> QED
  BY <1>1, <1>2, <1>3, <1>4, <1>5, <1>6 DEF Pages

\* The conversions of the home page and the ad after them.
LEMMA ConvertsChain ==
  ASSUME NEW n \in Nat \ {0}, NEW t, t = [i \in 1 .. n |-> "convert"] \o <<"ad">>
  PROVE  t \in Seq(Rpcs) /\ Chain("home", t) /\ At(t, 1) = "convert"
<1> DEFINE c == [i \in 1 .. n |-> "convert"]
           a == <<"ad">>
<1>1. c \in Seq(Rpcs) /\ Len(c) = n /\ \A i \in 1 .. n : c[i] = "convert"
  BY DEF Rpcs
<1>2. a \in Seq(Rpcs) /\ Len(a) = 1 /\ a[1] = "ad"
  BY DEF Rpcs
<1>3. t = c \o a
  OBVIOUS
<1> HIDE DEF c, a
<1>4. /\ t \in Seq(Rpcs) /\ Len(t) = n + 1
      /\ \A i \in 1 .. n + 1 : t[i] = IF i <= n THEN c[i] ELSE a[i - n]
  BY <1>1, <1>2, <1>3, ConcatProperties
<1>5. (\A i \in 1 .. n : t[i] = "convert") /\ t[n + 1] = "ad"
  BY <1>1, <1>2, <1>4
<1>6. ASSUME NEW j \in 1 .. Len(t) PROVE <<At(t, j), At(t, j + 1)>> \in Flow("home")
  <2>1. CASE j = n + 1
    <3>1. At(t, j) = "ad" /\ At(t, j + 1) = "end"
      BY <1>4, <1>5, <2>1 DEF At
    <3> QED
      BY <3>1 DEF Flow
  <2>2. CASE j = n
    <3>1. At(t, j) = "convert" /\ At(t, j + 1) = "ad"
      BY <1>4, <1>5, <2>2 DEF At
    <3> QED
      BY <3>1 DEF Flow
  <2>3. CASE j < n
    <3>1. At(t, j) = "convert" /\ At(t, j + 1) = "convert"
      BY <1>4, <1>5, <2>3 DEF At
    <3> QED
      BY <3>1 DEF Flow
  <2> QED
    BY <1>4, <2>1, <2>2, <2>3
<1>7. At(t, 1) = "convert"
  BY <1>4, <1>5 DEF At
<1> QED
  BY <1>4, <1>6, <1>7 DEF Chain

\* The rest of a cart page whose cart has n items, none or one.
Lookups(n) == [i \in 1 .. 2 * n |-> IF i % 2 = 1 THEN "product" ELSE "convert"]

LEMMA OneLookup ==
  Lookups(1) \in Seq(Rpcs) /\ Len(Lookups(1)) = 2 /\ Lookups(1)[1] = "product" /\ Lookups(1)[2] = "convert"
<1>1. Lookups(1) = [i \in 1 .. 2 |-> IF i % 2 = 1 THEN "product" ELSE "convert"]
  BY DEF Lookups
<1>2. "product" \in Rpcs /\ "convert" \in Rpcs
  BY DEF Rpcs
<1>3. Lookups(1) \in Seq(Rpcs) /\ Len(Lookups(1)) = 2
  <2>1. Lookups(1) \in [1 .. 2 -> Rpcs]
    BY <1>1, <1>2
  <2>2. Lookups(1) \in Seq(Rpcs)
    BY <2>1, SeqDef
  <2>3. Len(Lookups(1)) \in Nat /\ 1 .. Len(Lookups(1)) = 1 .. 2
    BY <2>1, <2>2, LenProperties
  <2>4. \A l \in Nat : 1 .. l = 1 .. 2 => l = 2
    OBVIOUS
  <2> QED
    BY <2>2, <2>3, <2>4
<1>4. Lookups(1)[1] = "product"
  BY <1>1
<1>5. Lookups(1)[2] = "convert"
  <2>1. 2 % 2 = 0
    OBVIOUS
  <2> QED
    BY <1>1, <2>1
<1> QED
  BY <1>3, <1>4, <1>5

LEMMA WithLookup ==
  ASSUME NEW r \in Seq(Rpcs), NEW m \in Nat \ {0}, Len(r) = m, Chain("cart", r),
         r[1] = "recommend", r[m] = "convert", \A j \in 1 .. m : r[j] # "product",
         NEW k \in Seq(Rpcs), Len(k) = 2, k[1] = "product", k[2] = "convert",
         NEW u, u = r \o k
  PROVE  u \in Seq(Rpcs) /\ Chain("cart", u) /\ OneItem(u) /\ At(u, 1) = "recommend"
<1>1. /\ u \in Seq(Rpcs) /\ Len(u) = m + 2
      /\ \A i \in 1 .. m + 2 : u[i] = IF i <= m THEN r[i] ELSE k[i - m]
  <2>1. /\ r \o k \in Seq(Rpcs) /\ Len(r \o k) = Len(r) + Len(k)
        /\ \A i \in 1 .. Len(r) + Len(k) : (r \o k)[i] = IF i <= Len(r) THEN r[i] ELSE k[i - Len(r)]
    BY ConcatProperties
  <2> QED
    BY <2>1
<1>2. \A i \in 1 .. m : u[i] = r[i]
  BY <1>1
<1>3. u[m + 1] = "product" /\ u[m + 2] = "convert"
  <2>1. u[m + 1] = k[(m + 1) - m] /\ u[m + 2] = k[(m + 2) - m]
    BY <1>1
  <2>2. (m + 1) - m = 1 /\ (m + 2) - m = 2
    OBVIOUS
  <2> QED
    BY <2>1, <2>2
<1>4. \A j \in 1 .. m + 2 : At(u, j) = u[j]
  BY <1>1 DEF At
<1>5. At(u, m + 3) = "end"
  BY <1>1 DEF At
<1>6. u[1] = "recommend" /\ At(u, 1) = "recommend"
  BY <1>2, <1>4
<1>7. ASSUME NEW j \in 1 .. Len(u) PROVE <<At(u, j), At(u, j + 1)>> \in Flow("cart")
  <2>1. CASE j < m
    <3>1. j \in 1 .. m /\ j + 1 \in 1 .. m /\ j \in 1 .. m + 2 /\ j + 1 \in 1 .. m + 2
      BY <1>1, <2>1
    <3>2. At(u, j) = r[j] /\ At(u, j + 1) = r[j + 1]
      BY <1>2, <1>4, <3>1
    <3>3. At(r, j) = r[j] /\ At(r, j + 1) = r[j + 1]
      BY <3>1 DEF At
    <3>4. <<At(r, j), At(r, j + 1)>> \in Flow("cart")
      BY <3>1 DEF Chain
    <3> QED
      BY <3>2, <3>3, <3>4
  <2>2. CASE j = m
    <3>1. At(u, j) = "convert" /\ At(u, j + 1) = "product"
      <4>1. m \in 1 .. m /\ m \in 1 .. m + 2 /\ m + 1 \in 1 .. m + 2
        OBVIOUS
      <4> QED
        BY <1>2, <1>3, <1>4, <2>2, <4>1
    <3> QED
      BY <3>1 DEF Flow
  <2>3. CASE j = m + 1
    <3>1. At(u, j) = "product" /\ At(u, j + 1) = "convert"
      <4>1. (m + 1) + 1 = m + 2 /\ m + 1 \in 1 .. m + 2 /\ m + 2 \in 1 .. m + 2
        OBVIOUS
      <4> QED
        BY <1>3, <1>4, <2>3, <4>1
    <3> QED
      BY <3>1 DEF Flow
  <2>4. CASE j = m + 2
    <3>1. At(u, j) = "convert" /\ At(u, j + 1) = "end"
      <4>1. (m + 2) + 1 = m + 3 /\ m + 2 \in 1 .. m + 2
        OBVIOUS
      <4> QED
        BY <1>3, <1>4, <1>5, <2>4, <4>1
    <3> QED
      BY <3>1 DEF Flow
  <2> QED
    BY <1>1, <2>1, <2>2, <2>3, <2>4
<1>8. ASSUME NEW j \in 1 .. Len(u), u[j] = "product"
      PROVE  j = Len(u) - 1 /\ u[1] \notin {"currencies", "cart"}
  <2>1. j # m + 2
    BY <1>3, <1>8
  <2>2. ~(j \in 1 .. m)
    BY <1>2, <1>8
  <2>3. j = Len(u) - 1
    BY <1>1, <2>1, <2>2
  <2> QED
    BY <1>6, <2>3
<1> QED
  BY <1>1, <1>6, <1>7, <1>8 DEF Chain, OneItem

LEMMA LookupsChain ==
  ASSUME NEW t, Chain("cart", t), t # << >>, OneItem(t), At(t, 1) = "cart",
         NEW n \in {0, 1}, NEW u, u = Tail(t) \o Lookups(n)
  PROVE  /\ u \in Seq(Rpcs) /\ Chain("cart", u) /\ OneItem(u) /\ At(u, 1) = "recommend"
         /\ n = 0 => \A j \in 1 .. Len(u) : u[j] # "product"
<1>a. PICK r : r = Tail(t)
  OBVIOUS
<1>b. PICK m : m = Len(r)
  OBVIOUS
<1>1. /\ r \in Seq(Rpcs) /\ Chain("cart", r) /\ At(r, 1) = At(t, 2)
      /\ <<At(t, 1), At(t, 2)>> \in Flow("cart")
      /\ Len(t) \in Nat \ {0} /\ m = Len(t) - 1
      /\ \A j \in 1 .. Len(t) - 1 : r[j] = t[j + 1]
  BY <1>a, <1>b, ChainTail
<1>2. m \in Nat /\ At(r, 1) = "recommend"
  BY <1>1 DEF Flow
<1>3. m \in Nat \ {0} /\ r[1] = "recommend"
  BY <1>b, <1>2 DEF At
<1>4. \A j \in 1 .. m : r[j] # "product"
  <2> SUFFICES ASSUME NEW j \in 1 .. m, r[j] = "product" PROVE FALSE
    OBVIOUS
  <2>1. j + 1 \in 1 .. Len(t) /\ t[j + 1] = "product"
    BY <1>1, <1>2
  <2>2. t[1] = "cart"
    BY <1>1 DEF At
  <2> QED
    BY <2>1, <2>2 DEF OneItem
<1>5. r[m] = "convert"
  <2>1. At(r, m) = r[m] /\ At(r, m + 1) = "end" /\ m \in 1 .. m
    BY <1>b, <1>3 DEF At
  <2>2. <<r[m], "end">> \in Flow("cart")
    BY <1>b, <1>1, <2>1 DEF Chain
  <2> QED
    BY <2>2 DEF Flow
<1>6. CASE n = 0
  <2>1. Lookups(n) = << >>
    BY <1>6 DEF Lookups
  <2>2. u = r
    BY <1>a, <1>1, <2>1, ConcatEmptySeq
  <2> QED
    BY <1>b, <1>1, <1>2, <1>4, <1>6, <2>2 DEF OneItem
<1>7. CASE n = 1
  <2>1. u = r \o Lookups(1)
    BY <1>a, <1>7
  <2>2. u \in Seq(Rpcs) /\ Chain("cart", u) /\ OneItem(u) /\ At(u, 1) = "recommend"
    BY <1>b, <1>1, <1>3, <1>4, <1>5, <2>1, OneLookup, WithLookup
  <2> QED
    BY <1>7, <2>2
<1> QED
  BY <1>6, <1>7

-----------------------------------------------------------------------------
(* The responses *)

RestInv == PageInv /\ PriceInv /\ HeldInv

LEMMA FlowFrom ==
  ASSUME NEW p \in Pages, NEW r, NEW x, <<r, x>> \in Flow(p)
  PROVE  /\ r = "currencies" => x \in {"cart", "end"} /\ (p = "product" => x = "cart")
         /\ r \in {"ad", "add", "empty"} => x = "end"
         /\ r = "products" => p = "home"
         /\ r = "product" => <<p, x>> \in {<<"product", "currencies">>, <<"cart", "convert">>, <<"add", "add">>}
         /\ r = "cart" => <<p, x>> \in {<<"home", "products">>, <<"product", "convert">>, <<"cart", "recommend">>}
         /\ r = "quote" => p = "cart" /\ x = "convert"
         /\ r = "convert" => <<p, x>> \in {<<"home", "convert">>, <<"home", "ad">>, <<"product", "recommend">>,
                                           <<"cart", "product">>, <<"cart", "end">>}
         /\ r = "recommend" => x = "list"
         /\ r = "list" => x \in {"ad", "quote", "currencies"} /\ (p = "product" => x = "ad")
         /\ r = "order" => p = "order" /\ x = "purge"
         /\ r = "purge" => p = "order" /\ x = "recommend"
<1>1. CASE p = "home"
  BY <1>1 DEF Flow
<1>2. CASE p = "product"
  BY <1>2 DEF Flow
<1>3. CASE p = "cart"
  BY <1>3 DEF Flow
<1>4. CASE p = "add"
  BY <1>4 DEF Flow
<1>5. CASE p = "empty"
  BY <1>5 DEF Flow
<1>6. CASE p = "order"
  BY <1>6 DEF Flow
<1> QED
  BY <1>1, <1>2, <1>3, <1>4, <1>5, <1>6 DEF Pages

\* The page that waits for the response, and its next RPC.
LEMMA ReturnsFacts ==
  ASSUME PageInv, NEW b \in Browsers, NEW r, Returns(b, r)
  PROVE  /\ todo[b] # << >> /\ page[b] \in Pages /\ Chain(page[b], todo[b]) /\ Now(b) = r
         /\ Then(b) \in Seq(Rpcs) /\ Chain(page[b], Then(b)) /\ Then(b) = Tail(todo[b])
         /\ <<r, At(Then(b), 1)>> \in Flow(page[b])
<1>1. todo[b] # << >> /\ Head(todo[b]) = r /\ page[b] \in Pages /\ Chain(page[b], todo[b])
  BY DEF Returns, PageInv
<1> QED
  BY <1>1, ChainTail DEF Now, Then

LEMMA StepKeeps ==
  ASSUME RestInv, NEW b \in Browsers, NEW r, Returns(b, r), Go(b, Then(b)), UNCHANGED <<cart, item>>,
         DOMAIN price' = Browsers, \A d \in Browsers \ {b} : price'[d] = price[d],
         page[b] = "product" /\ At(Then(b), 1) \in {"currencies", "cart", "convert"}
           => price'[b] \in GetProduct(item[b].product),
         page[b] = "cart" /\ At(Then(b), 1) = "convert"
           => \/ price'[b] = "quote"
              \/ cart[b] # << >> /\ price'[b] \in GetProduct(cart[b][1].product),
         pool' = pool + HoldsAt(page[b], r) - HoldsAt(page[b], At(Then(b), 1))
  PROVE  RestInv'
<1>1. todo[b] # << >> /\ Then(b) \in Seq(Rpcs) /\ Now(b) = r
  BY ReturnsFacts DEF RestInv
<1>2. PageInv'
  BY <1>1, PageNext DEF RestInv
<1>3. PICK rest \in Seq(Rpcs) : rest = Then(b)
  BY <1>1
<1>4. PriceInv'
  BY <1>3, PriceGo DEF RestInv
<1>5. HeldInv'
  BY <1>1, <1>3, HeldGo DEF RestInv
<1> QED
  BY <1>2, <1>4, <1>5 DEF RestInv

LEMMA PoolInt ==
  ASSUME HeldInv, NEW b \in Browsers
  PROVE  pool \in Int
<1>1. PICK h : h = Holds
  OBVIOUS
<1>2. Cardinality(Tokens(h)) \in Nat
  BY <1>1, HoldsType, TokenCount
<1> QED
  BY <1>1, <1>2, FrontendAssumption DEF HeldInv

\* Responses that change neither prices nor the pool.
LEMMA QuietKeeps ==
  ASSUME RestInv, NEW b \in Browsers, NEW r \in {"currencies", "ad", "add", "empty", "order", "cart"},
         Returns(b, r), Go(b, Then(b)), UNCHANGED <<cart, item, price, pool>>, 
         r = "cart" => page[b] # "cart"
  PROVE  RestInv'
<1>1. page[b] \in Pages /\ <<r, At(Then(b), 1)>> \in Flow(page[b]) /\ Now(b) = r
  BY ReturnsFacts DEF RestInv
<1>2. PICK x : x = At(Then(b), 1)
  OBVIOUS
<1>3. /\ x \in {"cart", "end", "purge", "products", "convert"}
      /\ page[b] = "product" => r \in {"currencies", "cart", "ad"} /\ (r = "ad" => x = "end")
      /\ page[b] = "cart" => x # "convert"
  <2>1. /\ r = "currencies" => x \in {"cart", "end"} /\ (page[b] = "product" => x = "cart")
        /\ r \in {"ad", "add", "empty"} => x = "end"
        /\ r = "cart" => <<page[b], x>> \in {<<"home", "products">>, <<"product", "convert">>, <<"cart", "recommend">>}
        /\ r = "order" => page[b] = "order" /\ x = "purge"
    BY <1>1, <1>2, FlowFrom
  <2>2. page[b] = "product" => r \notin {"add", "empty"}
    BY <1>1 DEF Flow
  <2> QED
    BY <2>1, <2>2
<1>4. HoldsAt(page[b], r) = 0 /\ HoldsAt(page[b], x) = 0
  <2>1. r # "list" /\ r # "convert" /\ r # "recommend" /\ x # "list" /\ x # "recommend"
    BY <1>3
  <2>2. page[b] = "home" => x # "convert"
    BY <1>1, <1>2 DEF Flow
  <2> QED
    BY <2>1, <2>2 DEF HoldsAt
<1>5. pool' = pool + HoldsAt(page[b], r) - HoldsAt(page[b], x)
  BY <1>4, PoolInt DEF RestInv
<1>6. page[b] = "product" /\ x \in {"currencies", "cart", "convert"} => price[b] \in GetProduct(item[b].product)
  BY <1>1, <1>3 DEF RestInv, PriceInv
<1> QED
  BY <1>2, <1>3, <1>5, <1>6, StepKeeps DEF RestInv, PriceInv

\* Responses after which buffers are taken or put back.
LEMMA RecommendKeeps ==
  ASSUME RestInv, NEW b \in Browsers, RecommendReply(b)
  PROVE  RestInv'
<1>1. Returns(b, "recommend") /\ Go(b, Then(b)) /\ UNCHANGED <<item, price, cart>> /\ pool' = pool - 1
  BY DEF RecommendReply, front
<1>2. PICK x : x = At(Then(b), 1)
  OBVIOUS
<1>3. x = "list"
  <2>1. page[b] \in Pages /\ <<"recommend", x>> \in Flow(page[b])
    BY <1>1, <1>2, ReturnsFacts DEF RestInv
  <2> QED
    BY <2>1, FlowFrom
<1>4. pool' = pool + HoldsAt(page[b], "recommend") - HoldsAt(page[b], x)
  BY <1>1, <1>3, PoolInt DEF RestInv, HoldsAt
<1> QED
  BY <1>1, <1>2, <1>3, <1>4, StepKeeps DEF RestInv, PriceInv

LEMMA ListKeeps ==
  ASSUME RestInv, NEW b \in Browsers, ListReply(b)
  PROVE  RestInv'
<1>1. Returns(b, "list") /\ Go(b, Then(b)) /\ UNCHANGED <<item, price, cart>> /\ pool' = pool + Recommended(b)
  BY DEF ListReply, front
<1>2. PICK x : x = At(Then(b), 1)
  OBVIOUS
<1>3. x \in {"ad", "quote", "currencies"} /\ (page[b] = "product" => x = "ad")
  <2>1. page[b] \in Pages /\ <<"list", x>> \in Flow(page[b])
    BY <1>1, <1>2, ReturnsFacts DEF RestInv
  <2> QED
    BY <2>1, FlowFrom
<1>4. HoldsAt(page[b], "list") = Recommended(b) /\ HoldsAt(page[b], x) = 0
  BY <1>3 DEF HoldsAt, Recommended
<1>5. Recommended(b) \in Int
  BY DEF Recommended
<1>6. pool' = pool + HoldsAt(page[b], "list") - HoldsAt(page[b], x)
  BY <1>1, <1>4, <1>5, PoolInt DEF RestInv
<1> QED
  BY <1>1, <1>2, <1>3, <1>6, StepKeeps DEF RestInv, PriceInv

LEMMA PurgeKeeps ==
  ASSUME RestInv, NEW b \in Browsers, Returns(b, "purge"), Go(b, Then(b)),
         UNCHANGED <<item, price, cart>>, pool' = pool - 1
  PROVE  RestInv'
<1>1. PICK x : x = At(Then(b), 1)
  OBVIOUS
<1>2. x = "recommend" /\ page[b] = "order"
  <2>1. page[b] \in Pages /\ <<"purge", x>> \in Flow(page[b])
    BY <1>1, ReturnsFacts DEF RestInv
  <2> QED
    BY <2>1, FlowFrom
<1>3. pool' = pool + HoldsAt(page[b], "purge") - HoldsAt(page[b], x)
  BY <1>2, PoolInt DEF RestInv, HoldsAt
<1> QED
  BY <1>1, <1>2, <1>3, StepKeeps DEF RestInv, PriceInv

LEMMA ProductsKeeps ==
  ASSUME RestInv, NEW b \in Browsers, ProductsReply(b)
  PROVE  RestInv'
<1>1. PICK n, rest : n = Cardinality(ListProducts) /\ rest = [i \in 1 .. n |-> "convert"] \o <<"ad">>
  OBVIOUS
<1>2. n \in Nat \ {0}
  <2>1. IsFiniteSet(ListProducts) /\ ListProducts # {}
    BY ServicesAssumption DEF ListProducts, products
  <2> QED
    BY <1>1, <2>1, FS_CardinalityType, FS_EmptySet
<1>3. rest \in Seq(Rpcs) /\ Chain("home", rest) /\ At(rest, 1) = "convert"
  BY <1>1, <1>2, ConvertsChain
<1>4. /\ Returns(b, "products") /\ Go(b, rest) /\ UNCHANGED <<item, price, cart>> /\ pool' = pool - 1
  BY <1>1 DEF ProductsReply, front
<1>5. page[b] = "home" /\ Now(b) = "products" /\ todo[b] # << >>
  <2>1. PICK x : /\ page[b] \in Pages /\ <<"products", x>> \in Flow(page[b])
                 /\ Now(b) = "products" /\ todo[b] # << >>
    BY <1>4, ReturnsFacts DEF RestInv
  <2> QED
    BY <2>1, FlowFrom
<1>6. PageInv'
  BY <1>3, <1>4, <1>5, PageKept DEF RestInv
<1>7. PriceInv'
  BY <1>3, <1>4, <1>5, PriceGo DEF RestInv, PriceInv
<1>8. pool' = pool + HoldsAt(page[b], Now(b)) - HoldsAt(page[b], At(rest, 1))
  BY <1>3, <1>4, <1>5, PoolInt DEF RestInv, HoldsAt
<1>9. HeldInv'
  BY <1>3, <1>4, <1>8, HeldGo DEF RestInv
<1> QED
  BY <1>6, <1>7, <1>9 DEF RestInv

\* A cart that is not empty is the item added first.
LEMMA OneItemCart ==
  ASSUME ShopInv
  PROVE  /\ GetCart(USER_ID) = << >> => Len(GetCart(USER_ID)) = 0
         /\ store[USER_ID] # NoCart =>
              /\ GetCart(USER_ID) # << >> /\ Len(GetCart(USER_ID)) = 1
              /\ Used(store[USER_ID]) = {0}
              /\ GetCart(USER_ID)[1] = store[USER_ID].items[0]
              /\ \E x \in adds[USER_ID] : store[USER_ID] = NewCart(x.product, x.quantity)
                                         /\ store[USER_ID].items[0].product = x.product
<1>1. USER_ID \in Users
  BY FrontendAssumption
<1>2. ASSUME store[USER_ID] # NoCart
      PROVE  /\ GetCart(USER_ID) # << >> /\ Len(GetCart(USER_ID)) = 1
             /\ Used(store[USER_ID]) = {0}
             /\ GetCart(USER_ID)[1] = store[USER_ID].items[0]
             /\ \E x \in adds[USER_ID] : store[USER_ID] = NewCart(x.product, x.quantity)
                                        /\ store[USER_ID].items[0].product = x.product
  <2>1. adds[USER_ID] # {}
    BY <1>1, <1>2, CartIffAdded DEF ShopInv
  <2>2. PICK x \in adds[USER_ID] : store[USER_ID] = NewCart(x.product, x.quantity)
    BY <1>1, <2>1 DEF ShopInv, StoreInv, FirstItemStays
  <2>3. store[USER_ID].num_items = 1
    BY <2>2 DEF NewCart
  <2>4. store[USER_ID].items[0].product = x.product
    <3>1. 0 \in Index
      BY CartAssumption DEF Index
    <3> QED
      BY <2>2, <3>1 DEF NewCart
  <2>5. Used(store[USER_ID]) = {0}
    BY <2>3 DEF Used
  <2>6. GetCart(USER_ID) = [k \in 1 .. 1 |-> store[USER_ID].items[k - 1]]
    BY <1>2, <2>3 DEF GetCart
  <2>7. GetCart(USER_ID)[1] = store[USER_ID].items[0]
    BY <2>6
  <2>8. Len(GetCart(USER_ID)) = 1
    BY <2>6
  <2>9. GetCart(USER_ID) # << >>
    BY <2>8, EmptySeq
  <2> QED
    BY <2>2, <2>4, <2>5, <2>7, <2>8, <2>9
<1>3. GetCart(USER_ID) = << >> => Len(GetCart(USER_ID)) = 0
  BY EmptySeq
<1> QED
  BY <1>2, <1>3

LEMMA CartReplyRest ==
  ASSUME ShopInv, RestInv, NEW b \in Browsers, CartReply(b)
  PROVE  RestInv'
<1>1. /\ Returns(b, "cart") /\ UNCHANGED <<item, price, pool>>
      /\ IF page[b] = "cart"
         THEN /\ cart' = [cart EXCEPT ![b] = GetCart(USER_ID)]
              /\ Go(b, Then(b) \o Lookups(Len(GetCart(USER_ID))))
         ELSE UNCHANGED cart /\ Go(b, Then(b))
  BY DEF CartReply, Lookups
<1>2. CASE page[b] # "cart"
  <2>1. Go(b, Then(b)) /\ UNCHANGED cart
    BY <1>1, <1>2
  <2> QED
    BY <1>1, <1>2, <2>1, QuietKeeps
<1>3. CASE page[b] = "cart"
  <2>1. PICK i : i = GetCart(USER_ID)
    OBVIOUS
  <2>2. PICK n, rest : n = Len(i) /\ rest = Then(b) \o Lookups(n)
    OBVIOUS
  <2>3. n \in {0, 1} /\ (n = 1 => i # << >>)
    <3>1. CASE store[USER_ID] = NoCart
      <4>1. i = << >>
        BY <2>1, <3>1 DEF GetCart
      <4> QED
        BY <2>1, <2>2, <4>1, OneItemCart
    <3>2. CASE store[USER_ID] # NoCart
      BY <2>1, <2>2, <3>2, OneItemCart
    <3> QED
      BY <3>1, <3>2
  <2>4. Go(b, rest) /\ cart' = [cart EXCEPT ![b] = i]
    BY <1>1, <1>3, <2>1, <2>2
  <2>5. /\ todo[b] # << >> /\ Chain("cart", todo[b]) /\ Then(b) = Tail(todo[b]) /\ Now(b) = "cart"
        /\ OneItem(todo[b])
    BY <1>1, <1>3, ReturnsFacts DEF RestInv, PageInv
  <2>6. /\ rest \in Seq(Rpcs) /\ Chain("cart", rest) /\ OneItem(rest) /\ At(rest, 1) = "recommend"
        /\ n = 0 => \A j \in 1 .. Len(rest) : rest[j] # "product"
    BY <2>2, <2>3, <2>5, LookupsChain DEF Now
  <2>7. DOMAIN cart = Browsers
    BY DEF ShopInv, SeenInv
  <2>8. cart'[b] = i /\ \A d \in Browsers \ {b} : cart'[d] = cart[d]
    BY <2>4, <2>7
  <2>9. PageInv'
    BY <1>3, <2>3, <2>4, <2>5, <2>6, <2>8, PageKept DEF RestInv
  <2>10. PriceInv'
    BY <1>1, <1>3, <2>4, <2>6, <2>8, PriceGo DEF RestInv, PriceInv
  <2>11. pool' = pool + HoldsAt(page[b], Now(b)) - HoldsAt(page[b], At(rest, 1))
    BY <1>1, <1>3, <2>5, <2>6, PoolInt DEF RestInv, HoldsAt
  <2>12. HeldInv'
    BY <2>4, <2>6, <2>11, HeldGo DEF RestInv
  <2> QED
    BY <2>9, <2>10, <2>12 DEF RestInv
<1> QED
  BY <1>2, <1>3

LEMMA ProductKeeps ==
  ASSUME ShopInv, RestInv, NEW b \in Browsers, ProductReply(b)
  PROVE  RestInv'
<1>1. PICK p \in GetProduct(Wanted(b)) : price' = [price EXCEPT ![b] = p]
  BY DEF ProductReply
<1>2. Returns(b, "product") /\ Go(b, Then(b)) /\ UNCHANGED <<item, cart, pool>>
  BY DEF ProductReply
<1>3. PICK x : x = At(Then(b), 1)
  OBVIOUS
<1>4. <<page[b], x>> \in {<<"product", "currencies">>, <<"cart", "convert">>, <<"add", "add">>}
  <2>1. page[b] \in Pages /\ <<"product", x>> \in Flow(page[b])
    BY <1>2, <1>3, ReturnsFacts DEF RestInv
  <2> QED
    BY <2>1, FlowFrom
<1>5. DOMAIN price' = Browsers /\ price'[b] = p /\ \A d \in Browsers \ {b} : price'[d] = price[d]
  BY <1>1 DEF RestInv, PriceInv
<1>6. pool' = pool + HoldsAt(page[b], "product") - HoldsAt(page[b], x)
  BY <1>2, <1>4, PoolInt DEF RestInv, HoldsAt
<1>7. page[b] = "product" => price'[b] \in GetProduct(item[b].product)
  BY <1>1, <1>5 DEF Wanted
<1>8. ASSUME page[b] = "cart" PROVE cart[b] # << >> /\ price'[b] \in GetProduct(cart[b][1].product)
  <2>1. /\ todo[b] # << >> /\ Now(b) = "product" /\ todo[b] \in Seq(Rpcs) /\ OneItem(todo[b])
    BY <1>2, <1>8, ReturnsFacts DEF RestInv, PageInv, Chain
  <2>2. Len(todo[b]) \in Nat \ {0}
    BY <2>1, EmptySeq
  <2>3. 1 \in 1 .. Len(todo[b]) /\ todo[b][1] = "product"
    BY <2>1, <2>2 DEF Now, At
  <2>4. Len(todo[b]) = 2
    <3>1. 1 = Len(todo[b]) - 1
      BY <2>1, <2>3 DEF OneItem
    <3> QED
      BY <2>2, <3>1
  <2>5. cart[b] # << >>
    BY <1>8, <2>1, <2>3 DEF RestInv, PageInv
  <2>6. Len(cart[b]) = 1
    BY <2>5, OneItemCart DEF ShopInv, SeenInv
  <2>7. ItemIndex(b) = 1
    BY <2>4, <2>6 DEF ItemIndex
  <2> QED
    BY <1>1, <1>5, <1>8, <2>5, <2>7 DEF Wanted
<1> QED
  BY <1>2, <1>3, <1>5, <1>6, <1>7, <1>8, StepKeeps

LEMMA QuoteKeeps ==
  ASSUME RestInv, NEW b \in Browsers, QuoteReply(b)
  PROVE  RestInv'
<1>1. /\ Returns(b, "quote") /\ Go(b, Then(b)) /\ UNCHANGED <<item, cart, pool>>
      /\ price' = [price EXCEPT ![b] = "quote"]
  BY DEF QuoteReply
<1>2. PICK x : x = At(Then(b), 1)
  OBVIOUS
<1>3. page[b] = "cart" /\ x = "convert"
  <2>1. page[b] \in Pages /\ <<"quote", x>> \in Flow(page[b])
    BY <1>1, <1>2, ReturnsFacts DEF RestInv
  <2> QED
    BY <2>1, FlowFrom
<1>4. DOMAIN price' = Browsers /\ price'[b] = "quote" /\ \A d \in Browsers \ {b} : price'[d] = price[d]
  BY <1>1 DEF RestInv, PriceInv
<1>5. pool' = pool + HoldsAt(page[b], "quote") - HoldsAt(page[b], x)
  BY <1>1, <1>3, PoolInt DEF RestInv, HoldsAt
<1> QED
  BY <1>1, <1>2, <1>3, <1>4, <1>5, StepKeeps

\* The home page puts its buffer back before the ad, which is its last RPC.
LEMMA AdIsLast ==
  ASSUME NEW p \in Pages, NEW t \in Seq(Rpcs), Chain(p, t), <<"convert", At(t, 1)>> \in Flow(p)
  PROVE  t = <<"ad">> <=> p = "home" /\ At(t, 1) = "ad"
<1>1. ASSUME t = <<"ad">> PROVE p = "home" /\ At(t, 1) = "ad"
  <2>1. At(t, 1) = "ad"
    BY <1>1 DEF At
  <2>2. <<"convert", "ad">> \in Flow(p)
    BY <2>1
  <2> QED
    BY <2>1, <2>2, FlowFrom
<1>2. ASSUME p = "home", At(t, 1) = "ad" PROVE t = <<"ad">>
  <2>1. Len(t) \in Nat \ {0} /\ t[1] = "ad"
    <3>1. Len(t) \in Nat
      BY LenProperties
    <3> QED
      BY <1>2, <3>1 DEF At
  <2>2. ~(2 \in 1 .. Len(t))
    <3> SUFFICES ASSUME 2 \in 1 .. Len(t) PROVE FALSE
      OBVIOUS
    <3>1. <<At(t, 1), At(t, 1 + 1)>> \in Flow(p) /\ <<At(t, 2), At(t, 2 + 1)>> \in Flow(p)
      BY <2>1 DEF Chain
    <3>2. At(t, 2) = "end"
      <4>1. <<"ad", At(t, 2)>> \in Flow(p)
        <5>1. 1 + 1 = 2
          OBVIOUS
        <5> QED
          BY <1>2, <3>1, <5>1, Zenon
      <4> QED
        BY <4>1, FlowFrom
    <3>3. \A x : <<"end", x>> \notin Flow("home")
      BY DEF Flow
    <3> QED
      BY <1>2, <3>1, <3>2, <3>3
  <2>3. Len(t) = 1
    <3>1. \A l \in Nat \ {0} : ~(2 \in 1 .. l) => l = 1
      OBVIOUS
    <3> QED
      BY <2>1, <2>2, <3>1
  <2>4. PICK a : a = <<"ad">>
    OBVIOUS
  <2>5. a \in Seq(Rpcs) /\ Len(a) = 1 /\ a[1] = "ad"
    BY <2>4 DEF Rpcs
  <2>6. \A i \in 1 .. Len(t) : t[i] = a[i]
    BY <2>1, <2>3, <2>5
  <2> QED
    BY <2>3, <2>4, <2>5, <2>6, SeqEqual
<1> QED
  BY <1>1, <1>2

LEMMA ConvertKeeps ==
  ASSUME RestInv, NEW b \in Browsers, ConvertReply(b)
  PROVE  RestInv'
<1>1. /\ Returns(b, "convert") /\ Go(b, Then(b)) /\ UNCHANGED <<item, cart>>
      /\ pool' = IF Then(b) = <<"ad">> THEN pool + 1 ELSE pool
      /\ price' = [price EXCEPT ![b] = NoProduct]
  BY DEF ConvertReply
<1>2. PICK x : x = At(Then(b), 1)
  OBVIOUS
<1>3. /\ page[b] \in Pages /\ <<"convert", x>> \in Flow(page[b]) /\ Chain(page[b], Then(b))
      /\ Then(b) \in Seq(Rpcs)
  BY <1>1, <1>2, ReturnsFacts DEF RestInv
<1>4. <<page[b], x>> \in {<<"home", "convert">>, <<"home", "ad">>, <<"product", "recommend">>,
                          <<"cart", "product">>, <<"cart", "end">>}
  BY <1>3, FlowFrom
<1>5. Then(b) = <<"ad">> <=> page[b] = "home" /\ x = "ad"
  BY <1>2, <1>3, AdIsLast
<1>6. DOMAIN price' = Browsers /\ \A d \in Browsers \ {b} : price'[d] = price[d]
  BY <1>1 DEF RestInv, PriceInv
<1>7. pool' = pool + HoldsAt(page[b], "convert") - HoldsAt(page[b], x)
  <2>1. pool \in Int
    BY PoolInt DEF RestInv
  <2>2. CASE page[b] = "home" /\ x = "ad"
    <3>1. HoldsAt(page[b], "convert") = 1 /\ HoldsAt(page[b], x) = 0
      BY <2>2 DEF HoldsAt
    <3> QED
      BY <1>1, <1>5, <2>1, <2>2, <3>1
  <2>3. CASE ~(page[b] = "home" /\ x = "ad")
    <3>1. HoldsAt(page[b], "convert") = HoldsAt(page[b], x)
      BY <1>4, <2>3 DEF HoldsAt
    <3>2. HoldsAt(page[b], x) \in Int
      BY HoldsType
    <3> QED
      BY <1>1, <1>5, <2>1, <2>3, <3>1, <3>2
  <2> QED
    BY <2>2, <2>3
<1>8. /\ page[b] = "product" => x \notin {"currencies", "cart", "convert"}
      /\ page[b] = "cart" => x # "convert"
  BY <1>4
<1> QED
  BY <1>1, <1>2, <1>6, <1>7, <1>8, StepKeeps

-----------------------------------------------------------------------------
(* The requests *)

\* A browser whose page was answered makes a request that starts no page.
LEMMA NoPageKeeps ==
  ASSUME RestInv, NEW b \in Browsers, todo[b] = << >>,
         page' = [page EXCEPT ![b] = "none"], currency' \in Currencies \cup {CAD},
         UNCHANGED <<todo, req, item, price, cart, pool>>
  PROVE  RestInv'
<1>1. /\ page' \in [Browsers -> Pages \cup {"none", "seen"}] /\ page'[b] = "none"
      /\ \A d \in Browsers \ {b} : page'[d] = page[d]
  BY DEF RestInv, PageInv
<1>2. PageInv'
  BY <1>1 DEF RestInv, PageInv
<1>3. PriceInv'
  BY <1>1 DEF RestInv, PriceInv, Now, GetProduct, products
<1>4. At(todo[b], 1) = "end"
  BY EmptySeq DEF At
<1>5. \A d \in Browsers : HoldsAt(page'[d], At(todo'[d], 1)) = HoldsAt(page[d], At(todo[d], 1))
  BY <1>1, <1>4, HoldsType
<1>6. HeldInv'
  BY <1>5, HeldSame DEF RestInv
<1> QED
  BY <1>2, <1>3, <1>6 DEF RestInv

LEMMA OpenRest ==
  ASSUME ShopInv, RestInv, NEW b \in Browsers, Open(b)
  PROVE  RestInv'
<1>1. PICK p : /\ p \in Pages /\ Arrives(b, p) /\ Continue(b, Calls(p))
               /\ \E q, n : item' = [item EXCEPT ![b] = [product |-> q, quantity |-> n]]
  BY DEF Open
<1>2. UNCHANGED <<currency, price, pool>> /\ cart' = [cart EXCEPT ![b] = << >>]
  BY DEF Open
<1>3. PICK rest : rest = Calls(p)
  OBVIOUS
<1>4. /\ rest \in Seq(Rpcs) /\ rest # << >> /\ Chain(p, rest)
      /\ At(rest, 1) \in {"currencies", "product", "empty", "order"}
      /\ p = "cart" => At(rest, 1) = "currencies"
      /\ p = "product" => At(rest, 1) = "product"
      /\ p = "cart" => \A j \in 1 .. Len(rest) : rest[j] # "product"
  BY <1>1, <1>3, CallsChain
<1>5. /\ todo[b] = << >> /\ page' = [page EXCEPT ![b] = p] /\ todo' = [todo EXCEPT ![b] = rest]
      /\ req' = [req EXCEPT ![b] = IF rest # << >> /\ Head(rest) \in {"convert", "order"}
                                   THEN currency ELSE NoCurrency]
  BY <1>1, <1>3 DEF Arrives, Continue
<1>6. /\ page' \in [Browsers -> Pages \cup {"none", "seen"}] /\ page'[b] = p
      /\ todo' \in [Browsers -> Seq(Rpcs)] /\ todo'[b] = rest
      /\ \A d \in Browsers \ {b} : page'[d] = page[d] /\ todo'[d] = todo[d]
  BY <1>1, <1>4, <1>5 DEF RestInv, PageInv
<1>7. At(rest, 1) = Head(rest) /\ DOMAIN req' = Browsers
      /\ \A d \in Browsers \ {b} : req'[d] = req[d] /\ item'[d] = item[d] /\ cart'[d] = cart[d]
  <2>1. At(rest, 1) = Head(rest)
    BY <1>4, ChainTail
  <2>2. \A d \in Browsers \ {b} : item'[d] = item[d] /\ cart'[d] = cart[d]
    BY <1>1, <1>2 DEF ShopInv, SeenInv
  <2> QED
    BY <1>5, <2>1, <2>2 DEF RestInv, PriceInv
<1>8. PageInv'
  <2>1. ASSUME NEW d \in Browsers, todo'[d] # << >>
        PROVE  /\ page'[d] \in Pages /\ Chain(page'[d], todo'[d])
               /\ page'[d] = "cart" =>
                    /\ OneItem(todo'[d])
                    /\ (\E j \in 1 .. Len(todo'[d]) : todo'[d][j] = "product") => cart'[d] # << >>
    <3>1. CASE d = b
      <4>1. p = "cart" => OneItem(rest)
        BY <1>4 DEF OneItem
      <4>2. todo'[d] = rest /\ page'[d] = p
        BY <1>6, <3>1
      <4>3. p \in Pages /\ Chain(p, rest)
        BY <1>1, <1>4
      <4>4. p = "cart" => ~\E j \in 1 .. Len(rest) : rest[j] = "product"
        BY <1>4
      <4> QED
        BY <4>1, <4>2, <4>3, <4>4, Zenon
    <3>2. CASE d # b
      BY <1>6, <1>7, <2>1, <3>2 DEF RestInv, PageInv
    <3> QED
      BY <3>1, <3>2
  <2> QED
    BY <1>6, <2>1 DEF PageInv
<1>9. PriceInv'
  <2>1. ASSUME NEW d \in Browsers
        PROVE  /\ At(todo'[d], 1) \in {"convert", "order"} => req'[d] \in Currencies \cup {CAD}
               /\ page'[d] = "product" /\ At(todo'[d], 1) \in {"currencies", "cart", "convert"}
                    => price'[d] \in GetProduct(item'[d].product)
               /\ page'[d] = "cart" /\ At(todo'[d], 1) = "convert"
                    => \/ price'[d] = "quote"
                       \/ cart'[d] # << >> /\ price'[d] \in GetProduct(cart'[d][1].product)
    <3>1. CASE d = b
      <4>1. At(rest, 1) \in {"convert", "order"} => req'[b] = currency
        BY <1>4, <1>5, <1>7 DEF RestInv, PriceInv
      <4> QED
        BY <1>4, <1>6, <3>1, <4>1 DEF RestInv, PriceInv
    <3>2. CASE d # b
      <4>1. /\ req'[d] = req[d] /\ todo'[d] = todo[d] /\ page'[d] = page[d] /\ price'[d] = price[d]
            /\ cart'[d] = cart[d] /\ item'[d] = item[d]
        BY <1>2, <1>6, <1>7, <3>2
      <4> QED
        BY <4>1 DEF RestInv, PriceInv, Now
    <3> QED
      BY <3>1, <3>2
  <2> QED
    BY <1>2, <1>7, <2>1 DEF RestInv, PriceInv, Now, GetProduct, products
<1>10. HeldInv'
  <2>1. At(todo[b], 1) = "end"
    BY <1>5, EmptySeq DEF At
  <2>2. HoldsAt(page[b], "end") = 0 /\ HoldsAt(p, At(rest, 1)) = 0
    BY <1>4, HoldsType DEF HoldsAt
  <2>3. \A d \in Browsers : HoldsAt(page'[d], At(todo'[d], 1)) = HoldsAt(page[d], At(todo[d], 1))
    BY <1>6, <2>1, <2>2
  <2> QED
    BY <1>2, <2>3, HeldSame DEF RestInv
<1> QED
  BY <1>8, <1>9, <1>10 DEF RestInv

\* Nothing moves.
LEMMA RestSame ==
  ASSUME RestInv, UNCHANGED <<currency, page, todo, req, item, price, cart, pool>>
  PROVE  RestInv'
<1>1. PageInv'
  BY DEF RestInv, PageInv
<1>2. PriceInv'
  BY DEF RestInv, PriceInv, Now, GetProduct, products
<1>3. HeldInv'
  BY HeldSame DEF RestInv
<1> QED
  BY <1>1, <1>2, <1>3 DEF RestInv

-----------------------------------------------------------------------------
(* All steps *)

LEMMA AdNeverFails ==
  ASSUME NEW b \in Browsers, AdReply(b)
  PROVE  Returns(b, "ad") /\ Go(b, Then(b)) /\ UNCHANGED <<item, price, cart, pool>>
<1>1. \A ads \in GetAds(<< >>) : ads # << >>
  BY DEF GetAds
<1> QED
  BY <1>1 DEF AdReply, front

LEMMA RestInvInit == Init => RestInv
<1> SUFFICES ASSUME Init PROVE RestInv
  OBVIOUS
<1>1. /\ page = [b \in Browsers |-> "none"] /\ todo = [b \in Browsers |-> << >>]
      /\ currency = CAD /\ pool = PoolSize
      /\ DOMAIN req = Browsers /\ DOMAIN price = Browsers
  BY DEF Init
<1>2. \A b \in Browsers : At(todo[b], 1) = "end"
  BY <1>1, EmptySeq DEF At
<1>3. PageInv
  BY <1>1, EmptySeq DEF PageInv
<1>4. PriceInv
  BY <1>1, <1>2 DEF PriceInv, Now
<1>5. HeldInv
  <2>1. PICK h : h = Holds
    OBVIOUS
  <2>2. \A b \in Browsers : h[b] = 0
    BY <1>2, <2>1, HoldsType DEF Holds, Now
  <2>3. Tokens(h) = {}
    BY <2>2 DEF Tokens
  <2> QED
    BY <1>1, <2>1, <2>3, FS_EmptySet, FrontendAssumption DEF HeldInv
<1> QED
  BY <1>3, <1>4, <1>5 DEF RestInv

LEMMA RestInvStep == ShopInv /\ RestInv /\ [Next]_vars => RestInv'
<1> SUFFICES ASSUME ShopInv, RestInv, [Next]_vars PROVE RestInv'
  OBVIOUS
<1>1. CASE UNCHANGED vars
  BY <1>1, RestSame DEF vars, front
<1>2. ASSUME NEW b \in Browsers, Exit(b) PROVE RestInv'
  BY <1>2, RestSame DEF Exit, front
<1>3. ASSUME NEW b \in Browsers, Open(b) PROVE RestInv'
  BY <1>3, OpenRest
<1>4. ASSUME NEW b \in Browsers, Reply(b) PROVE RestInv'
  <2>1. /\ todo[b] = << >> /\ page' = [page EXCEPT ![b] = "none"]
        /\ UNCHANGED <<currency, todo, req, item, price, cart, pool>>
    <3>1. PICK h \in {"malformed", "notfound", "logout"} : Arrives(b, h)
      BY <1>4 DEF Reply
    <3>2. h \notin Pages
      BY DEF Pages
    <3>3. UNCHANGED <<currency, todo, req, item, price, cart, pool>>
      BY <1>4 DEF Reply, front
    <3> QED
      BY <3>1, <3>2, <3>3 DEF Arrives
  <2>2. currency' \in Currencies \cup {CAD}
    BY <2>1 DEF RestInv, PriceInv
  <2> QED
    BY <2>1, <2>2, NoPageKeeps
<1>5. ASSUME NEW b \in Browsers, SetCurrency(b) PROVE RestInv'
  BY <1>5, NoPageKeeps DEF SetCurrency, front
<1>6. ASSUME NEW b \in Browsers, CurrenciesReply(b) PROVE RestInv'
  BY <1>6, QuietKeeps DEF CurrenciesReply, front
<1>7. ASSUME NEW b \in Browsers, AdReply(b) PROVE RestInv'
  BY <1>7, AdNeverFails, QuietKeeps
<1>8. ASSUME NEW b \in Browsers, ProductsReply(b) PROVE RestInv'
  BY <1>8, ProductsKeeps
<1>9. ASSUME NEW b \in Browsers, ProductReply(b) PROVE RestInv'
  BY <1>9, ProductKeeps
<1>10. ASSUME NEW b \in Browsers, CartReply(b) PROVE RestInv'
  BY <1>10, CartReplyRest
<1>11. ASSUME NEW b \in Browsers, QuoteReply(b) PROVE RestInv'
  BY <1>11, QuoteKeeps
<1>12. ASSUME NEW b \in Browsers, ConvertReply(b) PROVE RestInv'
  BY <1>12, ConvertKeeps
<1>13. ASSUME NEW b \in Browsers, RecommendReply(b) PROVE RestInv'
  BY <1>13, RecommendKeeps
<1>14. ASSUME NEW b \in Browsers, ListReply(b) PROVE RestInv'
  BY <1>14, ListKeeps
<1>15. ASSUME NEW b \in Browsers, AddReply(b) PROVE RestInv'
  BY <1>15, QuietKeeps DEF AddReply, front
<1>16. ASSUME NEW b \in Browsers, EmptyReply(b) PROVE RestInv'
  <2>1. Go(b, Then(b)) /\ UNCHANGED <<item, price, cart>>
    BY <1>16 DEF EmptyReply, front
  <2>2. CASE Returns(b, "empty") /\ UNCHANGED pool
    BY <2>1, <2>2, QuietKeeps
  <2>3. CASE Returns(b, "purge") /\ pool' = pool - 1
    BY <2>1, <2>3, PurgeKeeps
  <2> QED
    BY <1>16, <2>2, <2>3 DEF EmptyReply
<1>17. ASSUME NEW b \in Browsers, OrderReply(b) PROVE RestInv'
  BY <1>17, QuietKeeps DEF OrderReply, front
<1> QED
  BY <1>1, <1>2, <1>3, <1>4, <1>5, <1>6, <1>7, <1>8, <1>9, <1>10, <1>11, <1>12, <1>13, <1>14, <1>15,
     <1>16, <1>17 DEF Next, PageStep

LEMMA RestInvariant == Spec => [](ShopInv /\ RestInv)
<1> QED
  BY ShopInvInit, ShopInvStep, RestInvInit, RestInvStep, PTL DEF Spec

\* Only pages in progress hold buffers.
LEMMA TokensInProgress ==
  ASSUME RestInv, NEW h, h = Holds
  PROVE  /\ Tokens(h) \subseteq InProgress \X {1, 2}
         /\ IsFiniteSet(InProgress) /\ Cardinality(InProgress) \in Nat
         /\ IsFiniteSet(InProgress \X {1, 2})
         /\ Cardinality(InProgress \X {1, 2}) = 2 * Cardinality(InProgress)
<1>1. \A b \in Browsers \ InProgress : h[b] = 0
  <2>1. \A b \in Browsers \ InProgress : At(todo[b], 1) = "end"
    BY EmptySeq DEF InProgress, At
  <2> QED
    BY <2>1, HoldsType DEF Holds, Now
<1>2. Tokens(h) \subseteq InProgress \X {1, 2}
  <2> SUFFICES ASSUME NEW x \in Tokens(h) PROVE x \in InProgress \X {1, 2}
    OBVIOUS
  <2>1. x \in Browsers \X {1, 2} /\ x[2] <= h[x[1]]
    BY DEF Tokens
  <2>2. x[1] \in Browsers /\ x[2] \in {1, 2} /\ x = <<x[1], x[2]>>
    BY <2>1
  <2>3. x[1] \in InProgress
    BY <1>1, <2>1, <2>2
  <2> QED
    BY <2>2, <2>3
<1>3. IsFiniteSet(InProgress) /\ Cardinality(InProgress) \in Nat
  BY FrontendAssumption, FS_Subset, FS_CardinalityType DEF InProgress
<1>4. /\ IsFiniteSet(InProgress \X {1, 2})
      /\ Cardinality(InProgress \X {1, 2}) = Cardinality(InProgress) * Cardinality({1, 2})
  BY <1>3, PairOfNumbers, FS_Product
<1>5. Cardinality(InProgress) * 2 = 2 * Cardinality(InProgress)
  BY <1>3
<1> QED
  BY <1>2, <1>3, <1>4, <1>5, PairOfNumbers

\* The buffers pages took are all back when the pages are answered, and at any
\* time no page has more than two, its own and the recommendation service's.
THEOREM PagesReturnBuffers == Spec => []BuffersReturned
<1>1. ASSUME RestInv PROVE BuffersReturned
  <2>1. PICK h, c, n : h = Holds /\ c = Cardinality(Tokens(h)) /\ n = Cardinality(InProgress)
    OBVIOUS
  <2>2. pool = PoolSize - c
    BY <1>1, <2>1 DEF RestInv, HeldInv
  <2>3. Tokens(h) \subseteq InProgress \X {1, 2}
    BY <1>1, <2>1, TokensInProgress
  <2>4. n \in Nat /\ c \in Nat /\ c <= 2 * n
    <3>1. /\ IsFiniteSet(InProgress \X {1, 2}) /\ Cardinality(InProgress \X {1, 2}) = 2 * n
          /\ n \in Nat
      BY <1>1, <2>1, TokensInProgress
    <3>2. IsFiniteSet(Tokens(h)) /\ c <= Cardinality(InProgress \X {1, 2})
      BY <2>1, <2>3, <3>1, FS_Subset
    <3> QED
      BY <2>1, <3>1, <3>2, FS_CardinalityType
  <2>5. InProgress = {} => pool = PoolSize
    <3> SUFFICES ASSUME InProgress = {} PROVE pool = PoolSize
      OBVIOUS
    <3>1. Tokens(h) = {}
      BY <2>3
    <3> QED
      BY <2>1, <2>2, <3>1, FS_EmptySet, FrontendAssumption
  <2>6. pool + 2 * n >= PoolSize
    BY <2>2, <2>4, FrontendAssumption
  <2> QED
    BY <2>1, <2>5, <2>6 DEF BuffersReturned
<1> QED
  BY <1>1, RestInvariant, PTL

-----------------------------------------------------------------------------
(* Going down *)

\* The causes that DownNeedsCause allows.
Cause ==
  \/ \E b \in InProgress : req[b] \notin GetSupportedCurrencies \cup {NoCurrency}
  \/ \E b \in InProgress : page[b] = "product" /\ item[b].product \notin Catalog
  \/ \E x \in adds[USER_ID] : x.product \notin Catalog
  \/ PoolSize < 2 * Cardinality(InProgress)

\* A page that may have no price is one for a product outside the catalog, or
\* such a product is in the cart.
LEMMA UnpricedHasCause ==
  ASSUME ShopInv, RestInv, NEW b \in Browsers, Unpriced(b)
  PROVE  Cause
<1> DEFINE Unknown == \E x \in adds[USER_ID] : x.product \notin Catalog
<1>1. ASSUME store[USER_ID] # NoCart, store[USER_ID].items[0].product \notin Catalog PROVE Unknown
  <2>1. PICK x \in adds[USER_ID] : store[USER_ID].items[0].product = x.product
    BY <1>1, OneItemCart
  <2> QED
    BY <1>1, <2>1
<1>2. ASSUME NEW r \in {"convert", "order"}, Returns(b, r), req[b] \notin GetSupportedCurrencies PROVE Cause
  <2>1. Now(b) = r /\ todo[b] # << >>
    BY <1>2, ReturnsFacts DEF RestInv
  <2>2. req[b] \in Currencies \cup {CAD}
    BY <2>1 DEF RestInv, PriceInv
  <2>3. req[b] # NoCurrency
    BY <2>2, FrontendAssumption
  <2> QED
    BY <1>2, <2>1, <2>3 DEF Cause, InProgress
<1>3. ASSUME Returns(b, "convert"), page[b] # "home", price[b] = NoProduct PROVE Cause
  <2>1. PICK x : x = At(Then(b), 1)
    OBVIOUS
  <2>2. page[b] \in Pages /\ Now(b) = "convert" /\ todo[b] # << >> /\ <<"convert", x>> \in Flow(page[b])
    BY <1>3, <2>1, ReturnsFacts DEF RestInv
  <2>3. page[b] \in {"product", "cart"}
    <3>1. <<page[b], x>> \in {<<"home", "convert">>, <<"home", "ad">>, <<"product", "recommend">>,
                              <<"cart", "product">>, <<"cart", "end">>}
      BY <2>2, FlowFrom
    <3> QED
      BY <1>3, <3>1
  <2>4. \A q : NoProduct \in GetProduct(q) => q \notin Catalog
    BY ServicesAssumption DEF GetProduct, products
  <2>5. CASE page[b] = "product"
    <3>1. NoProduct \in GetProduct(item[b].product)
      BY <1>3, <2>2, <2>5 DEF RestInv, PriceInv
    <3> QED
      BY <2>2, <2>4, <2>5, <3>1 DEF Cause, InProgress
  <2>6. CASE page[b] = "cart"
    <3>1. cart[b] # << >> /\ NoProduct \in GetProduct(cart[b][1].product)
      BY <1>3, <2>2, <2>6, FrontendAssumption DEF RestInv, PriceInv
    <3>2. store[USER_ID] # NoCart /\ cart[b] = GetCart(USER_ID)
      BY <3>1 DEF ShopInv, SeenInv
    <3>3. cart[b][1] = store[USER_ID].items[0]
      BY <3>2, OneItemCart
    <3> QED
      BY <1>1, <2>4, <3>1, <3>2, <3>3 DEF Cause
  <2> QED
    BY <2>3, <2>5, <2>6
<1>4. ASSUME store[USER_ID] # NoCart, NEW k \in Used(store[USER_ID]),
             store[USER_ID].items[k].product \notin Catalog
      PROVE  Cause
  <2>1. k = 0
    BY <1>4, OneItemCart
  <2> QED
    BY <1>1, <1>4, <2>1 DEF Cause
<1> QED
  BY <1>2, <1>3, <1>4 DEF Unpriced, Convertible

\* A page that waits for a buffer has at most one of the two it will hold.
LEMMA NoBufferHasCause ==
  ASSUME RestInv, NEW b \in Browsers, NoBuffer(b)
  PROVE  PoolSize < 2 * Cardinality(InProgress)
<1>1. PICK h, c, n : h = Holds /\ c = Cardinality(Tokens(h)) /\ n = Cardinality(InProgress)
  OBVIOUS
<1>2. PICK r \in {"products", "recommend", "purge"} : Returns(b, r)
  BY DEF NoBuffer
<1>3. todo[b] # << >> /\ Now(b) = r
  BY <1>2, ReturnsFacts DEF RestInv
<1>4. h[b] <= 1
  <2>1. HoldsAt(page[b], r) \in {0, 1}
    BY DEF HoldsAt
  <2>2. h[b] = HoldsAt(page[b], r)
    BY <1>1, <1>3 DEF Holds
  <2> QED
    BY <2>1, <2>2
<1> DEFINE x == <<b, 2>>
           A == InProgress \X {1, 2}
<1>5. x \notin Tokens(h) /\ x \in A
  <2>1. h[b] \in 0 .. 2
    BY <1>1, HoldsType
  <2>2. b \in InProgress
    BY <1>3 DEF InProgress
  <2> QED
    BY <1>4, <2>1, <2>2 DEF Tokens
<1>6. Tokens(h) \subseteq A /\ IsFiniteSet(A) /\ Cardinality(A) = 2 * n /\ n \in Nat
  BY <1>1, TokensInProgress
<1> HIDE DEF x, A
<1>7. IsFiniteSet(Tokens(h)) /\ c \in Nat
  BY <1>1, <1>6, FS_Subset, FS_CardinalityType
<1>8. Cardinality(Tokens(h) \cup {x}) = c + 1
  BY <1>1, <1>5, <1>7, FS_AddElement
<1>9. c + 1 <= 2 * n
  <2>1. Tokens(h) \cup {x} \subseteq A
    BY <1>5, <1>6
  <2> QED
    BY <1>6, <1>8, <2>1, FS_Subset
<1>10. PoolSize = c
  <2>1. 0 = PoolSize - c
    BY <1>1 DEF RestInv, HeldInv, NoBuffer
  <2> QED
    BY <1>7, <2>1, FrontendAssumption
<1> QED
  BY <1>1, <1>6, <1>7, <1>9, <1>10

\* Steps are taken only while frontend runs, and only Exit stops it.
LEMMA OnlyExitStops ==
  ASSUME NEW b \in Browsers, Open(b) \/ Reply(b) \/ SetCurrency(b) \/ PageStep(b)
  PROVE  status = "run" /\ (status' = "run" \/ Exit(b))
<1>1. CASE Open(b)
  BY <1>1 DEF Open, Arrives
<1>2. CASE Reply(b)
  BY <1>2 DEF Reply, Arrives
<1>3. CASE SetCurrency(b)
  BY <1>3 DEF SetCurrency
<1>4. CASE CurrenciesReply(b) \/ ProductsReply(b) \/ ProductReply(b) \/ QuoteReply(b) \/ ConvertReply(b)
  BY <1>4 DEF CurrenciesReply, ProductsReply, ProductReply, QuoteReply, ConvertReply, Returns, Go
<1>5. CASE RecommendReply(b) \/ ListReply(b) \/ AddReply(b) \/ EmptyReply(b) \/ OrderReply(b)
  BY <1>5 DEF RecommendReply, ListReply, AddReply, EmptyReply, OrderReply, Returns, Go
<1>6. CASE CartReply(b)
  BY <1>6 DEF CartReply, Returns, Go
<1>7. CASE AdReply(b)
  BY <1>7, AdNeverFails DEF Returns, Go
<1>8. CASE Exit(b)
  BY <1>8 DEF Exit
<1> QED
  BY <1>1, <1>2, <1>3, <1>4, <1>5, <1>6, <1>7, <1>8 DEF PageStep

\* Frontend goes down for nothing but an unsupported currency, a product outside
\* the catalog, or more pages at once than the pool has buffers for; never for
\* the division by the number of ads.
THEOREM DownHasCause == Spec => []DownNeedsCause
<1>2. Init => DownNeedsCause
  BY DEF Init, DownNeedsCause
<1>3. ASSUME DownNeedsCause, ShopInv, RestInv, [Next]_vars PROVE DownNeedsCause'
  <2>1. CASE UNCHANGED vars
    BY <1>3, <2>1 DEF DownNeedsCause, InProgress, vars, front, cartVars, GetSupportedCurrencies
  <2>2. ASSUME NEW b \in Browsers, Open(b) \/ Reply(b) \/ SetCurrency(b) \/ PageStep(b)
        PROVE  DownNeedsCause'
    <3>1. CASE status' = "run"
      BY <3>1 DEF DownNeedsCause
    <3>2. CASE Exit(b)
      <4>1. Cause
        <5>1. Unpriced(b) \/ NoBuffer(b)
          BY <3>2 DEF Exit
        <5> QED
          BY <1>3, <5>1, UnpricedHasCause, NoBufferHasCause DEF Cause
      <4>2. Cause'
        BY <3>2, <4>1 DEF Exit, Cause, InProgress, front, cartVars, GetSupportedCurrencies
      <4>3. status' = "exit"
        BY <3>2 DEF Exit
      <4> QED
        BY <4>2, <4>3 DEF DownNeedsCause, Cause
    <3> QED
      BY <2>2, <3>1, <3>2, OnlyExitStops
  <2> QED
    BY <1>3, <2>1, <2>2 DEF Next
<1>4. DownNeedsCause /\ ShopInv /\ RestInv /\ [Next]_vars => DownNeedsCause'
  BY <1>3
<1> QED
  BY <1>2, <1>4, RestInvariant, PTL DEF Spec

-----------------------------------------------------------------------------
(* Amounts of money *)

\* Division and remainder of C belong together.
LEMMA QuotAndRem ==
  ASSUME NEW k \in Int, NEW m \in Nat \ {0}
  PROVE  Quot(k, m) \in Int /\ Rem(k, m) \in Int /\ Quot(k, m) * m + Rem(k, m) = k
<1>1. \A j \in Int : j \div m \in Int /\ j % m \in Int /\ j = m * (j \div m) + (j % m)
  OBVIOUS
<1> QED
  BY <1>1 DEF Quot, Rem

LEMMA AmountIs ==
  ASSUME NEW u \in Int, NEW k \in Int
  PROVE  /\ Amount(u, k) \in Money /\ Amount(u, k).units = u /\ Amount(u, k).nanos = k
         /\ Value(Amount(u, k)) = u * NANOSMOD + k /\ Value(Amount(u, k)) \in Int
BY MoneyAssumption DEF Amount, Money, Value

\* The value of a sum, whichever branch MoneySum takes.
LEMMA SumValue ==
  ASSUME NEW a \in Money, NEW b \in Money
  PROVE  MoneySum(a, b) \in Money /\ Value(MoneySum(a, b)) = Value(a) + Value(b)
<1>1. PICK m \in Nat \ {0} : m = NANOSMOD
  BY MoneyAssumption
<1>2. PICK u \in Int : u = a.units + b.units
  BY DEF Money
<1>3. PICK k \in Int : k = a.nanos + b.nanos
  BY DEF Money
<1>4. Value(a) + Value(b) = u * m + k
  BY <1>1, <1>2, <1>3 DEF Value, Money
<1>5. Carry(u, k) \in Money /\ Value(Carry(u, k)) = u * m + k
  <2>1. PICK q \in Int, r \in Int : q = Quot(k, m) /\ r = Rem(k, m) /\ q * m + r = k
    BY QuotAndRem
  <2>2. PICK v \in Int : v = u + q
    OBVIOUS
  <2>3. Carry(u, k) = Amount(v, r)
    BY <1>1, <2>1, <2>2 DEF Carry
  <2>4. (u + q) * m = u * m + q * m /\ u * m \in Int /\ q * m \in Int
    OBVIOUS
  <2>5. v * m + r = u * m + k
    <3>1. PICK x \in Int, y \in Int : x = u * m /\ y = q * m
      BY <2>4
    <3>2. v * m = x + y
      BY <2>2, <2>4, <3>1
    <3>3. y + r = k
      BY <2>1, <3>1
    <3>4. (x + y) + r = x + k
      BY <3>3
    <3> QED
      BY <3>1, <3>2, <3>4
  <2>6. Amount(v, r) \in Money /\ Value(Amount(v, r)) = v * m + r
    BY <1>1, AmountIs
  <2> QED
    BY <2>3, <2>5, <2>6
<1>6. Borrow(u, k) \in Money /\ Value(Borrow(u, k)) = u * m + k
  <2>1. (u - 1) * m + (k + m) = u * m + k /\ (u + 1) * m + (k - m) = u * m + k
    OBVIOUS
  <2>2. CASE u > 0
    <3>1. Borrow(u, k) = Amount(u - 1, k + m)
      BY <1>1, <2>2 DEF Borrow
    <3> QED
      BY <1>1, <2>1, <3>1, AmountIs
  <2>3. CASE ~(u > 0)
    <3>1. Borrow(u, k) = Amount(u + 1, k - m)
      BY <1>1, <2>3 DEF Borrow
    <3> QED
      BY <1>1, <2>1, <3>1, AmountIs
  <2> QED
    BY <2>2, <2>3
<1>7. MoneySum(a, b) = IF SameSign(u, k) THEN Carry(u, k) ELSE Borrow(u, k)
  BY <1>2, <1>3 DEF MoneySum
<1> QED
  BY <1>4, <1>5, <1>6, <1>7

LEMMA ValueIsInt == \A m \in Money : Value(m) \in Int
BY MoneyAssumption DEF Value, Money

-----------------------------------------------------------------------------
(* MoneyMultiplySlow *)

\* The least number of a set.
LEMMA LeastNumber ==
  ASSUME NEW T, T \subseteq Nat, T # {}
  PROVE  \E x \in T : \A y \in T : x <= y
<1> DEFINE R == OpToRel(<, Nat)
<1>1. IsWellFoundedOn(R, Nat)
  BY NatLessThanWellFounded
<1>2. \A x, y \in Nat : x < y => <<x, y>> \in R
  BY DEF OpToRel
<1> HIDE DEF R
<1>3. PICK x \in T : \A y \in T : ~(<<y, x>> \in R)
  BY <1>1, WFMin
<1>4. ASSUME NEW y \in T PROVE x <= y
  <2>1. x \in Nat /\ y \in Nat /\ ~(y < x)
    BY <1>2, <1>3
  <2> QED
    BY <2>1
<1> QED
  BY <1>4

\* Induction, for the numbers with a property as a set.
LEMMA SetInduction ==
  ASSUME NEW S, 0 \in S, \A i \in Nat : i \in S => i + 1 \in S
  PROVE  \A i \in Nat : i \in S
<1> SUFFICES ASSUME Nat \ S # {} PROVE FALSE
  OBVIOUS
<1>1. PICK x \in Nat \ S : \A y \in Nat \ S : x <= y
  BY LeastNumber
<1>2. x # 0 /\ x - 1 \in Nat /\ ~(x <= x - 1)
  BY <1>1
<1>3. x - 1 \in S
  BY <1>1, <1>2
<1>4. (x - 1) + 1 \in S
  BY <1>2, <1>3
<1> QED
  BY <1>4

\* g has the amounts after each of t rounds of the loop.
Rounds(g, m, t) == g = [i \in 0 .. t |-> IF i = 0 THEN m ELSE MoneySum(g[i - 1], g[i - 1])]

LEMMA RoundsExist ==
  ASSUME NEW m, NEW t \in Nat
  PROVE  \E g : Rounds(g, m, t)
<1> DEFINE S == {r \in Nat : \E g : Rounds(g, m, r)}
<1>1. 0 \in S
  <2>1. Rounds([i \in 0 .. 0 |-> m], m, 0)
    BY DEF Rounds
  <2> QED
    BY <2>1
<1>2. ASSUME NEW r \in Nat, r \in S PROVE r + 1 \in S
  <2>1. PICK g : Rounds(g, m, r)
    BY <1>2
  <2> DEFINE h == [i \in 0 .. r + 1 |-> IF i = 0 THEN m ELSE MoneySum(g[i - 1], g[i - 1])]
  <2>2. ASSUME NEW i \in 0 .. r PROVE h[i] = g[i]
    <3>1. i \in 0 .. r + 1
      OBVIOUS
    <3> QED
      BY <2>1, <3>1 DEF Rounds
  <2>3. ASSUME NEW i \in 0 .. r + 1
        PROVE  (IF i = 0 THEN m ELSE MoneySum(g[i - 1], g[i - 1]))
                 = IF i = 0 THEN m ELSE MoneySum(h[i - 1], h[i - 1])
    <3>1. i # 0 => i - 1 \in 0 .. r
      OBVIOUS
    <3> HIDE DEF h
    <3> QED
      BY <2>2, <3>1
  <2>4. Rounds(h, m, r + 1)
    <3> DEFINE k == [i \in 0 .. r + 1 |-> IF i = 0 THEN m ELSE MoneySum(h[i - 1], h[i - 1])]
    <3>1. h = k
      BY <2>3
    <3> HIDE DEF h
    <3> QED
      BY <3>1 DEF Rounds
  <2> QED
    BY <2>4
<1>3. \A r \in Nat : r \in S
  <2> HIDE DEF S
  <2> QED
    BY <1>1, <1>2, SetInduction
<1> QED
  BY <1>3

\* The amount after some rounds does not depend on how many follow.
LEMMA RoundsAgree ==
  ASSUME NEW m, NEW t \in Nat, NEW u \in Nat, t <= u,
         NEW g, NEW h, Rounds(g, m, t), Rounds(h, m, u)
  PROVE  g[t] = h[t]
<1> DEFINE S == {i \in Nat : i <= t => g[i] = h[i]}
<1>1. 0 \in S
  <2>1. 0 \in 0 .. t /\ 0 \in 0 .. u
    OBVIOUS
  <2>2. g[0] = m /\ h[0] = m
    BY <2>1 DEF Rounds
  <2> QED
    BY <2>2
<1>2. ASSUME NEW i \in Nat, i \in S PROVE i + 1 \in S
  <2> SUFFICES ASSUME i + 1 <= t PROVE g[i + 1] = h[i + 1]
    OBVIOUS
  <2>1. i + 1 \in 0 .. t /\ i + 1 \in 0 .. u /\ i + 1 # 0 /\ (i + 1) - 1 = i /\ g[i] = h[i]
    BY <1>2
  <2>2. g[i + 1] = MoneySum(g[i], g[i]) /\ h[i + 1] = MoneySum(h[i], h[i])
    BY <2>1 DEF Rounds
  <2> QED
    BY <2>1, <2>2
<1>3. t \in S
  <2> HIDE DEF S
  <2> QED
    BY <1>1, <1>2, SetInduction
<1> QED
  BY <1>3

\* MoneyMultiplySlow is the last of such amounts.
LEMMA MultiplyRounds ==
  ASSUME NEW m, NEW q \in Nat
  PROVE  \E g : /\ Rounds(g, m, IF q > 1 THEN q - 1 ELSE 0)
                /\ MoneyMultiplySlow(m, q) = g[IF q > 1 THEN q - 1 ELSE 0]
<1> DEFINE t == IF q > 1 THEN q - 1 ELSE 0
           E(g) == [i \in 0 .. t |-> IF i = 0 THEN m ELSE MoneySum(g[i - 1], g[i - 1])]
           a == CHOOSE g : g = E(g)
<1>1. t \in Nat
  OBVIOUS
<1>2. MoneyMultiplySlow(m, q) = a[t]
  BY DEF MoneyMultiplySlow
<1>3. \A g : Rounds(g, m, t) <=> g = E(g)
  BY DEF Rounds
<1>4. \E g : g = E(g)
  <2> HIDE DEF t, E
  <2> QED
    BY <1>1, <1>3, RoundsExist
<1>5. a = E(a)
  <2> HIDE DEF E
  <2> QED
    BY <1>4, Zenon
<1> HIDE DEF a, E
<1>6. Rounds(a, m, t)
  BY <1>3, <1>5
<1> QED
  BY <1>2, <1>6

\* MoneyMultiplySlow adds the amount to itself, so that each round doubles it:
\* q rounds less one (utilities.h:36).
THEOREM MultiplyDoubles ==
  ASSUME NEW m \in Money
  PROVE  /\ MoneyMultiplySlow(m, 0) = m /\ MoneyMultiplySlow(m, 1) = m
         /\ \A q \in Nat : MoneyMultiplySlow(m, q) \in Money
         /\ \A q \in Nat \ {0} :
              Value(MoneyMultiplySlow(m, q + 1)) = 2 * Value(MoneyMultiplySlow(m, q))
<1>1. ASSUME NEW t \in Nat, NEW g, Rounds(g, m, t) PROVE g[0] = m
  <2>1. 0 \in 0 .. t
    OBVIOUS
  <2> QED
    BY <1>1, <2>1 DEF Rounds
<1>2. ASSUME NEW q \in {0, 1} PROVE MoneyMultiplySlow(m, q) = m
  <2>1. q \in Nat /\ (IF q > 1 THEN q - 1 ELSE 0) = 0
    OBVIOUS
  <2>2. \E g : Rounds(g, m, 0) /\ MoneyMultiplySlow(m, q) = g[0]
    BY <2>1, MultiplyRounds
  <2> QED
    BY <1>1, <2>2
<1>3. ASSUME NEW q \in Nat \ {0}
      PROVE  MoneyMultiplySlow(m, q + 1)
               = MoneySum(MoneyMultiplySlow(m, q), MoneyMultiplySlow(m, q))
  <2>1. q - 1 \in Nat /\ q - 1 <= q /\ (IF q > 1 THEN q - 1 ELSE 0) = q - 1
    OBVIOUS
  <2>2. q + 1 \in Nat /\ (IF q + 1 > 1 THEN (q + 1) - 1 ELSE 0) = q
    OBVIOUS
  <2>3. PICK g : Rounds(g, m, q - 1) /\ MoneyMultiplySlow(m, q) = g[q - 1]
    BY <2>1, MultiplyRounds
  <2>4. PICK h : Rounds(h, m, q) /\ MoneyMultiplySlow(m, q + 1) = h[q]
    BY <2>2, MultiplyRounds
  <2>5. g[q - 1] = h[q - 1]
    BY <2>1, <2>3, <2>4, RoundsAgree
  <2>6. q \in 0 .. q /\ q # 0
    OBVIOUS
  <2>7. h[q] = MoneySum(h[q - 1], h[q - 1])
    BY <2>4, <2>6 DEF Rounds
  <2> QED
    BY <2>3, <2>4, <2>5, <2>7
<1> DEFINE S == {q \in Nat : MoneyMultiplySlow(m, q) \in Money}
<1>4. 0 \in S
  BY <1>2
<1>5. ASSUME NEW q \in Nat, q \in S PROVE q + 1 \in S
  <2>1. CASE q = 0
    <3>1. q + 1 = 1
      BY <2>1
    <3> QED
      BY <1>2, <3>1
  <2>2. CASE q # 0
    <3>1. MoneyMultiplySlow(m, q + 1)
            = MoneySum(MoneyMultiplySlow(m, q), MoneyMultiplySlow(m, q))
      BY <1>3, <2>2
    <3>2. MoneySum(MoneyMultiplySlow(m, q), MoneyMultiplySlow(m, q)) \in Money
      BY <1>5, SumValue
    <3> QED
      BY <3>1, <3>2
  <2> QED
    BY <2>1, <2>2
<1>6. \A q \in Nat : MoneyMultiplySlow(m, q) \in Money
  <2>1. \A q \in Nat : q \in S
    <3> HIDE DEF S
    <3> QED
      BY <1>4, <1>5, SetInduction
  <2> QED
    BY <2>1
<1>7. ASSUME NEW q \in Nat \ {0}
      PROVE  Value(MoneyMultiplySlow(m, q + 1)) = 2 * Value(MoneyMultiplySlow(m, q))
  <2>1. PICK x \in Money : x = MoneyMultiplySlow(m, q)
    BY <1>6
  <2>2. Value(MoneySum(x, x)) = Value(x) + Value(x)
    BY SumValue
  <2>3. Value(x) \in Int
    BY ValueIsInt
  <2> QED
    BY <1>3, <2>1, <2>2, <2>3
<1> QED
  BY <1>2, <1>6, <1>7

\* MoneyMultiplySlow is right for one and for two of an item, and wrong for every
\* other quantity: none is charged as one, and for three and more it charges too
\* much (utilities.h:36).
THEOREM MultiplyRightUpToTwo ==
  ASSUME NEW m \in Money, Value(m) >= 0, NEW q \in Nat
  PROVE  /\ Value(MoneyMultiplySlow(m, q)) >= q * Value(m)
         /\ Value(MoneyMultiplySlow(m, q)) > q * Value(m) <=> q \notin {1, 2} /\ Value(m) > 0
<1>1. PICK v \in Nat : v = Value(m)
  BY ValueIsInt
<1> DEFINE w(i) == Value(MoneyMultiplySlow(m, i))
           S == {i \in Nat : i >= 3 => IF v = 0 THEN w(i) = 0 ELSE w(i) > i * v}
<1>2. /\ w(0) = v /\ w(1) = v
      /\ \A i \in Nat \ {0} : w(i + 1) = 2 * w(i)
      /\ \A i \in Nat : w(i) \in Int
  BY <1>1, MultiplyDoubles, ValueIsInt
<1> HIDE DEF w
<1>3. w(2) = 2 * v /\ w(3) = 4 * v
  <2>1. w(1 + 1) = 2 * w(1) /\ w(2 + 1) = 2 * w(2)
    BY <1>2
  <2> QED
    BY <1>2, <2>1
<1>4. 0 \in S
  OBVIOUS
<1>5. ASSUME NEW i \in Nat, i \in S PROVE i + 1 \in S
  <2> SUFFICES ASSUME i + 1 >= 3 PROVE IF v = 0 THEN w(i + 1) = 0 ELSE w(i + 1) > (i + 1) * v
    OBVIOUS
  <2>1. CASE i = 2
    BY <1>1, <1>3, <2>1
  <2>2. CASE i # 2
    <3>1. /\ i >= 3 /\ w(i + 1) = 2 * w(i) /\ w(i) \in Int
          /\ IF v = 0 THEN w(i) = 0 ELSE w(i) > i * v
      BY <1>2, <1>5, <2>2
    <3>2. PICK p \in Nat : p = i * v
      OBVIOUS
    <3>3. (i + 1) * v = p + v /\ p >= v
      <4>1. p = (i - 1) * v + v /\ (i - 1) * v >= 0
        BY <3>1, <3>2
      <4> QED
        BY <3>2, <4>1
    <3> QED
      BY <3>1, <3>2, <3>3
  <2> QED
    BY <2>1, <2>2
<1>6. q \in S
  <2> HIDE DEF S
  <2> QED
    BY <1>4, <1>5, SetInduction
<1>7. w(q) >= q * v /\ (w(q) > q * v <=> q \notin {1, 2} /\ v > 0)
  <2>1. CASE q = 0
    BY <1>2, <2>1
  <2>2. CASE q \in {1, 2}
    BY <1>2, <1>3, <2>2
  <2>3. CASE q >= 3
    <3>1. w(q) \in Int /\ q * v \in Nat /\ (v = 0 => q * v = 0)
      BY <1>2
    <3> QED
      BY <1>6, <2>3, <3>1
  <2> QED
    BY <2>1, <2>2, <2>3
<1> QED
  BY <1>1, <1>7 DEF w

-----------------------------------------------------------------------------
(* The currency service *)

\* The currency service answers with an amount.
LEMMA ConvertIsMoney ==
  ASSUME NEW m \in UsdAmounts, NEW to \in DOMAIN Rate
  PROVE  Convert[m][to] \in Money
<1>1. UsdAmounts \subseteq Money
  <2>1. Amount(0, 0) \in Money
    BY AmountIs
  <2> QED
    BY <2>1, ServicesAssumption DEF UsdAmounts
<1>2. ASSUME NEW a \in Money, NEW cur \in DOMAIN Rate
      PROVE  CurrencyCarry(DividedBy(a, Rate[cur])) \in Money
  <2>1. Rate[cur][1] \in Nat \ {0} /\ Rate[cur][2] \in Nat \ {0} /\ a.units \in Int /\ a.nanos \in Int
    BY ServicesAssumption DEF Money
  <2>2. a.units * Rate[cur][2] \in Int /\ a.nanos * Rate[cur][2] \in Int
    BY <2>1
  <2>3. PICK u \in Int, k \in Int : DividedBy(a, Rate[cur]) = Amount(u, k)
    BY <2>1, <2>2, QuotAndRem DEF DividedBy
  <2>4. u + k \div NANOSMOD \in Int /\ Rem(k, NANOSMOD) \in Int
    BY MoneyAssumption, QuotAndRem
  <2>5. Amount(u, k).units = u /\ Amount(u, k).nanos = k
    BY AmountIs
  <2>6. CurrencyCarry(Amount(u, k)) = Amount(u + k \div NANOSMOD, Rem(k, NANOSMOD))
    BY <2>5 DEF CurrencyCarry
  <2> QED
    BY <2>3, <2>4, <2>6, AmountIs
<1>3. Convert[m][to] = CurrencyCarry(DividedBy(CurrencyCarry(DividedBy(m, Rate[USD])), Rate[to]))
  BY DEF Convert
<1>4. PICK e \in Money : e = CurrencyCarry(DividedBy(m, Rate[USD]))
  BY <1>1, <1>2, ServicesAssumption
<1> QED
  BY <1>2, <1>3, <1>4

\* What is not negative is converted to what is not negative.
LEMMA ConvertNotNegative ==
  ASSUME NEW m \in UsdAmounts, NEW u \in Nat, NEW k \in Nat, m = Amount(u, k), NEW to \in DOMAIN Rate
  PROVE  Value(Convert[m][to]) \in Nat
<1>1. ASSUME NEW i \in Nat, NEW j \in Nat, NEW cur \in DOMAIN Rate
      PROVE  \E x, y \in Nat : CurrencyCarry(DividedBy(Amount(i, j), Rate[cur])) = Amount(x, y)
  <2>1. PICK a \in Nat \ {0}, c \in Nat \ {0} : Rate[cur][1] = a /\ Rate[cur][2] = c
    BY ServicesAssumption
  <2>2. PICK p \in Nat, q \in Nat : p = i * c /\ q = j * c
    OBVIOUS
  <2>3. ASSUME NEW l \in Nat, NEW d \in Nat \ {0} PROVE Quot(l, d) \in Nat /\ Rem(l, d) \in Nat
    <3>1. l \div d \in Nat /\ l % d \in Nat
      OBVIOUS
    <3>2. Quot(l, d) = l \div d /\ Rem(l, d) = l % d
      BY DEF Quot, Rem
    <3> QED
      BY <3>1, <3>2
  <2>4. PICK x \in Nat, y \in Nat : x = Quot(p, a) /\ y = Quot(q, a)
    <3>1. Quot(p, a) \in Nat /\ Quot(q, a) \in Nat
      BY <2>3
    <3> QED
      BY <3>1
  <2>5. DividedBy(Amount(i, j), Rate[cur]) = Amount(x, y)
    <3>1. Amount(i, j).units = i /\ Amount(i, j).nanos = j
      BY DEF Amount
    <3> QED
      BY <2>1, <2>2, <2>4, <3>1 DEF DividedBy
  <2>6. CurrencyCarry(Amount(x, y)) = Amount(x + y \div NANOSMOD, Rem(y, NANOSMOD))
    <3>1. Amount(x, y).units = x /\ Amount(x, y).nanos = y
      BY DEF Amount
    <3> QED
      BY <3>1 DEF CurrencyCarry
  <2>7. x + y \div NANOSMOD \in Nat /\ Rem(y, NANOSMOD) \in Nat
    <3>1. PICK z \in Nat : z = y \div NANOSMOD /\ Rem(y, NANOSMOD) \in Nat
      <4>1. y \div NANOSMOD \in Nat
        BY MoneyAssumption
      <4>2. Rem(y, NANOSMOD) \in Nat
        BY <2>3, MoneyAssumption
      <4> QED
        BY <4>1, <4>2
    <3> QED
      BY <2>4, <3>1
  <2> QED
    BY <2>5, <2>6, <2>7
<1>2. Convert[m][to] = CurrencyCarry(DividedBy(CurrencyCarry(DividedBy(m, Rate[USD])), Rate[to]))
  BY DEF Convert
<1>3. PICK x \in Nat, y \in Nat : CurrencyCarry(DividedBy(m, Rate[USD])) = Amount(x, y)
  BY <1>1, ServicesAssumption
<1>4. PICK z \in Nat, w \in Nat : Convert[m][to] = Amount(z, w)
  BY <1>1, <1>2, <1>3
<1>5. z * NANOSMOD + w \in Nat
  BY MoneyAssumption
<1> QED
  BY <1>4, <1>5, AmountIs

-----------------------------------------------------------------------------
(* The total of a cart page *)

\* How far a cart page is, by the RPCs that are left to it.
Placed(b) ==
  LET n == Len(cart[b])
      l == Len(todo[b])
  IN \/ Now(b) = "currencies" /\ l = 6
     \/ Now(b) = "cart" /\ l = 5
     \/ Now(b) = "recommend" /\ l = 4 + 2 * n
     \/ Now(b) = "list" /\ l = 3 + 2 * n
     \/ Now(b) = "quote" /\ l = 2 + 2 * n
     \/ Now(b) = "convert" /\ price[b] = "quote" /\ l = 1 + 2 * n
     \/ Now(b) = "product" /\ l = 2 /\ n = 1
     \/ Now(b) = "convert" /\ price[b] # "quote" /\ l = 1 /\ n = 1

\* The shipping cost has been converted.
Shipped(b) == Now(b) = "product" \/ (Now(b) = "convert" /\ price[b] # "quote")

\* The item, if any, is in the catalog.
Priced(b) == cart[b] # << >> => cart[b][1].product \in Catalog

\* What the page should show for the item.
ItemsValue(b, cur) == IF cart[b] = << >> THEN 0 ELSE cart[b][1].quantity * ItemPrice(b, 1, cur)

\* The total is in currency s for the shipping cost and in cur for the item.
ShownIn(b, s, cur) ==
  LET due == Value(Convert[GetQuote(cart[b])][s]) + ItemsValue(b, cur)
  IN /\ s \in DOMAIN Rate /\ cur \in DOMAIN Rate
     /\ ItemsValue(b, cur) \in Int
     /\ Value(total[b]) >= due
     /\ Value(total[b]) > due <=> cart[b] # << >> /\ Miscounted(b, 1, cur)

\* What is converted is in a currency that was in force while the page was put
\* together, and nothing is added up before the end.
Summed(b) ==
  /\ page[b] = "cart" =>
       /\ todo[b] # << >> /\ currency \in during[b] /\ total[b] = Amount(0, 0) /\ Placed(b)
       /\ Now(b) = "convert" => req[b] \in during[b]
       /\ Shipped(b) => \E s \in during[b] : s \in DOMAIN Rate /\ shipping[b] = Convert[GetQuote(cart[b])][s]
  /\ page[b] = "seen" /\ Priced(b) => \E s, cur \in during[b] : ShownIn(b, s, cur)

TotalsInv ==
  /\ DOMAIN total = Browsers /\ DOMAIN shipping = Browsers /\ DOMAIN during = Browsers
  /\ \A b \in Browsers : Summed(b)

\* The steps of other pages.
LEMMA SummedKept ==
  ASSUME NEW b \in Browsers, Summed(b),
         page'[b] = page[b], todo'[b] = todo[b], req'[b] = req[b], price'[b] = price[b],
         cart'[b] = cart[b], shipping'[b] = shipping[b], total'[b] = total[b],
         during[b] \subseteq during'[b],
         page[b] = "cart" /\ currency \in during[b] => currency' \in during'[b],
         page[b] = "seen" => during'[b] = during[b]
  PROVE  Summed(b)'
<1>1. Now(b)' = Now(b) /\ Placed(b)' = Placed(b) /\ Shipped(b)' = Shipped(b) /\ Priced(b)' = Priced(b)
  BY DEF Now, At, Placed, Shipped, Priced
<1>2. ASSUME page[b] = "cart"
      PROVE  /\ todo'[b] # << >> /\ currency' \in during'[b] /\ total'[b] = Amount(0, 0) /\ Placed(b)'
             /\ Now(b)' = "convert" => req'[b] \in during'[b]
             /\ Shipped(b)' => \E s \in during'[b] : s \in DOMAIN Rate /\ shipping'[b] = Convert[GetQuote(cart'[b])][s]
  BY <1>1, <1>2 DEF Summed
<1>3. \A s, cur : ShownIn(b, s, cur)' = ShownIn(b, s, cur)
  BY DEF ShownIn, ItemsValue, ItemPrice, Miscounted
<1>4. ASSUME page[b] = "seen", Priced(b)
      PROVE  \E s, cur \in during'[b] : ShownIn(b, s, cur)'
  BY <1>3, <1>4 DEF Summed
<1> QED
  BY <1>1, <1>2, <1>4 DEF Summed

\* When a page goes on, the others are as they were, and it needs a proof only if
\* it is a cart page.
LEMMA TotalsGo ==
  ASSUME PageInv, PriceInv, TotalsInv, NEW b \in Browsers, NEW rest \in Seq(Rpcs), Go(b, rest),
         todo[b] # << >>,
         DOMAIN total' = Browsers, DOMAIN shipping' = Browsers,
         \A d \in Browsers \ {b} : /\ price'[d] = price[d] /\ cart'[d] = cart[d]
                                   /\ shipping'[d] = shipping[d] /\ total'[d] = total[d],
         page[b] = "cart" => Summed(b)'
  PROVE  TotalsInv'
<1>1. /\ todo'[b] = rest
      /\ \A d \in Browsers \ {b} : todo'[d] = todo[d] /\ page'[d] = page[d]
      /\ req' = [req EXCEPT ![b] = IF At(rest, 1) \in {"convert", "order"}
                                   THEN currency ELSE NoCurrency]
      /\ currency' = currency
  BY GoFacts
<1>2. during' = during /\ DOMAIN during' = Browsers
  BY DEF Go, TotalsInv
<1>3. page[b] # "cart" => page'[b] \notin {"cart", "seen"}
  <2>1. page[b] \in Pages /\ DOMAIN page = Browsers
    BY DEF PageInv
  <2>2. page[b] # "seen"
    BY <2>1 DEF Pages
  <2>3. page' = page \/ page' = [page EXCEPT ![b] = IF @ = "cart" THEN "seen" ELSE "none"]
    BY DEF Go
  <2> QED
    BY <2>1, <2>2, <2>3
<1>4. ASSUME NEW d \in Browsers PROVE Summed(d)'
  <2>1. CASE d = b /\ page[b] = "cart"
    BY <2>1
  <2>2. CASE d = b /\ page[b] # "cart"
    BY <1>3, <2>2 DEF Summed
  <2>3. CASE d # b
    <3>1. req'[d] = req[d]
      BY <1>1, <2>3 DEF PriceInv
    <3>2. Summed(d)
      BY DEF TotalsInv
    <3> QED
      BY <1>1, <1>2, <2>3, <3>1, <3>2, SummedKept
  <2> QED
    BY <2>1, <2>2, <2>3
<1> QED
  BY <1>2, <1>4 DEF TotalsInv

\* A cart page that goes on with its next RPC.
LEMMA CartPageStep ==
  ASSUME PageInv, PriceInv, TotalsInv, NEW b \in Browsers, page[b] = "cart", NEW r, Returns(b, r),
         Go(b, Then(b))
  PROVE  /\ Len(todo[b]) \in Nat \ {0} /\ todo'[b] = Then(b) /\ Len(Then(b)) = Len(todo[b]) - 1
         /\ Now(b) = r /\ <<r, At(Then(b), 1)>> \in Flow("cart") /\ Now(b)' = At(Then(b), 1)
         /\ At(Then(b), 1) = "end" <=> Len(todo[b]) = 1
         /\ Then(b) = << >> <=> Len(todo[b]) = 1
         /\ page'[b] = IF Len(todo[b]) = 1 THEN "seen" ELSE "cart"
         /\ Now(b)' = "convert" => req'[b] \in during'[b]
         /\ currency' \in during'[b] /\ during' = during /\ Summed(b)
<1>1. PICK u : u = Then(b)
  OBVIOUS
<1>2. PICK l : l = Len(todo[b])
  OBVIOUS
<1>3. /\ todo[b] # << >> /\ Chain("cart", todo[b]) /\ Now(b) = r /\ u \in Seq(Rpcs) /\ u = Tail(todo[b])
      /\ <<r, At(u, 1)>> \in Flow("cart")
  BY <1>1, ReturnsFacts
<1>4. l \in Nat \ {0} /\ Len(u) = l - 1
  BY <1>2, <1>3, ChainTail
<1>5. u = << >> <=> l = 1
  <2>1. u \in Seq(Rpcs)
    BY <1>3
  <2>2. u = << >> <=> Len(u) = 0
    BY <2>1, EmptySeq
  <2> QED
    BY <1>4, <2>2
<1>6. At(u, 1) = "end" <=> l = 1
  <2>1. CASE l = 1
    BY <1>4, <2>1 DEF At
  <2>2. CASE l # 1
    <3>1. 1 \in 1 .. Len(u)
      BY <1>4, <2>2
    <3>2. u[1] \in Rpcs
      BY <1>3, <3>1, ElementOfSeq
    <3> QED
      BY <2>2, <3>1, <3>2 DEF At, Rpcs
  <2> QED
    BY <2>1, <2>2
<1>7. /\ todo'[b] = u
      /\ req' = [req EXCEPT ![b] = IF At(u, 1) \in {"convert", "order"} THEN currency ELSE NoCurrency]
      /\ currency' = currency
  BY <1>1, <1>3, GoFacts
<1>8. during' = during /\ DOMAIN page = Browsers /\ DOMAIN req = Browsers
  BY DEF Go, PageInv, PriceInv
<1>9. page'[b] = IF l = 1 THEN "seen" ELSE "cart"
  BY <1>1, <1>5, <1>8 DEF Go
<1>10. Summed(b) /\ currency \in during[b]
  BY DEF TotalsInv, Summed
<1>11. Now(b)' = At(u, 1) /\ (At(u, 1) = "convert" => req'[b] \in during'[b])
  BY <1>7, <1>8, <1>10 DEF Now
<1> QED
  BY <1>1, <1>2, <1>3, <1>4, <1>5, <1>6, <1>7, <1>8, <1>9, <1>10, <1>11

\* A cart that a page has seen.
LEMMA CartSeen ==
  ASSUME ShopInv, NEW b \in Browsers
  PROVE  /\ Len(cart[b]) \in {0, 1} /\ (cart[b] = << >> <=> Len(cart[b]) = 0)
         /\ cart[b] # << >> => DOMAIN cart[b] = {1} /\ cart[b][1].quantity \in Nat
<1>1. CASE cart[b] = << >>
  BY <1>1, EmptySeq
<1>2. CASE cart[b] # << >>
  <2>1. store[USER_ID] # NoCart /\ cart[b] = GetCart(USER_ID)
    BY <1>2 DEF ShopInv, SeenInv
  <2>2. Len(cart[b]) = 1
    BY <2>1, OneItemCart
  <2>3. cart[b] = [k \in 1 .. store[USER_ID].num_items |-> store[USER_ID].items[k - 1]]
    BY <2>1 DEF GetCart
  <2>4. store[USER_ID].num_items = 1
    <3>1. PICK x : store[USER_ID] = NewCart(x.product, x.quantity)
      BY <2>1, OneItemCart
    <3> QED
      BY <3>1 DEF NewCart
  <2>5. DOMAIN cart[b] = 1 .. 1
    BY <2>3, <2>4
  <2>6. cart[b][1].quantity \in Nat
    <3>1. store[USER_ID] \in Cart /\ 0 \in Index
      BY <2>1, FrontendAssumption, CartAssumption DEF ShopInv, StoreInv, Index
    <3>2. cart[b][1] = store[USER_ID].items[0] /\ store[USER_ID].items[0] \in Item
      BY <2>1, <3>1, OneItemCart DEF Cart
    <3> QED
      BY <3>2 DEF Item
  <2> QED
    BY <1>2, <2>2, <2>5, <2>6
<1> QED
  BY <1>1, <1>2

\* Responses that leave the amounts alone.
LEMMA TotalsQuiet ==
  ASSUME ShopInv, RestInv, TotalsInv, NEW b \in Browsers, NEW r, Returns(b, r), Go(b, Then(b)),
         page[b] = "cart" => r \in {"currencies", "recommend", "list"},
         UNCHANGED <<cart, price, shipping, total>>
  PROVE  TotalsInv'
<1>1. PageInv /\ PriceInv /\ todo[b] # << >> /\ Then(b) \in Seq(Rpcs)
  BY ReturnsFacts DEF RestInv
<1>2. ASSUME page[b] = "cart" PROVE Summed(b)'
  <2>1. PICK n \in {0, 1} : n = Len(cart[b])
    BY CartSeen
  <2>2. PICK l \in Nat \ {0} : l = Len(todo[b])
    BY <1>1, <1>2, CartPageStep
  <2>3. PICK x : x = At(Then(b), 1)
    OBVIOUS
  <2>4. /\ todo'[b] = Then(b) /\ Len(Then(b)) = l - 1 /\ Now(b) = r /\ <<r, x>> \in Flow("cart")
        /\ Now(b)' = x /\ (x = "end" <=> l = 1) /\ (Then(b) = << >> <=> l = 1)
        /\ page'[b] = IF l = 1 THEN "seen" ELSE "cart"
        /\ Now(b)' = "convert" => req'[b] \in during'[b]
        /\ currency' \in during'[b] /\ during' = during /\ Summed(b)
    BY <1>1, <1>2, <2>2, <2>3, CartPageStep
  <2>5. /\ r = "currencies" => x \in {"cart", "end"}
        /\ r = "recommend" => x = "list"
        /\ r = "list" => x = "quote"
    BY <2>4 DEF Flow
  <2>6. \/ r = "currencies" /\ l = 6
        \/ r = "recommend" /\ l = 4 + 2 * n
        \/ r = "list" /\ l = 3 + 2 * n
    BY <1>2, <2>1, <2>2, <2>4 DEF Summed, Placed
  <2>7. l # 1
    BY <2>6
  <2>8. \/ x = "cart" /\ l - 1 = 5
        \/ x = "list" /\ l - 1 = 3 + 2 * n
        \/ x = "quote" /\ l - 1 = 2 + 2 * n
    <3>1. r = "currencies" /\ l = 6 => x = "cart" /\ l - 1 = 5
      BY <2>4, <2>5, <2>7
    <3>2. r = "recommend" /\ l = 4 + 2 * n => x = "list" /\ l - 1 = 3 + 2 * n
      BY <2>5
    <3>3. r = "list" /\ l = 3 + 2 * n => x = "quote" /\ l - 1 = 2 + 2 * n
      BY <2>5
    <3> QED
      BY <2>6, <3>1, <3>2, <3>3
  <2>9. Placed(b)' /\ ~Shipped(b)'
    BY <2>1, <2>4, <2>8 DEF Placed, Shipped
  <2> QED
    BY <1>2, <2>4, <2>7, <2>8, <2>9 DEF Summed
<1> QED
  BY <1>1, <1>2, TotalsGo DEF TotalsInv

LEMMA TotalsQuote ==
  ASSUME ShopInv, RestInv, TotalsInv, NEW b \in Browsers, QuoteReply(b)
  PROVE  TotalsInv'
<1>1. /\ Returns(b, "quote") /\ Go(b, Then(b)) /\ UNCHANGED <<cart, shipping, total>>
      /\ price' = [price EXCEPT ![b] = "quote"]
  BY DEF QuoteReply
<1>2. PageInv /\ PriceInv /\ todo[b] # << >> /\ Then(b) \in Seq(Rpcs)
  BY <1>1, ReturnsFacts DEF RestInv
<1>3. price'[b] = "quote" /\ \A d \in Browsers \ {b} : price'[d] = price[d]
  BY <1>1, <1>2 DEF PriceInv
<1>4. ASSUME page[b] = "cart" PROVE Summed(b)'
  <2>1. PICK n \in {0, 1} : n = Len(cart[b])
    BY CartSeen
  <2>2. PICK l \in Nat \ {0} : l = Len(todo[b])
    BY <1>1, <1>2, <1>4, CartPageStep
  <2>3. PICK x : x = At(Then(b), 1)
    OBVIOUS
  <2>4. /\ todo'[b] = Then(b) /\ Len(Then(b)) = l - 1 /\ Now(b) = "quote" /\ <<"quote", x>> \in Flow("cart")
        /\ Now(b)' = x /\ (Then(b) = << >> <=> l = 1)
        /\ page'[b] = IF l = 1 THEN "seen" ELSE "cart"
        /\ Now(b)' = "convert" => req'[b] \in during'[b]
        /\ currency' \in during'[b] /\ during' = during /\ Summed(b)
    BY <1>1, <1>2, <1>4, <2>2, <2>3, CartPageStep
  <2>5. x = "convert"
    BY <2>4 DEF Flow
  <2>6. l = 2 + 2 * n
    BY <1>4, <2>1, <2>2, <2>4 DEF Summed, Placed
  <2>7. l # 1 /\ l - 1 = 1 + 2 * n
    BY <2>6
  <2>8. Placed(b)' /\ ~Shipped(b)'
    BY <1>1, <1>3, <2>1, <2>4, <2>5, <2>7 DEF Placed, Shipped
  <2> QED
    BY <1>1, <1>4, <2>4, <2>7, <2>8 DEF Summed
<1> QED
  BY <1>1, <1>2, <1>3, <1>4, TotalsGo DEF TotalsInv

\* The price of the item, which is not taken for the shipping cost.
LEMMA TotalsProduct ==
  ASSUME ShopInv, RestInv, TotalsInv, NEW b \in Browsers, ProductReply(b)
  PROVE  TotalsInv'
<1>1. PICK p \in GetProduct(Wanted(b)) : price' = [price EXCEPT ![b] = p]
  BY DEF ProductReply
<1>2. Returns(b, "product") /\ Go(b, Then(b)) /\ UNCHANGED <<cart, shipping, total>>
  BY DEF ProductReply
<1>3. PageInv /\ PriceInv /\ todo[b] # << >> /\ Then(b) \in Seq(Rpcs)
  BY <1>2, ReturnsFacts DEF RestInv
<1>4. p # "quote"
  <2>1. p \in Catalog \cup {NoProduct}
    BY <1>1, ServicesAssumption DEF GetProduct, products
  <2> QED
    BY <2>1, FrontendAssumption
<1>5. price'[b] # "quote" /\ \A d \in Browsers \ {b} : price'[d] = price[d]
  BY <1>1, <1>3, <1>4 DEF PriceInv
<1>6. ASSUME page[b] = "cart" PROVE Summed(b)'
  <2>1. PICK n \in {0, 1} : n = Len(cart[b])
    BY CartSeen
  <2>2. PICK l \in Nat \ {0} : l = Len(todo[b])
    BY <1>2, <1>3, <1>6, CartPageStep
  <2>3. PICK x : x = At(Then(b), 1)
    OBVIOUS
  <2>4. /\ todo'[b] = Then(b) /\ Len(Then(b)) = l - 1 /\ Now(b) = "product"
        /\ <<"product", x>> \in Flow("cart") /\ Now(b)' = x /\ (Then(b) = << >> <=> l = 1)
        /\ page'[b] = IF l = 1 THEN "seen" ELSE "cart"
        /\ Now(b)' = "convert" => req'[b] \in during'[b]
        /\ currency' \in during'[b] /\ during' = during /\ Summed(b)
    BY <1>2, <1>3, <1>6, <2>2, <2>3, CartPageStep
  <2>5. x = "convert"
    BY <2>4 DEF Flow
  <2>6. l = 2 /\ n = 1 /\ Shipped(b)
    BY <1>6, <2>1, <2>2, <2>4 DEF Summed, Placed, Shipped
  <2>7. l # 1 /\ l - 1 = 1
    BY <2>6
  <2>8. Placed(b)'
    BY <1>2, <1>5, <2>1, <2>4, <2>5, <2>6, <2>7 DEF Placed
  <2>9. \E s \in during'[b] : s \in DOMAIN Rate /\ shipping'[b] = Convert[GetQuote(cart'[b])][s]
    BY <1>2, <1>6, <2>4, <2>6 DEF Summed
  <2> QED
    BY <1>2, <1>6, <2>4, <2>7, <2>8, <2>9 DEF Summed
<1> QED
  BY <1>2, <1>3, <1>5, <1>6, TotalsGo DEF TotalsInv

\* The rest of a cart page whose cart has n items.
LEMMA LookupsLength ==
  ASSUME NEW t \in Seq(Rpcs), Len(t) = 4, NEW n \in {0, 1}
  PROVE  Len(t \o Lookups(n)) = 4 + 2 * n
<1>1. CASE n = 0
  <2>1. Lookups(n) = << >>
    BY <1>1 DEF Lookups
  <2>2. t \o Lookups(n) = t
    BY <2>1, ConcatEmptySeq
  <2> QED
    BY <1>1, <2>2
<1>2. CASE n = 1
  <2>1. PICK k \in Seq(Rpcs) : k = Lookups(n) /\ Len(k) = 2
    BY <1>2, OneLookup
  <2>2. Len(t \o k) = Len(t) + Len(k)
    BY ConcatProperties
  <2>3. 4 + 2 = 4 + 2 * n
    BY <1>2
  <2> QED
    BY <2>1, <2>2, <2>3, Zenon
<1> QED
  BY <1>1, <1>2

LEMMA TotalsCart ==
  ASSUME ShopInv, RestInv, TotalsInv, NEW b \in Browsers, CartReply(b)
  PROVE  TotalsInv'
<1>1. /\ Returns(b, "cart") /\ UNCHANGED <<price, shipping, total>>
      /\ IF page[b] = "cart"
         THEN /\ cart' = [cart EXCEPT ![b] = GetCart(USER_ID)]
              /\ Go(b, Then(b) \o Lookups(Len(GetCart(USER_ID))))
         ELSE UNCHANGED cart /\ Go(b, Then(b))
  BY DEF CartReply, Lookups
<1>2. CASE page[b] # "cart"
  <2>1. Go(b, Then(b)) /\ UNCHANGED cart
    BY <1>1, <1>2
  <2> QED
    BY <1>1, <1>2, <2>1, TotalsQuiet
<1>3. CASE page[b] = "cart"
  <2>1. PICK i : i = GetCart(USER_ID)
    OBVIOUS
  <2>2. PICK n, rest : n = Len(i) /\ rest = Then(b) \o Lookups(n)
    OBVIOUS
  <2>3. n \in {0, 1}
    <3>1. CASE store[USER_ID] = NoCart
      <4>1. i = << >>
        BY <2>1, <3>1 DEF GetCart
      <4> QED
        BY <2>1, <2>2, <4>1, OneItemCart
    <3>2. CASE store[USER_ID] # NoCart
      BY <2>1, <2>2, <3>2, OneItemCart
    <3> QED
      BY <3>1, <3>2
  <2>4. Go(b, rest) /\ cart' = [cart EXCEPT ![b] = i]
    BY <1>1, <1>3, <2>1, <2>2
  <2>5. /\ todo[b] # << >> /\ Chain("cart", todo[b]) /\ Then(b) = Tail(todo[b]) /\ Now(b) = "cart"
        /\ OneItem(todo[b]) /\ Then(b) \in Seq(Rpcs) /\ PageInv /\ PriceInv
    BY <1>1, <1>3, ReturnsFacts DEF RestInv, PageInv
  <2>6. rest \in Seq(Rpcs) /\ At(rest, 1) = "recommend"
    BY <2>2, <2>3, <2>5, LookupsChain DEF Now
  <2>7. DOMAIN cart = Browsers
    BY DEF ShopInv, SeenInv
  <2>8. cart'[b] = i /\ \A d \in Browsers \ {b} : cart'[d] = cart[d]
    BY <2>4, <2>7
  <2>9. Len(rest) = 4 + 2 * n
    <3>1. Summed(b)
      BY DEF TotalsInv
    <3>2. Len(todo[b]) = 5
      BY <1>3, <2>5, <3>1 DEF Summed, Placed
    <3>3. Len(Then(b)) = 4
      BY <2>5, <3>2, ChainTail
    <3> QED
      BY <2>2, <2>3, <2>5, <3>3, LookupsLength
  <2>10. rest # << >>
    BY <2>3, <2>9, EmptySeq
  <2>11. /\ todo'[b] = rest /\ page'[b] = "cart" /\ currency' = currency
    BY <1>3, <2>4, <2>5, <2>6, <2>10, GoFacts
  <2>12. Summed(b)'
    <3>1. Now(b)' = "recommend"
      BY <2>6, <2>11 DEF Now
    <3>2. Placed(b)' /\ ~Shipped(b)'
      BY <2>2, <2>3, <2>8, <2>9, <2>11, <3>1 DEF Placed, Shipped
    <3>3. currency \in during[b] /\ total[b] = Amount(0, 0)
      BY <1>3 DEF TotalsInv, Summed
    <3>4. during' = during
      BY <2>4 DEF Go
    <3> QED
      BY <1>1, <2>10, <2>11, <3>1, <3>2, <3>3, <3>4 DEF Summed
  <2> QED
    BY <1>1, <2>4, <2>5, <2>6, <2>8, <2>12, TotalsGo DEF TotalsInv
<1> QED
  BY <1>2, <1>3

\* convertCurrency on a cart page: of the shipping cost, and then of the price of
\* the item, if there is one.  The last one completes the total.
LEMMA TotalsConvert ==
  ASSUME ShopInv, RestInv, TotalsInv, NEW b \in Browsers, ConvertReply(b)
  PROVE  TotalsInv'
<1>1. /\ Returns(b, "convert") /\ Convertible(b) /\ Go(b, Then(b)) /\ UNCHANGED cart
      /\ price' = [price EXCEPT ![b] = NoProduct]
  BY DEF ConvertReply
<1>2. PageInv /\ PriceInv /\ todo[b] # << >> /\ Then(b) \in Seq(Rpcs)
  BY <1>1, ReturnsFacts DEF RestInv
<1>3. \A d \in Browsers \ {b} : price'[d] = price[d]
  BY <1>1, <1>2 DEF PriceInv
<1>4. CASE page[b] # "cart"
  <2>1. UNCHANGED <<shipping, total>>
    BY <1>4 DEF ConvertReply
  <2> QED
    BY <1>1, <1>2, <1>3, <1>4, <2>1, TotalsGo DEF TotalsInv
<1>5. CASE page[b] = "cart"
  <2>1. PICK n \in {0, 1} : n = Len(cart[b]) /\ (cart[b] = << >> <=> n = 0)
    BY CartSeen
  <2>2. PICK l \in Nat \ {0} : l = Len(todo[b])
    BY <1>1, <1>2, <1>5, CartPageStep
  <2>3. PICK x : x = At(Then(b), 1)
    OBVIOUS
  <2>4. /\ todo'[b] = Then(b) /\ Len(Then(b)) = l - 1 /\ Now(b) = "convert"
        /\ <<"convert", x>> \in Flow("cart") /\ Now(b)' = x
        /\ x = "end" <=> l = 1
        /\ Then(b) = << >> <=> l = 1
        /\ page'[b] = IF l = 1 THEN "seen" ELSE "cart"
        /\ Now(b)' = "convert" => req'[b] \in during'[b]
        /\ currency' \in during'[b] /\ during' = during /\ Summed(b)
    BY <1>1, <1>2, <1>5, <2>2, <2>3, CartPageStep
  <2>5. x \in {"product", "end"}
    BY <2>4 DEF Flow
  <2>6. req[b] \in during[b] /\ total[b] = Amount(0, 0) /\ req[b] \in DOMAIN Rate
    BY <1>1, <1>5, <2>4 DEF Summed, Convertible, GetSupportedCurrencies
  <2>7. PICK ship : ship = IF price[b] = "quote" THEN Localized(b) ELSE shipping[b]
    OBVIOUS
  <2>8. PICK sum : sum = IF price[b] = "quote" THEN total[b]
                         ELSE MoneySum(total[b], MoneyMultiplySlow(Localized(b),
                                                    cart[b][ItemIndex(b)].quantity))
    OBVIOUS
  <2>9. /\ shipping' = [shipping EXCEPT ![b] = ship]
        /\ total' = [total EXCEPT ![b] = IF Then(b) = << >> THEN MoneySum(sum, ship) ELSE sum]
    BY <1>5, <2>7, <2>8 DEF ConvertReply
  <2>10. /\ DOMAIN shipping' = Browsers /\ shipping'[b] = ship
         /\ \A d \in Browsers \ {b} : shipping'[d] = shipping[d]
    BY <2>9 DEF TotalsInv
  <2>11. /\ DOMAIN total' = Browsers /\ total'[b] = IF l = 1 THEN MoneySum(sum, ship) ELSE sum
         /\ \A d \in Browsers \ {b} : total'[d] = total[d]
    BY <2>4, <2>9 DEF TotalsInv
  <2>12. GetQuote(cart[b]) \in UsdAmounts
    BY DEF GetQuote, UsdAmounts
  <2>13. Amount(0, 0) \in Money /\ Value(Amount(0, 0)) = 0
    BY AmountIs, MoneyAssumption
  <2>14. Summed(b)'
    <3>1. CASE price[b] = "quote"
      <4>1. l = 1 + 2 * n
        BY <1>5, <2>1, <2>2, <2>4, <3>1 DEF Summed, Placed
      <4>2. ship = Convert[GetQuote(cart[b])][req[b]] /\ sum = Amount(0, 0)
        BY <2>6, <2>7, <2>8, <3>1 DEF Localized, Usd
      <4>3. CASE n = 0
        <5>1. l = 1 /\ cart[b] = << >> /\ page'[b] = "seen"
          BY <2>1, <2>4, <4>1, <4>3
        <5>2. ship \in Money
          BY <2>6, <2>12, <4>2, ConvertIsMoney
        <5>3. Value(total'[b]) = Value(ship) + 0
          <6>1. Value(ship) \in Int
            BY <5>2, MoneyAssumption DEF Value, Money
          <6>2. Value(MoneySum(sum, ship)) = Value(sum) + Value(ship)
            BY <2>13, <4>2, <5>2, SumValue
          <6> QED
            BY <2>11, <2>13, <4>2, <5>1, <6>1, <6>2
        <5>4. ASSUME NEW cur, cur = req[b] PROVE ShownIn(b, cur, cur)'
          <6>1. cur \in DOMAIN Rate
            BY <2>6, <5>4
          <6>2. cart'[b] = << >> /\ ItemsValue(b, cur)' = 0
            BY <1>1, <5>1 DEF ItemsValue
          <6>3. Value(ship) \in Int /\ ship = Convert[GetQuote(cart'[b])][cur]
            BY <1>1, <4>2, <5>2, <5>4, ValueIsInt
          <6>4. PICK v \in Int : v = Value(ship)
            BY <6>3
          <6>5. v + 0 >= v + 0 /\ ~(v + 0 > v + 0)
            OBVIOUS
          <6> QED
            BY <5>3, <6>1, <6>2, <6>3, <6>4, <6>5 DEF ShownIn
        <5> QED
          BY <2>4, <2>6, <5>1, <5>4 DEF Summed
      <4>4. CASE n = 1
        <5>1. l = 3 /\ l # 1 /\ l - 1 = 2 /\ page'[b] = "cart" /\ Then(b) # << >>
          BY <2>4, <4>1, <4>4
        <5>2. x = "product"
          BY <2>4, <2>5, <5>1
        <5>3. Placed(b)' /\ total'[b] = Amount(0, 0)
          BY <1>1, <2>1, <2>4, <2>11, <4>2, <4>4, <5>1, <5>2 DEF Placed
        <5>4. \E s \in during'[b] : s \in DOMAIN Rate /\ shipping'[b] = Convert[GetQuote(cart'[b])][s]
          BY <1>1, <2>4, <2>6, <2>10, <4>2
        <5> QED
          BY <2>4, <5>1, <5>2, <5>3, <5>4 DEF Summed
      <4> QED
        BY <4>3, <4>4
    <3>2. CASE price[b] # "quote"
      <4>1. l = 1 /\ n = 1 /\ Shipped(b)
        BY <1>5, <2>1, <2>2, <2>4, <3>2 DEF Summed, Placed, Shipped
      <4>2. page'[b] = "seen" /\ cart[b] # << >> /\ ItemIndex(b) = 1
        <5>1. (1 + 1) \div 2 = 1
          OBVIOUS
        <5> QED
          BY <2>1, <2>2, <2>4, <4>1, <5>1 DEF ItemIndex
      <4>3. PICK was \in during[b] : was \in DOMAIN Rate /\ shipping[b] = Convert[GetQuote(cart[b])][was]
        BY <1>5, <2>4, <4>1 DEF Summed
      <4>4. ASSUME Priced(b), NEW cur, cur = req[b]
            PROVE  cur \in during'[b] /\ was \in during'[b] /\ ShownIn(b, was, cur)'
        <5>1. req[b] = cur /\ cur \in DOMAIN Rate /\ cur \in during'[b] /\ was \in during'[b]
          BY <2>4, <2>6, <4>3, <4>4
        <5>2. PICK p \in Catalog : p = cart[b][1].product
          BY <4>2, <4>4 DEF Priced
        <5>3. PICK q \in Nat : q = cart[b][1].quantity
          BY <4>2, CartSeen
        <5>4. price[b] = p
          <6>1. price[b] \in GetProduct(cart[b][1].product)
            BY <1>2, <1>5, <2>4, <3>2 DEF PriceInv
          <6>2. DOMAIN PriceUsd = Catalog
            BY ServicesAssumption
          <6> QED
            BY <5>2, <6>1, <6>2 DEF GetProduct, products
        <5>5. PICK a : a = Convert[PriceUsd[p]][cur]
          OBVIOUS
        <5>6. Localized(b) = a
          BY <3>2, <5>1, <5>4, <5>5 DEF Localized, Usd, products
        <5>7. a \in Money /\ ship \in Money /\ ship = Convert[GetQuote(cart[b])][was] /\ Value(a) \in Nat
          <6>1. PriceUsd[p] \in UsdAmounts
            BY DEF UsdAmounts
          <6>2. PICK u \in Nat, k \in Nat : PriceUsd[p] = Amount(u, k)
            <7>1. PriceUsd[p] \in Money /\ PriceUsd[p].units >= 0 /\ PriceUsd[p].nanos >= 0
              BY ServicesAssumption
            <7> QED
              BY <7>1 DEF Money, Amount
          <6>3. Value(a) \in Nat
            BY <5>1, <5>5, <6>1, <6>2, ConvertNotNegative
          <6> QED
            BY <2>7, <2>12, <3>2, <4>3, <5>1, <5>5, <6>1, <6>3, ConvertIsMoney
        <5>8. PICK t : t = MoneyMultiplySlow(a, q)
          OBVIOUS
        <5>9. /\ t \in Money /\ Value(t) >= q * Value(a)
              /\ Value(t) > q * Value(a) <=> q \notin {1, 2} /\ Value(a) > 0
          <6>1. a \in Money /\ Value(a) >= 0
            BY <5>7
          <6>2. \A k \in Nat : MoneyMultiplySlow(a, k) \in Money
            BY <6>1, MultiplyDoubles
          <6> QED
            BY <5>8, <6>1, <6>2, MultiplyRightUpToTwo
        <5>10. sum = MoneySum(Amount(0, 0), t)
          BY <2>6, <2>8, <3>2, <4>2, <5>3, <5>6, <5>8
        <5>11. sum \in Money /\ Value(sum) = 0 + Value(t)
          BY <2>13, <5>9, <5>10, SumValue
        <5>12. Value(MoneySum(sum, ship)) = Value(sum) + Value(ship)
          BY <5>7, <5>11, SumValue
        <5>13. Value(ship) \in Int /\ Value(t) \in Int
          BY <5>7, <5>9, ValueIsInt
        <5>14. Value(total'[b]) = Value(ship) + Value(t)
          BY <2>11, <4>1, <5>11, <5>12, <5>13
        <5>15. /\ ItemsValue(b, cur)' = q * Value(a) /\ cart'[b] # << >>
               /\ Miscounted(b, 1, cur)' <=> q \notin {1, 2} /\ Value(a) > 0
          BY <1>1, <4>2, <5>2, <5>3, <5>5 DEF ItemsValue, ItemPrice, Miscounted
        <5>16. PICK y \in Int : y = q * Value(a)
          BY <5>7
        <5>17. PICK v \in Int, r \in Int : v = Value(ship) /\ r = Value(t)
          BY <5>13
        <5>18. /\ Value(total'[b]) = v + r /\ v = Value(Convert[GetQuote(cart'[b])][was])
               /\ r >= y /\ ItemsValue(b, cur)' = y
               /\ r > y <=> Miscounted(b, 1, cur)'
          BY <1>1, <5>7, <5>9, <5>14, <5>15, <5>16, <5>17
        <5>19. (v + r >= v + y <=> r >= y) /\ (v + r > v + y <=> r > y)
          BY <5>16, <5>17
        <5> QED
          BY <4>3, <5>1, <5>15, <5>18, <5>19 DEF ShownIn
      <4>5. Priced(b)' = Priced(b)
        BY <1>1 DEF Priced
      <4> QED
        BY <4>2, <4>4, <4>5 DEF Summed
    <3> QED
      BY <3>1, <3>2
  <2> QED
    BY <1>1, <1>2, <1>3, <2>10, <2>11, <2>14, TotalsGo
<1> QED
  BY <1>4, <1>5

\* A request that starts no page.
LEMMA TotalsNoPage ==
  ASSUME RestInv, TotalsInv, NEW b \in Browsers, page' = [page EXCEPT ![b] = "none"],
         UNCHANGED <<todo, req, price, cart, shipping, total>>, DOMAIN during' = Browsers,
         \A d \in Browsers \ {b} : /\ during[d] \subseteq during'[d]
                                   /\ page[d] = "cart" /\ currency \in during[d] => currency' \in during'[d]
                                   /\ page[d] = "seen" => during'[d] = during[d]
  PROVE  TotalsInv'
<1>1. page'[b] = "none" /\ \A d \in Browsers \ {b} : page'[d] = page[d]
  BY DEF RestInv, PageInv
<1>2. Summed(b)'
  BY <1>1 DEF Summed
<1>3. ASSUME NEW d \in Browsers \ {b} PROVE Summed(d)'
  <2>1. Summed(d)
    BY DEF TotalsInv
  <2> QED
    BY <1>1, <1>3, <2>1, SummedKept
<1> QED
  BY <1>2, <1>3 DEF TotalsInv

LEMMA TotalsSetCurrency ==
  ASSUME RestInv, TotalsInv, NEW b \in Browsers, SetCurrency(b)
  PROVE  TotalsInv'
<1>1. PICK cur : /\ currency' = cur
                 /\ during' = [d \in Browsers |-> IF d = b THEN {}
                                                  ELSE IF page[d] = "cart" THEN during[d] \cup {cur}
                                                  ELSE during[d]]
  BY DEF SetCurrency
<1>2. page' = [page EXCEPT ![b] = "none"] /\ UNCHANGED <<todo, req, price, cart, shipping, total>>
  BY DEF SetCurrency, front
<1> QED
  BY <1>1, <1>2, TotalsNoPage

LEMMA TotalsReply ==
  ASSUME RestInv, TotalsInv, NEW b \in Browsers, Reply(b)
  PROVE  TotalsInv'
<1>1. PICK h \in {"malformed", "notfound", "logout"} : Arrives(b, h)
  BY DEF Reply
<1>2. page' = [page EXCEPT ![b] = "none"] /\ during' = [during EXCEPT ![b] = {}]
  BY <1>1 DEF Arrives, Pages
<1>3. UNCHANGED <<currency, todo, req, price, cart, shipping, total>>
  BY DEF Reply, front
<1>4. DOMAIN during' = Browsers /\ \A d \in Browsers \ {b} : during'[d] = during[d]
  BY <1>2 DEF TotalsInv
<1> QED
  BY <1>2, <1>3, <1>4, TotalsNoPage

LEMMA TotalsOpen ==
  ASSUME ShopInv, RestInv, TotalsInv, NEW b \in Browsers, Open(b)
  PROVE  TotalsInv'
<1>1. PICK p : /\ p \in Pages /\ Arrives(b, p) /\ Continue(b, Calls(p))
               /\ total' = [total EXCEPT ![b] = Amount(0, 0)]
  BY DEF Open
<1>2. /\ UNCHANGED <<currency, price>> /\ cart' = [cart EXCEPT ![b] = << >>]
      /\ shipping' = [shipping EXCEPT ![b] = Amount(0, 0)]
  BY DEF Open
<1>3. /\ page' = [page EXCEPT ![b] = p]
      /\ during' = [during EXCEPT ![b] = IF p = "cart" THEN {currency} ELSE {}]
      /\ todo' = [todo EXCEPT ![b] = Calls(p)]
  BY <1>1 DEF Arrives, Continue
<1>4. PICK v : req' = [req EXCEPT ![b] = v]
  BY <1>1 DEF Continue
<1>5. /\ DOMAIN page = Browsers /\ DOMAIN todo = Browsers /\ DOMAIN during = Browsers
      /\ DOMAIN total = Browsers /\ DOMAIN shipping = Browsers /\ DOMAIN req = Browsers
      /\ DOMAIN cart = Browsers
  BY DEF RestInv, PageInv, PriceInv, TotalsInv, ShopInv, SeenInv
<1>6. ASSUME NEW d \in Browsers \ {b} PROVE Summed(d)'
  <2>1. Summed(d)
    BY DEF TotalsInv
  <2>2. /\ page'[d] = page[d] /\ during'[d] = during[d] /\ todo'[d] = todo[d] /\ req'[d] = req[d]
        /\ total'[d] = total[d] /\ cart'[d] = cart[d] /\ shipping'[d] = shipping[d]
    BY <1>1, <1>2, <1>3, <1>4, <1>5, <1>6
  <2> QED
    BY <1>2, <2>1, <2>2, SummedKept
<1>7. page'[b] = p /\ todo'[b] = Calls(p)
  BY <1>3, <1>5
<1>8. CASE p # "cart"
  <2>1. p # "seen"
    BY <1>1 DEF Pages
  <2>2. Summed(b)'
    BY <1>7, <1>8, <2>1 DEF Summed
  <2> QED
    BY <1>1, <1>2, <1>3, <1>5, <1>6, <1>8, <2>2 DEF TotalsInv
<1>9. CASE p = "cart"
  <2>1. total'[b] = Amount(0, 0) /\ during'[b] = {currency}
    BY <1>1, <1>3, <1>5, <1>9
  <2>2. Calls(p) # << >> /\ At(Calls(p), 1) = "currencies"
    BY <1>1, <1>9, CallsChain
  <2>3. Len(Calls(p)) = 6
    <3>1. Calls(p) = <<"currencies", "cart", "recommend", "list", "quote", "convert">>
      BY <1>9 DEF Calls
    <3> QED
      BY <3>1
  <2>4. Now(b)' = "currencies"
    BY <1>7, <2>2 DEF Now
  <2>5. Placed(b)' /\ ~Shipped(b)'
    BY <1>7, <2>3, <2>4 DEF Placed, Shipped
  <2>6. Summed(b)'
    BY <1>2, <1>7, <1>9, <2>1, <2>2, <2>4, <2>5 DEF Summed
  <2> QED
    BY <1>1, <1>2, <1>3, <1>5, <1>6, <2>6 DEF TotalsInv
<1> QED
  BY <1>8, <1>9

LEMMA TotalsSame ==
  ASSUME TotalsInv, UNCHANGED <<currency, page, todo, req, price, cart, shipping, total, during>>
  PROVE  TotalsInv'
<1>1. ASSUME NEW b \in Browsers PROVE Summed(b)'
  <2>1. Summed(b)
    BY DEF TotalsInv
  <2> QED
    BY <2>1, SummedKept
<1> QED
  BY <1>1 DEF TotalsInv

LEMMA TotalsInit == Init => TotalsInv
BY DEF Init, TotalsInv, Summed

\* The RPCs a cart page does not make.
LEMMA NotOnCartPage ==
  ASSUME RestInv, NEW b \in Browsers, NEW r \in {"ad", "add", "empty", "purge", "order", "products"},
         Returns(b, r)
  PROVE  page[b] # "cart"
<1>1. PICK x : <<r, x>> \in Flow(page[b])
  BY ReturnsFacts DEF RestInv
<1> QED
  BY <1>1 DEF Flow

LEMMA TotalsStep == ShopInv /\ RestInv /\ TotalsInv /\ [Next]_vars => TotalsInv'
<1> SUFFICES ASSUME ShopInv, RestInv, TotalsInv, [Next]_vars PROVE TotalsInv'
  OBVIOUS
<1>1. CASE UNCHANGED vars
  BY <1>1, TotalsSame DEF vars, front
<1>2. ASSUME NEW b \in Browsers, Exit(b) PROVE TotalsInv'
  BY <1>2, TotalsSame DEF Exit, front
<1>3. ASSUME NEW b \in Browsers, Open(b) \/ Reply(b) \/ SetCurrency(b) PROVE TotalsInv'
  BY <1>3, TotalsOpen, TotalsReply, TotalsSetCurrency
<1>4. ASSUME NEW b \in Browsers, CurrenciesReply(b) PROVE TotalsInv'
  BY <1>4, TotalsQuiet DEF CurrenciesReply, front
<1>5. ASSUME NEW b \in Browsers, RecommendReply(b) PROVE TotalsInv'
  BY <1>5, TotalsQuiet DEF RecommendReply, front
<1>6. ASSUME NEW b \in Browsers, ListReply(b) PROVE TotalsInv'
  BY <1>6, TotalsQuiet DEF ListReply, front
<1>7. ASSUME NEW b \in Browsers, AdReply(b) PROVE TotalsInv'
  <2>1. Returns(b, "ad") /\ Go(b, Then(b)) /\ UNCHANGED <<cart, price, shipping, total>>
    BY <1>7, AdNeverFails DEF AdReply, front
  <2> QED
    BY <2>1, NotOnCartPage, TotalsQuiet
<1>8. ASSUME NEW b \in Browsers, AddReply(b) PROVE TotalsInv'
  BY <1>8, NotOnCartPage, TotalsQuiet DEF AddReply, front
<1>9. ASSUME NEW b \in Browsers, EmptyReply(b) PROVE TotalsInv'
  <2>1. PICK r \in {"empty", "purge"} : Returns(b, r)
    BY <1>9 DEF EmptyReply
  <2>2. Go(b, Then(b)) /\ UNCHANGED <<cart, price, shipping, total>>
    BY <1>9 DEF EmptyReply, front
  <2>3. page[b] # "cart"
    BY <2>1, NotOnCartPage
  <2> QED
    BY <2>1, <2>2, <2>3, TotalsQuiet
<1>10. ASSUME NEW b \in Browsers, OrderReply(b) PROVE TotalsInv'
  BY <1>10, NotOnCartPage, TotalsQuiet DEF OrderReply, front
<1>11. ASSUME NEW b \in Browsers, ProductsReply(b) PROVE TotalsInv'
  <2>1. PICK n, rest : n = Cardinality(ListProducts) /\ rest = [i \in 1 .. n |-> "convert"] \o <<"ad">>
    OBVIOUS
  <2>2. n \in Nat \ {0}
    <3>1. IsFiniteSet(ListProducts) /\ ListProducts # {}
      BY ServicesAssumption DEF ListProducts, products
    <3> QED
      BY <2>1, <3>1, FS_CardinalityType, FS_EmptySet
  <2>3. rest \in Seq(Rpcs)
    BY <2>1, <2>2, ConvertsChain
  <2>4. Returns(b, "products") /\ Go(b, rest) /\ UNCHANGED <<cart, price, shipping, total>>
    BY <1>11, <2>1 DEF ProductsReply, front
  <2>5. page[b] # "cart" /\ todo[b] # << >>
    BY <2>4, NotOnCartPage, ReturnsFacts DEF RestInv
  <2> QED
    BY <2>3, <2>4, <2>5, TotalsGo DEF RestInv, TotalsInv
<1>12. ASSUME NEW b \in Browsers, ProductReply(b) \/ CartReply(b) \/ QuoteReply(b) \/ ConvertReply(b)
       PROVE  TotalsInv'
  BY <1>12, TotalsProduct, TotalsCart, TotalsQuote, TotalsConvert
<1> QED
  BY <1>1, <1>2, <1>3, <1>4, <1>5, <1>6, <1>7, <1>8, <1>9, <1>10, <1>11, <1>12 DEF Next, PageStep

\* The sum over the items of a cart that has none, or one.
LEMMA CartValueIs ==
  ASSUME ShopInv, NEW b \in Browsers, NEW s, NEW cur, ItemsValue(b, cur) \in Int,
         NEW f, cart[b] # << >> => f[1] = cur
  PROVE  CartValue(b, s, f) = Value(Convert[GetQuote(cart[b])][s]) + ItemsValue(b, cur)
<1> DEFINE S == DOMAIN cart[b]
           F(i) == cart[b][i].quantity * ItemPrice(b, i, f[i])
           First(r) == CHOOSE x \in r : TRUE
           G(g) == [r \in SUBSET S |-> IF r = {} THEN 0 ELSE F(First(r)) + g[r \ {First(r)}]]
           h == CHOOSE g : g = G(g)
           w == [r \in SUBSET S |-> IF r = {} THEN 0 ELSE F(1)]
<1>1. CartValue(b, s, f) = Value(Convert[GetQuote(cart[b])][s]) + h[S]
  BY DEF CartValue, MapThenSumSet, MapThenFoldSet
<1>2. IF cart[b] = << >> THEN S = {} /\ ItemsValue(b, cur) = 0
      ELSE S = {1} /\ ItemsValue(b, cur) = F(1) /\ F(1) \in Int
  BY CartSeen DEF ItemsValue
<1> HIDE DEF S, F
<1>3. \A r \in SUBSET S : r # {} => r = {1} /\ S = {1} /\ F(1) \in Int
  BY <1>2
<1>4. First({1}) = 1
  OBVIOUS
<1>5. w = G(w)
  <2>1. ASSUME NEW r \in SUBSET S
        PROVE  w[r] = IF r = {} THEN 0 ELSE F(First(r)) + w[r \ {First(r)}]
    <3>1. CASE r = {}
      BY <3>1
    <3>2. CASE r # {}
      <4>1. r = {1} /\ F(1) \in Int /\ First(r) = 1
        BY <1>3, <1>4, <3>2
      <4>2. w[r] = F(1) /\ w[r \ {1}] = 0
        BY <4>1
      <4>3. F(1) = F(1) + 0
        BY <4>1
      <4> HIDE DEF w, First
      <4>4. F(First(r)) + w[r \ {First(r)}] = F(1) + 0
        BY <4>1, <4>2, Zenon
      <4> QED
        BY <3>2, <4>2, <4>3, <4>4
    <3> QED
      BY <3>1, <3>2
  <2> HIDE DEF First
  <2> QED
    BY <2>1
<1>6. h = G(h)
  <2> HIDE DEF w, G
  <2>1. \E g : g = G(g)
    BY <1>5
  <2> QED
    BY <2>1, Zenon
<1> HIDE DEF h
<1>7. h[{}] = 0
  BY <1>6
<1>8. S # {} => h[S] = F(1) + h[{}]
  <2> SUFFICES ASSUME S # {} PROVE h[S] = F(1) + h[{}]
    OBVIOUS
  <2>1. S = {1} /\ First(S) = 1 /\ S \ {1} = {}
    BY <1>3, <1>4
  <2>2. h[S] = F(First(S)) + h[S \ {First(S)}]
    <3> HIDE DEF First
    <3> QED
      BY <1>6
  <2> HIDE DEF First
  <2> QED
    BY <2>1, <2>2
<1>9. h[S] = ItemsValue(b, cur)
  <2> HIDE DEF G, First, w
  <2>1. CASE cart[b] = << >>
    <3>1. S = {} /\ ItemsValue(b, cur) = 0
      BY <1>2, <2>1, Zenon
    <3> QED
      BY <1>7, <3>1
  <2>2. CASE cart[b] # << >>
    <3>1. S = {1} /\ ItemsValue(b, cur) = F(1) /\ F(1) \in Int
      BY <1>2, <2>2, Zenon
    <3>2. S # {}
      BY <3>1
    <3>3. h[S] = F(1) + 0
      BY <1>7, <1>8, <3>2, Zenon
    <3>4. F(1) + 0 = F(1)
      BY <3>1
    <3> QED
      BY <3>1, <3>3, <3>4, Zenon
  <2> QED
    BY <2>1, <2>2
<1> QED
  BY <1>1, <1>9

\* However pages and changes of the currency interleave, the total of a cart page
\* (viewCartHandler) is made of amounts each of which is in a currency that was in
\* force while the page was put together, and is too high exactly when there are
\* none, or three or more, of an item.
THEOREM CartTotalsRight == Spec => []CartTotalRight
<1>1. ASSUME ShopInv, TotalsInv PROVE CartTotalRight
  <2> SUFFICES ASSUME NEW b \in Browsers, page[b] = "seen",
                      \A i \in DOMAIN cart[b] : cart[b][i].product \in Catalog
               PROVE  \E s \in during[b], f \in [DOMAIN cart[b] -> during[b]] :
                        /\ {s} \cup {f[i] : i \in DOMAIN cart[b]} \subseteq DOMAIN Rate
                        /\ Value(total[b]) >= CartValue(b, s, f)
                        /\ Value(total[b]) > CartValue(b, s, f)
                             <=> \E i \in DOMAIN cart[b] : Miscounted(b, i, f[i])
    BY DEF CartTotalRight
  <2>1. Priced(b)
    BY <1>1, CartSeen DEF Priced
  <2>2. PICK s \in during[b], cur \in during[b] : ShownIn(b, s, cur)
    BY <1>1, <2>1 DEF TotalsInv, Summed
  <2>3. PICK f \in [DOMAIN cart[b] -> during[b]] : f = [i \in DOMAIN cart[b] |-> cur]
    OBVIOUS
  <2>4. IF cart[b] = << >> THEN DOMAIN cart[b] = {} ELSE DOMAIN cart[b] = {1} /\ f[1] = cur
    BY <1>1, <2>3, CartSeen
  <2>5. CartValue(b, s, f) = Value(Convert[GetQuote(cart[b])][s]) + ItemsValue(b, cur)
    BY <1>1, <2>2, <2>4, CartValueIs DEF ShownIn
  <2>6. (\E i \in DOMAIN cart[b] : Miscounted(b, i, f[i])) <=> cart[b] # << >> /\ Miscounted(b, 1, cur)
    BY <2>4
  <2>7. {s} \cup {f[i] : i \in DOMAIN cart[b]} \subseteq DOMAIN Rate
    BY <2>2, <2>3 DEF ShownIn
  <2>8. /\ Value(total[b]) >= CartValue(b, s, f)
        /\ Value(total[b]) > CartValue(b, s, f) <=> \E i \in DOMAIN cart[b] : Miscounted(b, i, f[i])
    BY <2>2, <2>5, <2>6 DEF ShownIn
  <2> QED
    BY <2>7, <2>8
<1>2. ShopInv /\ TotalsInv => CartTotalRight
  BY <1>1
<1> QED
  BY <1>2, RestInvariant, TotalsInit, TotalsStep, PTL DEF Spec

-----------------------------------------------------------------------------
(* Progress of the pages *)

\* The RPCs a page that waits for RPC r may add to those in todo: the
\* conversions and the ad of the home page, the price of a cart's item.
More(p, r) ==
  IF p = "home" /\ r \in {"currencies", "cart", "products"} THEN Cardinality(Catalog) + 1
  ELSE IF p = "cart" /\ r \in {"currencies", "cart"} THEN 2 ELSE 0

\* How many responses the page of b still needs, at most.
ToCome(b) == Len(todo[b]) + More(page[b], Now(b))

MostToCome == Cardinality(Catalog) + 8

\* No step leaves a page where it was: it brings one page closer to its end, or
\* answers or begins one for a browser that has none, and leaves the others
\* alone, or frontend goes down.
Advances ==
  \/ status' # "run" /\ \A b \in Browsers : ToCome(b)' = ToCome(b)
  \/ \E b \in Browsers : /\ IF todo[b] = << >> THEN ToCome(b)' \in 0 .. MostToCome
                            ELSE ToCome(b)' < ToCome(b)
                         /\ \A d \in Browsers \ {b} : ToCome(d)' = ToCome(d)

BoundInv == \A b \in Browsers : ToCome(b) \in 0 .. MostToCome

LEMMA CatalogSize == Cardinality(Catalog) \in Nat /\ Cardinality(ListProducts) = Cardinality(Catalog)
BY ServicesAssumption, FS_CardinalityType DEF ListProducts, products

LEMMA MoreType ==
  ASSUME NEW p, NEW r
  PROVE  More(p, r) \in Nat /\ (r = "end" => More(p, r) = 0)
BY CatalogSize DEF More

\* On a page it becomes less.
LEMMA MoreLess ==
  ASSUME NEW p \in Pages, NEW r, NEW x, <<r, x>> \in Flow(p)
  PROVE  More(p, x) <= More(p, r)
<1>1. CASE p = "home"
  <2>1. x \in {"currencies", "cart", "products"} => r \in {"currencies", "cart", "products"}
    BY <1>1 DEF Flow
  <2> QED
    BY <1>1, <2>1, CatalogSize DEF More
<1>2. CASE p = "cart"
  <2>1. x \in {"currencies", "cart"} => r \in {"currencies", "cart"}
    BY <1>2 DEF Flow
  <2> QED
    BY <1>2, <2>1 DEF More
<1>3. CASE p \notin {"home", "cart"}
  BY <1>3 DEF More
<1> QED
  BY <1>1, <1>2, <1>3

\* A page that goes on with fewer RPCs to come.
LEMMA GoAdvances ==
  ASSUME PageInv, NEW b \in Browsers, todo[b] # << >>, NEW rest \in Seq(Rpcs), Go(b, rest),
         Len(rest) + More(page[b], At(rest, 1)) < ToCome(b)
  PROVE  Advances
<1>1. /\ todo'[b] = rest
      /\ rest # << >> => page'[b] = page[b]
      /\ \A d \in Browsers \ {b} : todo'[d] = todo[d] /\ page'[d] = page[d]
  BY GoFacts
<1>2. More(page'[b], At(rest, 1)) = More(page[b], At(rest, 1))
  <2>1. CASE rest = << >>
    <3>1. At(rest, 1) = "end"
      BY <2>1, EmptySeq DEF At
    <3> QED
      BY <3>1, MoreType
  <2>2. CASE rest # << >>
    BY <1>1, <2>2
  <2> QED
    BY <2>1, <2>2
<1>3. ToCome(b)' = Len(rest) + More(page[b], At(rest, 1))
  BY <1>1, <1>2 DEF ToCome, Now
<1>4. \A d \in Browsers \ {b} : ToCome(d)' = ToCome(d)
  BY <1>1 DEF ToCome, Now
<1> QED
  BY <1>3, <1>4 DEF Advances

\* The response to an RPC after which no other is added.
LEMMA NextAdvances ==
  ASSUME PageInv, NEW b \in Browsers, NEW r, Returns(b, r), Go(b, Then(b))
  PROVE  Advances
<1>1. /\ todo[b] # << >> /\ page[b] \in Pages /\ Chain(page[b], todo[b]) /\ Now(b) = r
      /\ Then(b) \in Seq(Rpcs) /\ Then(b) = Tail(todo[b])
      /\ <<r, At(Then(b), 1)>> \in Flow(page[b])
  BY ReturnsFacts
<1>2. Len(todo[b]) \in Nat \ {0} /\ Len(Then(b)) = Len(todo[b]) - 1
  BY <1>1, ChainTail
<1>3. More(page[b], At(Then(b), 1)) <= More(page[b], r)
  BY <1>1, MoreLess
<1>4. More(page[b], At(Then(b), 1)) \in Nat /\ More(page[b], r) \in Nat
  BY MoreType
<1>5. Len(Then(b)) + More(page[b], At(Then(b), 1)) < ToCome(b)
  BY <1>1, <1>2, <1>3, <1>4 DEF ToCome
<1>6. PICK rest \in Seq(Rpcs) : rest = Then(b)
  BY <1>1
<1> QED
  BY <1>1, <1>5, <1>6, GoAdvances

\* The home page: as many conversions as there are products, and an ad.
LEMMA ProductsAdvances ==
  ASSUME PageInv, NEW b \in Browsers, ProductsReply(b)
  PROVE  Advances
<1>1. PICK n, rest : n = Cardinality(ListProducts) /\ rest = [i \in 1 .. n |-> "convert"] \o <<"ad">>
  OBVIOUS
<1>2. n \in Nat \ {0} /\ n = Cardinality(Catalog)
  <2>1. IsFiniteSet(ListProducts) /\ ListProducts # {}
    BY ServicesAssumption DEF ListProducts, products
  <2> QED
    BY <1>1, <2>1, CatalogSize, FS_CardinalityType, FS_EmptySet
<1>3. rest \in Seq(Rpcs) /\ At(rest, 1) = "convert"
  BY <1>1, <1>2, ConvertsChain
<1>4. Len(rest) = n + 1
  <2>1. PICK c : c = [i \in 1 .. n |-> "convert"]
    OBVIOUS
  <2>2. c \in Seq(Rpcs) /\ Len(c) = n
    BY <1>2, <2>1 DEF Rpcs
  <2>3. PICK a : a = <<"ad">>
    OBVIOUS
  <2>4. a \in Seq(Rpcs) /\ Len(a) = 1
    BY <2>3 DEF Rpcs
  <2>5. Len(c \o a) = Len(c) + Len(a)
    BY <2>2, <2>4, ConcatProperties
  <2>6. rest = c \o a
    BY <1>1, <2>1, <2>3
  <2> QED
    BY <2>2, <2>4, <2>5, <2>6
<1>5. Returns(b, "products") /\ Go(b, rest)
  BY <1>1 DEF ProductsReply
<1>6. page[b] = "home" /\ Now(b) = "products" /\ todo[b] # << >> /\ Len(todo[b]) \in Nat \ {0}
  <2>1. /\ page[b] \in Pages /\ <<"products", At(Then(b), 1)>> \in Flow(page[b])
        /\ Now(b) = "products" /\ todo[b] # << >> /\ Chain(page[b], todo[b])
    BY <1>5, ReturnsFacts
  <2>2. page[b] = "home"
    BY <2>1, FlowFrom
  <2> QED
    BY <2>1, <2>2, ChainTail
<1>7. More("home", "convert") = 0 /\ More("home", "products") = n + 1
  BY <1>2 DEF More
<1>8. Len(rest) + More(page[b], At(rest, 1)) < ToCome(b)
  BY <1>2, <1>3, <1>4, <1>6, <1>7 DEF ToCome
<1> QED
  BY <1>3, <1>5, <1>6, <1>8, GoAdvances

\* The cart page: the RPCs for the one item a cart has at most.
LEMMA CartAdvances ==
  ASSUME ShopInv, PageInv, NEW b \in Browsers, CartReply(b)
  PROVE  Advances
<1>1. /\ Returns(b, "cart")
      /\ IF page[b] = "cart" THEN Go(b, Then(b) \o Lookups(Len(GetCart(USER_ID)))) ELSE Go(b, Then(b))
  BY DEF CartReply, Lookups
<1>2. CASE page[b] # "cart"
  BY <1>1, <1>2, NextAdvances
<1>3. CASE page[b] = "cart"
  <2>1. PICK n, rest : n = Len(GetCart(USER_ID)) /\ rest = Then(b) \o Lookups(n)
    OBVIOUS
  <2>2. n \in {0, 1}
    <3>1. CASE store[USER_ID] = NoCart
      <4>1. GetCart(USER_ID) = << >>
        BY <3>1 DEF GetCart
      <4> QED
        BY <2>1, <4>1, OneItemCart
    <3>2. CASE store[USER_ID] # NoCart
      BY <2>1, <3>2, OneItemCart
    <3> QED
      BY <3>1, <3>2
  <2>3. Go(b, rest)
    BY <1>1, <1>3, <2>1
  <2>4. /\ todo[b] # << >> /\ Chain("cart", todo[b]) /\ Then(b) = Tail(todo[b]) /\ Now(b) = "cart"
        /\ OneItem(todo[b]) /\ Then(b) \in Seq(Rpcs)
    BY <1>1, <1>3, ReturnsFacts DEF PageInv
  <2>5. rest \in Seq(Rpcs) /\ At(rest, 1) = "recommend"
    BY <2>1, <2>2, <2>4, LookupsChain DEF Now
  <2>6. Len(todo[b]) \in Nat \ {0} /\ Len(Then(b)) = Len(todo[b]) - 1
    BY <2>4, ChainTail
  <2>7. Len(rest) <= Len(Then(b)) + 2
    <3>1. PICK t \in Seq(Rpcs) : t = Then(b) /\ Len(t) \in Nat
      BY <2>4, <2>6
    <3>2. CASE n = 0
      <4>1. Lookups(n) = << >>
        BY <3>2 DEF Lookups
      <4>2. t \o Lookups(n) = t
        BY <4>1, ConcatEmptySeq
      <4> QED
        BY <2>1, <3>1, <4>2
    <3>3. CASE n = 1
      <4>1. PICK k \in Seq(Rpcs) : k = Lookups(n) /\ Len(k) = 2
        BY <3>3, OneLookup
      <4>2. Len(t \o k) = Len(t) + Len(k)
        BY ConcatProperties
      <4>3. rest = t \o k
        BY <2>1, <3>1, <4>1
      <4> QED
        BY <3>1, <4>1, <4>2, <4>3
    <3> QED
      BY <2>2, <3>2, <3>3
  <2>8. More("cart", "recommend") = 0 /\ More("cart", "cart") = 2
    BY DEF More
  <2>9. Len(rest) + More(page[b], At(rest, 1)) < ToCome(b)
    <3>1. Len(rest) \in Nat
      BY <2>5
    <3>2. ToCome(b) = Len(todo[b]) + 2
      BY <1>3, <2>4, <2>8 DEF ToCome
    <3> QED
      BY <1>3, <2>5, <2>6, <2>7, <2>8, <3>1, <3>2
  <2> QED
    BY <2>3, <2>4, <2>5, <2>9, GoAdvances
<1> QED
  BY <1>2, <1>3

\* What a page needs when it is begun.
LEMMA CallsToCome ==
  ASSUME NEW p \in Pages
  PROVE  Len(Calls(p)) + More(p, At(Calls(p), 1)) \in 0 .. MostToCome
<1>1. PICK n \in Nat : n = Cardinality(Catalog)
  BY CatalogSize
<1>2. PICK c : c = Calls(p)
  OBVIOUS
<1>3. p = "home" => Len(c) = 3
  BY <1>2 DEF Calls
<1>4. p = "cart" => Len(c) = 6
  BY <1>2 DEF Calls
<1>5. p \notin {"home", "cart"} => Len(c) \in 0 .. 7
  BY <1>2 DEF Calls, Pages
<1>6. \A r : /\ p = "home" => More(p, r) \in {0, n + 1}
             /\ p = "cart" => More(p, r) \in {0, 2}
             /\ p \notin {"home", "cart"} => More(p, r) = 0
  BY <1>1 DEF More
<1>7. PICK a : a = More(p, At(c, 1))
  OBVIOUS
<1>8. Len(c) + a \in 0 .. n + 8
  <2>1. PICK l : l = Len(c)
    OBVIOUS
  <2>2. CASE p = "home"
    <3>1. l = 3 /\ a \in {0, n + 1}
      BY <1>3, <1>6, <1>7, <2>1, <2>2
    <3> QED
      BY <2>1, <3>1
  <2>3. CASE p = "cart"
    <3>1. l = 6 /\ a \in {0, 2}
      BY <1>4, <1>6, <1>7, <2>1, <2>3
    <3> QED
      BY <2>1, <3>1
  <2>4. CASE p \notin {"home", "cart"}
    <3>1. l \in 0 .. 7 /\ a = 0
      BY <1>5, <1>6, <1>7, <2>1, <2>4
    <3>2. \A k \in 0 .. 7 : k + 0 \in 0 .. n + 8
      OBVIOUS
    <3>3. l + a \in 0 .. n + 8
      BY <3>1, <3>2
    <3> QED
      BY <2>1, <3>3
  <2> QED
    BY <2>2, <2>3, <2>4
<1> QED
  BY <1>1, <1>2, <1>7, <1>8 DEF MostToCome

\* A request, which begins a page or is answered at once.
LEMMA OpenAdvances ==
  ASSUME PageInv, NEW b \in Browsers, Open(b)
  PROVE  Advances
<1>1. PICK p : p \in Pages /\ Arrives(b, p) /\ Continue(b, Calls(p))
  BY DEF Open
<1>2. PICK rest : rest = Calls(p)
  OBVIOUS
<1>3. todo[b] = << >> /\ page' = [page EXCEPT ![b] = p] /\ todo' = [todo EXCEPT ![b] = rest]
  BY <1>1, <1>2 DEF Arrives, Continue
<1>4. /\ page'[b] = p /\ todo'[b] = rest
      /\ \A d \in Browsers \ {b} : page'[d] = page[d] /\ todo'[d] = todo[d]
  BY <1>3 DEF PageInv
<1>5. ToCome(b)' = Len(rest) + More(p, At(rest, 1))
  BY <1>4 DEF ToCome, Now
<1>6. \A d \in Browsers \ {b} : ToCome(d)' = ToCome(d)
  BY <1>4 DEF ToCome, Now
<1>7. ToCome(b)' \in 0 .. MostToCome
  BY <1>1, <1>2, <1>5, CallsToCome
<1> QED
  BY <1>3, <1>6, <1>7 DEF Advances

LEMMA NothingToCome ==
  ASSUME NEW b \in Browsers, todo[b] = << >>
  PROVE  ToCome(b) = 0
<1>1. At(todo[b], 1) = "end" /\ Len(todo[b]) = 0
  BY EmptySeq DEF At
<1> QED
  BY <1>1, MoreType DEF ToCome, Now

LEMMA NoPageAdvances ==
  ASSUME PageInv, NEW b \in Browsers, todo[b] = << >>, page' = [page EXCEPT ![b] = "none"],
         UNCHANGED todo
  PROVE  Advances
<1>1. At(todo[b], 1) = "end" /\ Len(todo[b]) = 0
  BY EmptySeq DEF At
<1>2. ToCome(b)' = 0
  BY <1>1, MoreType DEF ToCome, Now
<1>3. \A d \in Browsers \ {b} : ToCome(d)' = ToCome(d)
  BY DEF ToCome, Now, PageInv
<1>4. 0 \in 0 .. MostToCome
  BY CatalogSize DEF MostToCome
<1> QED
  BY <1>2, <1>3, <1>4 DEF Advances

LEMMA StepAdvances ==
  ASSUME ShopInv, RestInv, Next
  PROVE  Advances
<1>1. PageInv
  BY DEF RestInv
<1>2. ASSUME NEW b \in Browsers, Exit(b) PROVE Advances
  BY <1>2 DEF Exit, Advances, ToCome, Now
<1>3. ASSUME NEW b \in Browsers, Open(b) PROVE Advances
  BY <1>1, <1>3, OpenAdvances
<1>4. ASSUME NEW b \in Browsers, Reply(b) PROVE Advances
  <2>1. PICK h \in {"malformed", "notfound", "logout"} : Arrives(b, h)
    BY <1>4 DEF Reply
  <2>2. h \notin Pages
    BY DEF Pages
  <2>3. todo[b] = << >> /\ page' = [page EXCEPT ![b] = "none"] /\ UNCHANGED todo
    BY <1>4, <2>1, <2>2 DEF Reply, Arrives
  <2> QED
    BY <1>1, <2>3, NoPageAdvances
<1>5. ASSUME NEW b \in Browsers, SetCurrency(b) PROVE Advances
  BY <1>1, <1>5, NoPageAdvances DEF SetCurrency
<1>6. ASSUME NEW b \in Browsers, NEW r, Returns(b, r), Go(b, Then(b)) PROVE Advances
  BY <1>1, <1>6, NextAdvances
<1>7. ASSUME NEW b \in Browsers, AdReply(b) PROVE Advances
  BY <1>6, <1>7, AdNeverFails
<1>8. ASSUME NEW b \in Browsers, ProductsReply(b) PROVE Advances
  BY <1>1, <1>8, ProductsAdvances
<1>9. ASSUME NEW b \in Browsers, CartReply(b) PROVE Advances
  BY <1>1, <1>9, CartAdvances
<1>10. ASSUME NEW b \in Browsers,
              CurrenciesReply(b) \/ ProductReply(b) \/ QuoteReply(b) \/ ConvertReply(b)
       PROVE  Advances
  <2>1. \E r : Returns(b, r) /\ Go(b, Then(b))
    BY <1>10 DEF CurrenciesReply, ProductReply, QuoteReply, ConvertReply
  <2> QED
    BY <1>6, <2>1
<1>11. ASSUME NEW b \in Browsers,
              RecommendReply(b) \/ ListReply(b) \/ AddReply(b) \/ EmptyReply(b) \/ OrderReply(b)
       PROVE  Advances
  <2>1. \E r : Returns(b, r) /\ Go(b, Then(b))
    BY <1>11 DEF RecommendReply, ListReply, AddReply, EmptyReply, OrderReply
  <2> QED
    BY <1>6, <2>1
<1> QED
  BY <1>2, <1>3, <1>4, <1>5, <1>7, <1>8, <1>9, <1>10, <1>11 DEF Next, PageStep

LEMMA BoundInvInit == Init => BoundInv
<1> SUFFICES ASSUME Init, NEW b \in Browsers PROVE ToCome(b) \in 0 .. MostToCome
  BY DEF BoundInv
<1>1. todo[b] = << >>
  BY DEF Init
<1>2. 0 \in 0 .. MostToCome
  BY CatalogSize DEF MostToCome
<1> QED
  BY <1>1, <1>2, NothingToCome

\* What a page still needs stays a number, however little.
LEMMA BoundInvNext ==
  ASSUME BoundInv, PageInv', Advances
  PROVE  BoundInv'
<1>1. MostToCome \in Nat
  BY CatalogSize DEF MostToCome
<1>2. ASSUME NEW b \in Browsers PROVE ToCome(b)' \in Nat
  <2>1. todo'[b] \in Seq(Rpcs)
    BY DEF PageInv
  <2>2. Len(todo'[b]) \in Nat /\ More(page'[b], At(todo'[b], 1)) \in Nat
    BY <2>1, MoreType
  <2> QED
    BY <2>2 DEF ToCome, Now
<1>3. ASSUME NEW b \in Browsers PROVE ToCome(b)' \in 0 .. MostToCome
  <2>1. PICK x, y : x = ToCome(b) /\ y = ToCome(b)'
    OBVIOUS
  <2>2. x \in 0 .. MostToCome /\ y \in Nat
    BY <1>2, <2>1 DEF BoundInv
  <2>3. y = x \/ y < x \/ y \in 0 .. MostToCome
    BY <2>1 DEF Advances
  <2> QED
    BY <1>1, <2>1, <2>2, <2>3
<1> QED
  BY <1>3 DEF BoundInv

\* No page can go round in circles: whatever the cart and the other browsers'
\* pages do, every step of a page brings it closer to its answer, of which it is
\* never farther than MostToCome responses, and leaves the other pages where
\* they are.
THEOREM PagesAdvance == Spec => [](\A b \in Browsers : ToCome(b) \in 0 .. MostToCome) /\ [][Advances]_vars
<1>1. ShopInv /\ RestInv /\ [Next]_vars => [Advances]_vars
  BY StepAdvances
<1>2. ASSUME BoundInv, ShopInv, RestInv, RestInv', [Next]_vars PROVE BoundInv'
  <2>1. CASE UNCHANGED vars
    <3>1. UNCHANGED <<todo, page>>
      BY <2>1 DEF vars
    <3>2. \A b \in Browsers : ToCome(b)' = ToCome(b)
      BY <3>1 DEF ToCome, Now
    <3> QED
      BY <1>2, <3>2 DEF BoundInv
  <2>2. CASE Next
    BY <1>2, <2>2, StepAdvances, BoundInvNext DEF RestInv
  <2> QED
    BY <1>2, <2>1, <2>2
<1>3. BoundInv <=> \A b \in Browsers : ToCome(b) \in 0 .. MostToCome
  BY DEF BoundInv
<1> QED
  BY <1>1, <1>2, <1>3, BoundInvInit, RestInvariant, PTL DEF Spec

=============================================================================
