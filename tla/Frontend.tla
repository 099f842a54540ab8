------------------------------ MODULE Frontend ------------------------------
(***************************************************************************)
(* The frontend and, behind it, the boutique: each page is a sequence of   *)
(* RPCs made by a coroutine, and the pages of several browsers are in      *)
(* progress at once.  All browsers are one user, with one cart and one     *)
(* currency, the variable "currency".                                      *)
(*                                                                         *)
(* A step is a request from a browser, or the response to an RPC with all  *)
(* the page does up to its next RPC.  The services without state answer as *)
(* Services says, the cart service with the actions of CartStore.  Of an   *)
(* order only checkout's requests to the cart service are steps (Checkout  *)
(* models it all).                                                         *)
(***************************************************************************)
EXTENDS Services, CartStore, FiniteSetsExt

CONSTANTS
  Browsers,
  Currencies,   \* what browsers send to /setCurrency
  CAD,          \* the first currency
  NoCurrency,   \* none in the RPC that is under way
  USER_ID,
  PoolSize,     \* buffers the other services leave to frontend and recommendation
  MaxPages      \* bound: requests of a browser

ASSUME FrontendAssumption ==
  /\ IsFiniteSet(Browsers)
  /\ NoCurrency \notin Currencies \cup {CAD} /\ "quote" \notin Catalog \cup {NoProduct}
  /\ CAD \in DOMAIN Rate
  /\ Catalog \subseteq Products
  /\ USER_ID \in Users
  /\ PoolSize \in Nat

VARIABLES
  currency,  \* the global variable
  page,      \* page[b]: the page in progress, "none", or "seen" after a cart page
  todo,      \* todo[b]: the RPC under way and those that follow, << >> when answered
  asked,     \* asked[b]: number of requests
  item,      \* item[b]: the product and quantity of the request
  req,       \* req[b]: the currency in the RPC under way
  price,     \* price[b]: the product (or "quote") the page has the price of
  cart,      \* cart[b]: the items of the last cart page
  shipping,  \* shipping[b]: shipping_cost, localized
  total,     \* total[b]: total_price
  during,    \* history: the currencies in force while a cart page was put together
  pool,      \* buffers in the pool
  status     \* "run", "exit" after exit(1), "fault" after a division by zero

front == <<item, price, cart, shipping, total>>
vars == <<currency, page, todo, asked, req, front, during, pool, status, cartVars>>

Init ==
  /\ CartInit
  /\ currency = CAD
  /\ page = [b \in Browsers |-> "none"]
  /\ todo = [b \in Browsers |-> << >>]
  /\ asked = [b \in Browsers |-> 0]
  /\ item = [b \in Browsers |-> BlankItem]
  /\ req = [b \in Browsers |-> NoCurrency]
  /\ price = [b \in Browsers |-> NoProduct]
  /\ cart = [b \in Browsers |-> << >>]
  /\ shipping = [b \in Browsers |-> Amount(0, 0)]
  /\ total = [b \in Browsers |-> Amount(0, 0)]
  /\ during = [b \in Browsers |-> {}]
  /\ pool = PoolSize
  /\ status = "run"

-----------------------------------------------------------------------------
(* Requests *)

\* The page of b is at the RPCs in rest; the next request is filled in with the
\* currency of this moment.
Continue(b, rest) ==
  /\ todo' = [todo EXCEPT ![b] = rest]
  /\ req' = [req EXCEPT ![b] = IF rest # << >> /\ Head(rest) \in {"convert", "order"}
                               THEN currency ELSE NoCurrency]

Routes ==
  [GET  |-> [root |-> "home", product |-> "product", cart |-> "cart", logout |-> "logout"],
   POST |-> [cart |-> "add", empty |-> "empty", currency |-> "currency", checkout |-> "order"]]
Urls == {"root", "product", "cart", "empty", "currency", "logout", "checkout", "other"}

Route(method, url) ==
  IF url \in DOMAIN Routes[method] THEN Routes[method][url] ELSE "notfound"

\* The pages that need other services.
Pages == {"home", "product", "cart", "add", "empty", "order"}

\* The RPCs of a page.  Those for the items of a cart are added when it is known.
Calls(handler) ==
  CASE handler = "home"    -> <<"currencies", "cart", "products">>
    [] handler = "product" -> <<"product", "currencies", "cart", "convert", "recommend", "list", "ad">>
    [] handler = "cart"    -> <<"currencies", "cart", "recommend", "list", "quote", "convert">>
    [] handler = "add"     -> <<"product", "add">>
    [] handler = "empty"   -> <<"empty">>
    [] handler = "order"   -> <<"order", "purge", "recommend", "list", "currencies">>

Arrives(b, handler) ==
  /\ status = "run"
  /\ todo[b] = << >> /\ asked[b] < MaxPages
  /\ asked' = [asked EXCEPT ![b] = @ + 1]
  /\ page' = [page EXCEPT ![b] = IF handler \in Pages THEN handler ELSE "none"]
  /\ during' = [during EXCEPT ![b] = IF handler = "cart" THEN {currency} ELSE {}]

\* The first RPC of a page, which has variables of its own, is made.
Open(b) ==
  /\ \E method \in {"GET", "POST"}, url \in Urls :
       LET handler == Route(method, url)
       IN /\ handler \in Pages
          /\ Arrives(b, handler)
          /\ Continue(b, Calls(handler))
          /\ \E p \in IF handler \in {"product", "add"} THEN Products ELSE {Blank},
                q \in IF handler = "add" THEN Quantities ELSE {0} :
               item' = [item EXCEPT ![b] = [product |-> p, quantity |-> q]]
  /\ cart' = [cart EXCEPT ![b] = << >>]
  /\ shipping' = [shipping EXCEPT ![b] = Amount(0, 0)]
  /\ total' = [total EXCEPT ![b] = Amount(0, 0)]
  /\ UNCHANGED <<currency, price, pool, status, cartVars>>

\* A request answered at once: 404, 400 if it cannot be parsed, or logout.
Reply(b) ==
  /\ \E method \in {"GET", "POST"}, url \in Urls, parsed \in BOOLEAN :
       LET handler == IF parsed THEN Route(method, url) ELSE "malformed"
       IN \/ /\ handler \in {"malformed", "notfound", "logout"}
             /\ Arrives(b, handler)
          \/ \* the fields of the body are missing
             /\ handler \in {"add", "currency", "order"}
             /\ Arrives(b, "malformed")
  /\ UNCHANGED <<currency, todo, req, front, pool, status, cartVars>>

\* Pages in progress see the currency change.
SetCurrency(b) ==
  /\ \E c \in Currencies :
       /\ currency' = c
       /\ status = "run"
       /\ todo[b] = << >> /\ asked[b] < MaxPages
       /\ during' = [d \in Browsers |-> IF d = b THEN {}
                                        ELSE IF page[d] = "cart" THEN during[d] \cup {c}
                                        ELSE during[d]]
  /\ asked' = [asked EXCEPT ![b] = @ + 1]
  /\ page' = [page EXCEPT ![b] = "none"]
  /\ UNCHANGED <<todo, req, front, pool, status, cartVars>>

-----------------------------------------------------------------------------
(* Responses to the RPCs *)

\* The response to the RPC the page of b waits for.
Returns(b, rpc) == status = "run" /\ todo[b] # << >> /\ Head(todo[b]) = rpc

\* The page goes on; after the last RPC it is sent to the browser.
Go(b, rest) ==
  /\ Continue(b, rest)
  /\ IF rest = << >>
     THEN page' = [page EXCEPT ![b] = IF @ = "cart" THEN "seen" ELSE "none"]
     ELSE UNCHANGED page
  /\ UNCHANGED <<currency, asked, during, status>>

Then(b) == Tail(todo[b])

\* getCurrencies, whose result no page uses.
CurrenciesReply(b) ==
  /\ Returns(b, "currencies")
  /\ Go(b, Then(b))
  /\ UNCHANGED <<front, pool, cartVars>>

\* rand() % ads->num_ads
AdReply(b) ==
  /\ Returns(b, "ad")
  /\ \E ads \in GetAds(<< >>) :
       \/ ads # << >> /\ Go(b, Then(b))
       \/ ads = << >> /\ status' = "fault"
                      /\ UNCHANGED <<currency, page, asked, during, todo, req>>
  /\ UNCHANGED <<front, pool, cartVars>>

\* getProducts: a buffer is taken, for as many conversions as there are products,
\* whose results are not used.
ProductsReply(b) ==
  /\ Returns(b, "products")
  /\ pool > 0
  /\ pool' = pool - 1
  /\ Go(b, [i \in 1 .. Cardinality(ListProducts) |-> "convert"] \o <<"ad">>)
  /\ UNCHANGED <<front, cartVars>>

\* The item of the cart whose price is looked up.
ItemIndex(b) == Len(cart[b]) - (Len(todo[b]) + 1) \div 2 + 1

Wanted(b) == IF page[b] = "cart" THEN cart[b][ItemIndex(b)].product ELSE item[b].product

ProductReply(b) ==
  /\ Returns(b, "product")
  /\ \E p \in GetProduct(Wanted(b)) : price' = [price EXCEPT ![b] = p]
  /\ Go(b, Then(b))
  /\ UNCHANGED <<item, cart, shipping, total, pool, cartVars>>

\* getCart, whose items only the cart page uses.
CartReply(b) ==
  /\ Returns(b, "cart")
  /\ IF page[b] = "cart"
     THEN /\ cart' = [cart EXCEPT ![b] = GetCart(USER_ID)]
          /\ Go(b, Then(b) \o [i \in 1 .. 2 * Len(GetCart(USER_ID)) |->
                                 IF i % 2 = 1 THEN "product" ELSE "convert"])
     ELSE /\ UNCHANGED cart
          /\ Go(b, Then(b))
  /\ UNCHANGED <<item, price, shipping, total, pool, cartVars>>

QuoteReply(b) ==
  /\ Returns(b, "quote")
  /\ price' = [price EXCEPT ![b] = "quote"]
  /\ Go(b, Then(b))
  /\ UNCHANGED <<item, cart, shipping, total, pool, cartVars>>

Usd(b) == IF price[b] = "quote" THEN GetQuote(cart[b]) ELSE products[price[b]]

\* The currency service exits when it does not know one of the currencies.
Convertible(b) == /\ page[b] # "home" => price[b] # NoProduct
                  /\ req[b] \in GetSupportedCurrencies

\* convertCurrency.  On the cart page it is the shipping cost that is converted
\* first, and added last; the home page puts its buffer back after the last one.
Localized_First(b) == Convert[Usd(b)][CAD]
Localized(b) == Convert[Usd(b)][req[b]]

ConvertReply(b) ==
  /\ Returns(b, "convert")
  /\ Convertible(b)
  /\ Go(b, Then(b))
  /\ IF page[b] = "cart"
     THEN \E ship \in {IF price[b] = "quote" THEN Localized(b) ELSE shipping[b]},
             sum \in {IF price[b] = "quote" THEN total[b]
                      ELSE MoneySum(total[b], MoneyMultiplySlow(Localized(b),
                                                cart[b][ItemIndex(b)].quantity))} :
            /\ shipping' = [shipping EXCEPT ![b] = ship]
            /\ total' = [total EXCEPT ![b] = IF Then(b) = << >> THEN MoneySum(sum, ship) ELSE sum]
     ELSE UNCHANGED <<shipping, total>>
  /\ pool' = IF Then(b) = <<"ad">> THEN pool + 1 ELSE pool
  /\ price' = [price EXCEPT ![b] = NoProduct]
  /\ UNCHANGED <<item, cart, cartVars>>

\* getRecommendations: the recommendation service takes a buffer to ask the
\* catalog, and puts it back; after an order, frontend puts back its own too.
RecommendReply(b) ==
  /\ Returns(b, "recommend")
  /\ pool > 0
  /\ pool' = pool - 1
  /\ Go(b, Then(b))
  /\ UNCHANGED <<front, cartVars>>

Recommended_KeepsOwn(b) == 1
Recommended(b) == IF page[b] = "order" THEN 2 ELSE 1

ListReply(b) ==
  /\ Returns(b, "list")
  /\ ListRecommendations(<< >>) # {}
  /\ pool' = pool + Recommended(b)
  /\ Go(b, Then(b))
  /\ UNCHANGED <<front, cartVars>>

\* insertCart
AddReply(b) ==
  /\ Returns(b, "add")
  /\ AddItem(USER_ID, item[b].product, item[b].quantity)
  /\ Go(b, Then(b))
  /\ UNCHANGED <<front, pool>>

\* emptyCart, and checkout's emptyUserCart, after which frontend takes a buffer.
EmptyReply(b) ==
  /\ \/ Returns(b, "empty") /\ UNCHANGED pool
     \/ Returns(b, "purge") /\ pool > 0 /\ pool' = pool - 1
  /\ EmptyCart(USER_ID)
  /\ Go(b, Then(b))
  /\ UNCHANGED front

\* Checkout's getUserCart, and the conversions and the shipment that follow.
OrderReply(b) ==
  /\ Returns(b, "order")
  /\ req[b] \in GetSupportedCurrencies
  /\ Go(b, Then(b))
  /\ UNCHANGED <<front, pool, cartVars>>

\* exit(1): no buffer, or a service is gone.
Unpriced_Ignored(b) == FALSE
Unpriced(b) ==
  \/ Returns(b, "convert") /\ ~Convertible(b)
  \/ Returns(b, "order") /\ req[b] \notin GetSupportedCurrencies
  \/ Returns(b, "order") /\ store[USER_ID] # NoCart
       /\ \E k \in Used(store[USER_ID]) : store[USER_ID].items[k].product \notin Catalog

NoBuffer(b) == pool = 0 /\ (Returns(b, "products") \/ Returns(b, "recommend") \/ Returns(b, "purge"))

Exit(b) ==
  /\ status = "run"
  /\ Unpriced(b) \/ NoBuffer(b)
  /\ status' = "exit"
  /\ UNCHANGED <<currency, page, todo, asked, req, front, during, pool, cartVars>>

PageStep(b) ==
  \/ CurrenciesReply(b) \/ AdReply(b) \/ ProductsReply(b) \/ ProductReply(b)
  \/ CartReply(b) \/ QuoteReply(b) \/ ConvertReply(b) \/ RecommendReply(b)
  \/ ListReply(b) \/ AddReply(b) \/ EmptyReply(b) \/ OrderReply(b) \/ Exit(b)

Next == \E b \in Browsers : Open(b) \/ Reply(b) \/ SetCurrency(b) \/ PageStep(b)

\* Every service answers, and the runtime resumes the page (ServiceAsync).
\* Nobody need send a request.
Spec == Init /\ [][Next]_vars /\ \A b \in Browsers : WF_vars(PageStep(b))

-----------------------------------------------------------------------------
(* Properties *)

InProgress == {b \in Browsers : todo[b] # << >>}

TypeOK ==
  /\ CartTypeOK
  /\ currency \in Currencies \cup {CAD}
  /\ cart \in [Browsers -> Seq(Item)]
  /\ shipping \in [Browsers -> Money] /\ total \in [Browsers -> Money]
  /\ pool \in 0 .. PoolSize
  /\ status \in {"run", "exit", "fault"}

\* The price of the i-th item of b's cart in currency c.
ItemPrice(b, i, c) == Value(Convert[PriceUsd[cart[b][i].product]][c])

\* The total of a cart page with the shipping cost in currency s and each item in
\* the currency f gives: so many times the price of each.
CartValue(b, s, f) ==
  Value(Convert[GetQuote(cart[b])][s])
  + MapThenSumSet(LAMBDA i : cart[b][i].quantity * ItemPrice(b, i, f[i]), DOMAIN cart[b])

\* MoneyMultiplySlow, which doubles, does not count the item right.
Miscounted(b, i, c) == cart[b][i].quantity \notin {1, 2} /\ ItemPrice(b, i, c) > 0

\* However the pages of others, and their changes of the common currency,
\* interleave with a cart page of products of the catalog, each amount it adds up
\* is in a currency that was in force while it was put together (the page may mix
\* them), and the total is what these make; it is too high if, and only if, there
\* are none, or three or more, of an item.
CartTotalRight ==
  \A b \in Browsers :
    page[b] = "seen" /\ (\A i \in DOMAIN cart[b] : cart[b][i].product \in Catalog) =>
      \E s \in during[b], f \in [DOMAIN cart[b] -> during[b]] :
        /\ {s} \cup {f[i] : i \in DOMAIN cart[b]} \subseteq DOMAIN Rate
        /\ Value(total[b]) >= CartValue(b, s, f)
        /\ Value(total[b]) > CartValue(b, s, f)
             <=> \E i \in DOMAIN cart[b] : Miscounted(b, i, f[i])

\* Frontend goes down for nothing but a currency that is not supported, set by
\* any browser; a page or a cart with a product that is not in the catalog; or
\* more pages in progress than the pool has buffers for, two each.
DownNeedsCause ==
  status # "run" =>
    /\ status = "exit"
    /\ \/ \E b \in InProgress : req[b] \notin GetSupportedCurrencies \cup {NoCurrency}
       \/ \E b \in InProgress : page[b] = "product" /\ item[b].product \notin Catalog
       \/ \E x \in adds[USER_ID] : x.product \notin Catalog
       \/ PoolSize < 2 * Cardinality(InProgress)

\* Every buffer a page took, and the recommendation service for it, is back in
\* the pool when the page is answered, however the pages overlap.
BuffersReturned ==
  /\ InProgress = {} => pool = PoolSize
  /\ pool + 2 * Cardinality(InProgress) >= PoolSize

\* Every page is answered, unless frontend goes down.
EveryPageAnswered ==
  \A b \in Browsers : todo[b] # << >> ~> (todo[b] = << >> \/ status # "run")

=============================================================================
