----------------------------- MODULE CartStore -----------------------------
(***************************************************************************)
(* The cart service: the map LocalCartStore from users to carts and the    *)
(* three requests on it.  find_c_map returns a copy of the stored cart,    *)
(* which the requests change and free.                                     *)
(***************************************************************************)
EXTENDS Integers, Sequences

CONSTANTS
  Users, Products,
  NoCart,      \* a user who is not in the map
  Blank,       \* the product id ""
  Quantities,  \* the quantities requests add
  ItemsSize    \* the length of Cart.Items

ASSUME CartAssumption ==
  /\ Blank \notin Products
  /\ Quantities \subseteq Nat
  /\ ItemsSize \in Nat /\ ItemsSize >= 3

VARIABLES
  store,  \* LocalCartStore
  adds    \* history: the items each user added

cartVars == <<store, adds>>

Item == [product : Products \cup {Blank}, quantity : Nat]
Index == 0 .. ItemsSize - 1
Cart == [num_items : Nat, items : [Index -> Item]]
BlankItem == [product |-> Blank, quantity |-> 0]

ASSUME NoCartAssumption == NoCart \notin Cart

CartTypeOK ==
  /\ \A u \in Users : store[u] = NoCart \/ store[u] \in Cart
  /\ adds \in [Users -> SUBSET Item]

CartInit ==
  /\ store = [u \in Users |-> NoCart]
  /\ adds = [u \in Users |-> {}]

-----------------------------------------------------------------------------
(* The copy of a cart *)

NewCart(p, q) ==
  [num_items |-> 1,
   items |-> [k \in Index |-> IF k = 0 THEN [product |-> p, quantity |-> q] ELSE BlankItem]]

Used(cart) == 0 .. cart.num_items - 1

Incremented(cart, p) ==
  [cart EXCEPT !.items = [k \in Index |->
     IF k \in Used(cart) /\ cart.items[k].product = p
     THEN [product |-> p, quantity |-> cart.items[k].quantity + 1]
     ELSE cart.items[k]]]

\* The count is incremented first, and is then the index of the new item.
Added(cart, p, q) ==
  [num_items |-> cart.num_items + 1,
   items |-> [cart.items EXCEPT ![cart.num_items + 1] = [product |-> p, quantity |-> q]]]

Blanked(cart) ==
  [cart EXCEPT !.items = [k \in Index |-> IF k \in Used(cart) THEN BlankItem ELSE cart.items[k]]]

\* The map after a request changed and freed its copy of u's cart.
Freed(u, cart) == store

-----------------------------------------------------------------------------
(* The requests *)

AddItem(u, p, q) ==
  /\ IF store[u] = NoCart
     THEN store' = [store EXCEPT ![u] = NewCart(p, q)]
     ELSE store' = Freed(u, IF \E k \in Used(store[u]) : store[u].items[k].product = p
                            THEN Incremented(store[u], p) ELSE Added(store[u], p, q))
  /\ adds' = [adds EXCEPT ![u] = @ \cup {[product |-> p, quantity |-> q]}]

\* The items in the response.
GetCart(u) ==
  IF store[u] = NoCart THEN << >>
  ELSE [k \in 1 .. store[u].num_items |-> store[u].items[k - 1]]

EmptyCart(u) ==
  /\ store' = IF store[u] = NoCart THEN store ELSE Freed(u, Blanked(store[u]))
  /\ UNCHANGED adds

CartNext == \E u \in Users :
  \/ \E p \in Products, q \in Quantities : AddItem(u, p, q)
  \/ EmptyCart(u)

CartSpec == CartInit /\ [][CartNext]_cartVars

-----------------------------------------------------------------------------
(* Properties *)

\* "The item doesn't exist, we update it into DB" (cartservice/main.c:74): every
\* product a user added is in the user's cart.
AddedItemsStored ==
  \A u \in Users : \A x \in adds[u] :
    \E k \in Used(store[u]) : store[u].items[k].product = x.product

=============================================================================
