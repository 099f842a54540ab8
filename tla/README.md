# TLA+ models of SURE

SURE runs the microservices of an application as unikernels on one host. They
talk over `unimsg` connections: a message is a descriptor of a buffer in shared
memory, and sending hands the buffer over instead of copying it. The unimsg
library itself and Unikraft are not part of the repository. What is here are
the applications, and two small runtimes on which the services of the *boutique*
application run. The models start from the runtimes, since every service depends
on them, and go on to the services, the shop they make up, the xApps of a RAN
controller, and the two benchmarks.

## Inventory

Paths are below `src/apps`; `common/` is `boutique/sure/common/`.

| Part | State | Operations | Interacts with |
|---|---|---|---|
| RPC framing, `common/service/service.h` | a pending buffer per connection | `process_desc`, `move_data`, `get_rpc_size` | called by both runtimes for every received descriptor; takes buffers from the unimsg pool and puts them back |
| Coroutine runtime, `common/service/service_async.h` | `socks[]`, `available_cos[]`, `coroutines[]`, `disable_upstream` | `run_service`, `handle_upstream` (HTTP or gRPC), `handle_downstream`, `coroutine_fn`, `do_rpc` | clients, dependencies; calls the handler of frontend or checkout |
| Synchronous runtime, `common/service/service_sync.h` | `socks[]`, `ready[]`, `pending_buffers[]` | `run_service`, `handle_socket` | clients; calls the handler of the other services |
| Money, `common/service/utilities.h` | none | `MoneySum`, `MoneyMultiplySlow` | checkout and frontend |
| Cart service | the map `LocalCartStore` | `AddItem`, `GetCart`, `EmptyCart` | checkout and frontend |
| Checkout | none but its coroutines | `PlaceOrder`: a sequence of RPCs to cart, catalog, currency, shipping, payment, email | frontend |
| Frontend | one `currency` and one user for all browsers | `handle_request`: eight pages, most of them a sequence of RPCs | browsers, over HTTP; cart, catalog, currency, shipping, recommendation, ad, checkout |
| Payment, currency, shipping, catalog, recommendation, ad, email | constant tables | one request each, no state | frontend, checkout |
| RIC xApps, `ric/sure` | counts of iterations, the connections | anomaly detection (AD) reports to traffic steering (TS), which asks QoE prediction (QP), posts to RAN control (RC) and acknowledges | each other, in a loop |
| Benchmarks, `throughput/sure`, `rr-latency/sure` | descriptors in use, `ready[]`, `socks[]` | set-up, send, receive, tear-down, of a client and of a server | the buffer pool |

What is hard here:

* **Cut streams.** A connection carries bytes, not messages. Where the peer cut
  the stream decides which of the seven paths of `process_desc` is taken, whether
  a copy is made, and who owns which buffer afterwards.
* **Interleaved calls.** A handler stops in `do_rpc` in the middle of a request.
  Meanwhile other handlers start, responses arrive in any order, clients close,
  and `accept` hands out socket objects again.
* **Back-pressure.** With no coroutine left the loop stops polling its clients; it
  must start again.
* **Slots.** Closing a connection moves the ones behind it to another index, in
  the middle of a round over the ready flags.
* **Sharing.** All browsers share one cart and one currency; pages read them
  in several RPCs.
* **Waiting in a circle.** Each xApp blocks until the next one answers, and each
  decides on its own when it has done enough iterations.
* **Limits.** Coroutines, slots, buffers, `Items[]`, nanos.

PROJECT.json lists the hazards with their lines and the property that watches
each of them.

## Modules

| Module | Models | Run with |
|---|---|---|
| `RpcStream` | what the receive path promises: RPCs come out whole, in order, once, not before they were sent | as a property of `Framing` |
| `Framing` | `process_desc` and its callers' loop, byte by byte, with the buffer pool | `MCFraming` |
| `ServiceAsync` | the coroutine runtime | `MCServiceAsync`, two configurations |
| `ServiceSync` | the synchronous runtime | `MCServiceSync`, two configurations |
| `Money`, `OrderTotal` | `MoneySum`, `MoneyMultiplySlow`; the total computed by `PlaceOrder` | `MCOrderTotal` |
| `CartStore` | the cart service | `MCCartAdd.cfg`, and as a part of `Frontend` |
| `Payment` | which cards the payment service charges | with `Checkout` |
| `Checkout` | `PlaceOrder`, several at once | `MCCheckout`, two configurations |
| `Services` | what the services without state answer | with `Frontend` |
| `Frontend` | the page handlers, several at once, over `Services` and `CartStore` | `MCFrontend` |
| `ControlLoop` | what the xApps promise together | as a property of `Ric` |
| `Ric` | the four xApps | `MCRic.cfg` |
| `ShmLink`, `Throughput`, `RrLatency` | the benchmarks, and what they share | with `Bench` |
| `Bench` | both benchmarks with all their options | `MCBench.cfg` |
| `FramingProofs`, `ServiceAsyncProofs`, `ServiceSyncProofs`, `OrderTotalProofs`, `CheckoutProofs`, `FrontendProofs`, `RicProofs`, `BenchProofs` | theorems | TLAPS |

Names ending in an underscore and a word (`Release_Never`) are slips of the
definition after them; replacing the definition by the slip makes a property fail.

### Framing

A byte is represented by its position in the stream, so a delivered message shows
which bytes it was made of and in which order. `queue` holds the received
descriptors from `descs[current]` on, `pending` is the connection's
`struct pending_buffer`, `free`, `app` and `lost` say where the other buffers are.
One action per path of `process_desc`: `KeepShort` (less than a header),
`TakeWhole`, `KeepInPlace`, `Relocate` (no room in place: to a new buffer),
`SplitOff` (more than one message in the descriptor), `Continue` (something is
pending already) and `Exit`. Each includes what its caller does with the result:
passing the message on, clearing `pending`, moving to the next descriptor.
The peer cuts the stream where it likes (`Arrive`); a handled message's buffer
leaves with its response (`Respond`).

`cuts` records the RPCs whose header was cut by a descriptor boundary. This is the
case the code does not handle: at `service.h:226` the size is looked up when *more*
than a header is pending, but no more than a header is ever copied while the size
is unknown. The properties say precisely that this, and nothing else, goes wrong
(`StuckOnlyOnCutHeader`, `NoOverrun`).

### ServiceAsync

Messages are whole. Slot 0 is the listening socket, slots `1 .. NDeps` the
dependencies, and `socks` the clients. A coroutine is idle or waits in `do_rpc` for
its `call`. A step of the event loop is one action: `Poll`, `RecvDown`, `Resume`,
`Disable` (`handle_upstream` returned 2), `CloseUp`, `RecvUp`, `Start`, `Overrun`,
`Accept`. A coroutine runs without interruption from `Start` or `Resume` to its next
yield: another RPC, or the end of the handler with the response sent (`Finish`) or
the send failing (`FailSend`). `Http` selects the variant of `handle_upstream`.
Socket objects (`Handles`) are separate from clients, since a coroutine keeps
`up_sock` across yields while the loop may close that object and `accept` may return
it again. Handlers make any sequence of at most `MaxCalls` RPCs, which includes what
frontend and checkout do. A dependency answers in any order, and one in `Faulty` may exit
(`Quit`): the service then exits when it next receives from it (`LoseDown`,
`service_async.h:81`) or sends to it (`FailRpc`, `service_async.h:389`). That is how the
currency service takes frontend and checkout with it.

Since messages are whole, a descriptor with the first part of a request is not seen to come
at the end of a bulk. With gRPC upstream that one, too, makes the service exit when there is
no coroutine left (`service_async.h:196`), although it would start none.

`Next` numbers the requests of a client up to `MaxAsked`. Under `Endless` a client that has
all its answers starts again (`AskAgain`), so that it can ask for ever in finitely many
states; `async_http` uses it, since a bound on the requests of the others would make every
wait end. Each round starts with the lowest upstream slot, and with no coroutine left the
round ends there: the comment at `service_async.h:350` ("TODO: to be fair, start receiveing
from the next socket on the next round") is right. With two clients and one coroutine TLC
finds a client that is never served while the one in front of it is, again and again. What
holds is that nothing else keeps a request waiting: `StarvedOnlyFromTheFront` has this
one exception, `Overtaken`, and a request once received is always answered
(`ReceivedAnswered`).

### ServiceSync

A request is two units, header and rest, named by connection and position. `pending`
is indexed by slot, as in the code; `Remove` moves `socks` and `ready` and not
`pending`. Both resets are there: on receiving (`RecvReset`) and on answering
(`AnswerReset`, which leaves the answered message in the slot's buffer). `mixed`
records that a slot in use changed hands with data in its buffer. `Recv` cuts what it
receives into descriptors of one or more units in every way (`home` says which buffer a unit
came in), so that all the paths of `process_desc` are taken: `Keep` leaves the first unit of
a request pending, in its buffer (`Stay`) or in a new one (`Relocate`, `service.h:189`,
whether it does depends on bytes and is open here); `Answer` handles a request that came
whole, was completed in the pending buffer, or is split off a longer descriptor into a
buffer of the pool (`service.h:203`). `NoBuffer` and `Reject` are the exits for an empty
pool and for an unknown command.
A buffer is named by the first unit it came with, or is one of the pool's. `addr` has the
pending ones, `pool` the free ones, `out` those that left with a response. `Relocate` never
puts back the buffer it emptied (`lost`), and after a failed send the whole bulk is put
back, the descriptors answered or freed before included (`spoiled`). `BuffersAccounted` says
that these are the only ways in which a buffer gets to no place, or to two.

### OrderTotal and CartStore

`OrderTotal` takes one step per `MoneySum`. Three values go along without representation:
`exact` is the price as doubled so far, `sum` the total of what was added, and `due` what the
order should cost, each price times its quantity. `TotalExact` says that units and nanos lose
nothing against the first two, whatever the quantities; `TotalRight` compares with the
third: `MoneyMultiplySlow` doubles once for each further piece, so that the total is right
for quantities of 1 and 2 and too high for any other (none is charged as one).
`NANOSMOD` is a parameter: in the code 10^9, in the runs 4.
64-bit overflow of units is not modelled (it takes prices near 2^63).
`CartStore` has one action per request that writes; `GetCart` is what the third returns.
`find_c_map` returns a copy, which is what the requests change and free (`Freed`).

### Checkout and Payment

`pc[o]` is the RPC that order `o` waits for; each action is the response to one RPC
and all that `PlaceOrder` does up to the next, with the buffers it takes and puts back
on the way. That each coroutine gets the responses to its own calls is what
`ServiceAsync` shows, so orders share only the pool, whose other users are left out:
`PoolSize` is what they leave. A price is named by its item and currency, a total by
the prices in it; the sums are `OrderTotal`'s. The other services are modelled by
their answers: the cart service returns any cart; the catalog service, asked for a
product it does not have, leaves the response as it was, so that its price is that of
another product or of none; the currency service exits for a currency it does not know
(`currencyservice/main.c:80` and `:93`), and checkout exits when it finds the
connection closed. `Payment` has the digits of a card number, since the check is about
them: `strtoll` reads up to the first character that is no digit, `Weighted` doubles every
second digit from the right.

A refused card leaves the response of `Charge` as it was, and `PlaceOrder` does not look:
the order is shipped (`RefusedNotShipped`).

### Frontend and Services

`todo[b]` is the list of RPCs the page of browser `b` still makes, the first of which is
under way; each action is the response to one of them with all the handler does up to the
next (`Continue` fills in the request with the currency of that moment). `CartReply`
puts two RPCs per item on the list, as the loop of the cart page does. `Open` is a request
whose page needs other services, `Reply` one that is answered at once, `SetCurrency` the
one that writes the shared `currency`. The cart service is `CartStore` itself, whose
actions are conjoined; an order is modelled by what checkout asks the cart service
(`OrderReply`, `EmptyReply`), since `Checkout` has the rest. `Services` defines the tables
and the answers: conversions divide units and nanos by rates given as fractions and carry
as the code does, a quote is a constant or nothing, a product that is not there leaves the
response as it was. Buffers are counted: the home page and the order page hold one across
RPCs, and the recommendation service takes one for each of its requests to the catalog.
Checkout's buffers are counted in `Checkout` and not here. `during` records the currencies
in force while a cart page was made: the page may add up amounts in several of them, and
`CartTotalRight` says what the total then is (the code puts it together,
`frontend/main.c:274-281`, and discards it: pages are not rendered). Quantities above
2 are in the run, and come out too high.

Nothing is said about the carts themselves: as the service loses all writes but the first
(`cart_add`), a cart never changes once it has an item, and what a property would state of
orders and carts is what that bug makes of them.

### Ric and ControlLoop

`pc` says where each process blocks, `net` which messages are under way, `linked` and
`closed` the connections, and `opt` the options: iterations *per process*, users in a
report, cells, and the size of the pool. A step goes from one blocking call to the next and
has the error paths of everything in between: a connection refused since the peer was not
started or is not accepting, a send to a closed peer, no buffer, a report too long for its
buffer. `RecvFails` is a receive on a connection the peer has closed. `ControlLoop` is
the promise: report, handover and acknowledgment alternate. The mapping counts reports
from where AD is.

### Bench

`ShmLink` has the options, the pool and the connections; `Throughput` and `RrLatency` the
client and the server of each benchmark; `Bench` selects one by `opt.prog`. Buffers have
names, so that a client that sends or puts back a descriptor of a buffer it no longer owns
is seen to. The time limit of `throughput` is a number of rounds. These combinations of
options do not work, and are named in the properties:

* `Oversized`: a throughput client receives as many descriptors as it sends, so of an HTTP
  answer of more buffers it leaves the rest on the connection, and ends with buffers missing.
  An answer of fewer makes it exit (`ErrorExpected`), and too small a pool either process.
* `Stale`: a client that reuses its buffers, where the server does not send them all back (a
  throughput client with a longer answer, a latency client with a shorter one), uses buffers
  that are somewhere else.
* `Unused`: the buffers a throughput client without reuse gets for its connections are never
  used nor put back.
* `Starved`: both sides of the latency benchmark wait for bytes that do not come.

## Runs

| Run | Bounds | Shows |
|---|---|---|
| `framing` | RPCs of 3, 4 and 2 bytes (the last with an unknown command), headers of 2, room for 5, 4 buffers, 2 queued descriptors | all seven paths of `process_desc`: the RPCs come out whole, once, in order; no byte is lost; buffers have one owner; the abstract `RpcStream` is implemented; every RPC is delivered unless stuck on a cut header |
| `async_http` | 1 coroutine, 1 dependency that may exit, 3 clients that ask without end, one request at a time, room for 2 of them | with clients that wait for their answers: every received request is answered, back-pressure is always released, a request waits for ever only behind clients in front of it that ask for ever; the service exits only for the dependency or a third client, and answers go to who asked |
| `async_grpc` | 2 coroutines, 3 clients and 3 socket objects, 2 requests each, bulks of 2, clients close at any time | coroutines, ids and answers are never confused; every received request is in the bulk, with one coroutine, or answered once; the service is overrun only by more unanswered requests than coroutines, and fails to send only after a client left unanswered; an answer goes to another client only when the asker is gone and that one has its socket object |
| `sync` | 3 connections, one with 2 requests, 3 slots of which one listens | each connection gets the answers to its own requests in order and every request is answered until a slot changes hands with data in it; only then is a request handled twice or garbage read as a header; each buffer is in one place, but for those relocation loses and those of a bulk put back for a failed send |
| `sync_shift` | 2 connections | **violated**: a close with nothing outstanding damages the connection behind it |
| `order_total` | prices 0 to 1 units and 0 to 3 nanos, 3 items, quantities 0, 1, 2, 4 | sums are exact and nanos stay in range, off-sign amounts included; the total is right for quantities of 1 and 2, too high with any other |
| `cart_add` | 2 users, 2 products | **violated**: the second product is not stored |
| `checkout` | 2 orders, carts of up to 2 items, one of 2 items in the catalog, 6 cards, a supported and an unsupported currency, 4 buffers | what is shipped is what was charged; every buffer comes back; exactly the good VISA and mastercard numbers are charged; every order is completed unless checkout exits, for which the pool, the currency or the catalog is the cause |
| `refused` | as above | **violated**: an order whose card was refused is shipped |
| `shop` | 2 browsers with 2 requests each, all pages, a product in the catalog and one that is not, quantities 2 and 3, 3 currencies of which one is unknown, 3 buffers | each amount in the total of a cart page is in a currency that was in force meanwhile, and the total is right but for a quantity of 3; frontend goes down only for an unknown currency or product or lack of buffers; all buffers come back; every page is answered |
| `ric` | up to 3 iterations for each process independently, 0 to 3 users (2 fit a report, 1 a prediction), 0 or 1 cells, 1 to 4 buffers, any order of starting | a process fails only for bad options, being started too late or lack of buffers; buffers are back between loops; the loop is implemented; AD never waits for ever if there are anomalies |
| `bench` | both programs, up to 2 connections, 2 rounds, messages of 1, 3 and 6 bytes in buffers of 4 (1, 1 and 2 buffers) against the same or another size, with and without HTTP and reuse, pools of 3 and 8 | no buffer has two owners, all come back and both processes end, except for the combinations of options listed under Bench |

Why the bounds are enough. In `framing`, header and body can be cut at every position, a
message can fit in place or not (a buffer's room is 5; after splitting off the 3-byte RPC the
4-byte one has only 2 left), a descriptor can hold two RPCs, and the pool can run empty. In
`async_http` one coroutine makes every second request hit the limit, a client without end is
what starvation takes, and the third connection is one more than there is room for. In
`async_grpc` a bulk of 2 meets 2, 1 or 0 free coroutines, and a third client can be given the
socket object of one that left. `sync` has one connection more than slots, so that the limit
is met, and two slots, so that a close shifts one. In `shop` each page overlaps with each
other one, both browsers can hold two buffers while there are three, and the currency can
change between any two RPCs; 2 is the largest quantity that `MoneyMultiplySlow` multiplies by
and 3 the first it does not. In `ric` each process can be the first to run out of iterations,
and four buffers are one more than a loop takes. In `bench` the second connection is the one
whose last answer lands in the descriptors of the first. The money runs have a unit small
enough that all carries and borrows happen. In `checkout` an order takes up to 3 buffers, so
with 4 the two can meet an empty pool at each of the places that take one, and also complete
together; the cards are one that is good in its last month, one that expired the month before,
a mastercard, an amex, a number with two digits exchanged and one with dashes. That the cost
of an item is the cost of *that* item takes two items in the catalog, which the run does not
have: this clause of `ShippedAsCharged` rests on its proof. The proofs below remove the bounds
for all safety properties.

`TypeOK` of a module documents its state. It holds in each of these runs, and is left out of
the configurations, which list what the run is for; those of `Framing`, `ServiceAsync`,
`ServiceSync`, `OrderTotal` and `Checkout` are theorems.

Symmetry (clients, socket objects) is used in `async_grpc` only, which checks
invariants only; no definition orders or names a client or a socket object.

Deadlock is not checked where the system may stop: the environment need not go on, the
bounds end it, and `exit(1)` does.

### Fairness

A service is one thread that blocks only in poll, receive, or the yield of a coroutine, so its
enabled next step is taken (`WF` of `run_service`, or of `process_desc`). In `ServiceAsync` a
dependency answers each request until it exits: the services do answer every request they
handle, and without it a coroutine waits for ever, since the code has no time-outs. This is
stated for the call of each coroutine, together with the connection being a queue: when the
service receives from a dependency again and again, a response that is there is received at
some time (`SF` of `RecvDown` with that response). There is no fairness among upstream
sockets, as the code has none. In `Framing` a handled message is answered at some time. In
`Checkout` each service answers and the order is resumed, by the same argument, once it was
received. In `Frontend` likewise: each RPC of a page is answered and the page resumed. In
`Ric` and `Bench` a process that was started takes its next step when that does not block;
nobody need be started. Clients and browsers are never required to do anything.

### Findings

* `sync_shift`: `service_sync.h:131` moves `socks[]` and `ready[]` and forgets
  `pending_buffers[]`.
* `cart_add`: `cartservice/main.c:76` adds the item to a copy.
* `refused`: `paymentservice/main.c:92` returns without an error for a card that, by the
  comment above it, is refused with one, and checkout ships the order.

Stated exactly in passing properties, as no text of the repository says otherwise: the loop
that does not end after a cut header and the relocation that leaks a buffer (`Framing`), the
exit for overload or when a client leaves unanswered (`ServiceAsync`), the request handled
again after a failed send (`ServiceSync`), the exit of checkout for a single order in an
unknown currency or of an unknown product (`Checkout`), and of frontend for a single
`setCurrency` or product page (`Frontend`); the total of none or more than two of an item
(`utilities.h:38`, `TotalRight` and `CartTotalRight`); the prediction request without users,
which QP does not answer (`Ric`); the descriptors of connection 0
(`throughput/sure/main.c:237`).

One more disagreement with a comment is shown by proof and not by a run. "If `units` is
positive, `nanos` must be positive or zero" (`message.h:134`), but an amount of 0 units and
some nanos takes the branch of `MoneySum` for different signs (`utilities.h:17`) and comes out
as 1 unit and negative nanos: `OffSignOccurs` has the sum, of a total of nothing and any cost
below one unit, as for an order shipped for less than that. `OffSignCharacterised` confines
such amounts to values below one unit; by `TotalExact` the value is right all the same.

## Proofs

All theorems hold for every value of the constants that the named `ASSUME`s allow.

**FramingProofs.** Assumed: an RPC is at least a header long, a stream is a sequence of
RPCs, and one fits in a fresh buffer. `DeliveredInOrder` is not inductive: that the next
message is right depends on what is pending and queued being exactly the following
bytes. `StreamInv` adds `BytesInFlight` (delivered, pending and queued bytes are the
stream up to the last byte sent), `PendingOK` (a pending message is incomplete, has its
right size unless its header was cut, and fits), and `QueueOK` (a descriptor that ends
inside a header is recorded in `cuts`). The step proof has a lemma per action, over
lemmas about the two ways `queue` changes (its head leaves, or is shortened).
Delivery, conservation, room, and the characterisation of the endless loop follow from
it, and with it each step maps to a step of `RpcStream` or a stutter
(`StreamRefinement`). `OwnerInv`, proved on top, gives `BuffersHaveOneOwner` and
`LossCharacterised`.

**ServiceAsyncProofs.** `PoolInv` joins what the stack of available coroutines holds
(`CoroutinesAccounted`), that reception is disabled only when it is empty, and which messages
are in flight (`IdIdentifiesCall`). They need each other: that a resumed coroutine is not on
the stack already follows from the id of a message in flight naming a coroutine that waits;
that a started one has no message in flight, from its being on the stack. The invariant holds
only up to `exit(1)`, which leaves a popped coroutine nowhere. `RequestInv`, on top of it, is
about the answers. A waiting coroutine remembers a socket object, and the loop may have closed
that object and accepted another client with it. What saves the answer is that the object of a
request is its client's until that client has closed, and `SockInv` and `CountInv` carry the
rest: the list holds open objects, once each, and the requests given to coroutines are the
first ones received, all but what is left of the bulk. So no two coroutines have the same
request, and one that is answered is not given out again. Nor is one dropped
(`NothingDropped`, with which `RequestsNeverDropped` has the whole of `EachAnsweredOnce`): a
request leaves the bulk only into a coroutine, and a coroutine gives it up only with its
answer. `OutageInv` adds that a bulk of the HTTP variant is one request, received only while
there is a coroutine, and that a patient client that closed has all its answers: of the four
reasons for `exit(1)`, overrun and send error are then out, and a dependency that exited and a
connection too many are left (`HttpServiceStaysUp`). The theorems are about `Spec` with any
number of requests of each client; `Endless`, which numbers them from 1 again, is for the
runs. The set of clients is assumed finite. `TypeCorrect` adds `MsgInv`, that every message to
and from a dependency is a call of a request some client has made, and `TableInv`, that the
sockets of a round, the new one included, fit the array of `UNIMSG_MAX_NSOCKS`.

**ServiceSyncProofs.** `LoopInv` says which connection the loop's index, the slots and the
rest of the bulk belong to. `MatchInv`, up to the first mixing, says what a slot's pending
buffer holds: nothing, or the first unit of the next request of the connection in *that*
slot, and that the units received are twice the answers, and that one, and the rest of the
bulk. Removing a slot without data behind it keeps this, which is the argument for
`AnswersMatchRequests` and for `DamageNeedsMixing`: the condition recorded in `mixed` is
exactly the one the proof needs. `BufInv` says that the pool, the clients, the rest of the
bulk, the pending buffers and the buffers lost are together all the buffers there are, and
disjoint but for `spoiled`, the buffers put back for a failed send; no buffer of the rest of a
bulk is ever among those. A step of the loop is then a lemma about sets that exchange one
element (`Apart`), with `HomeInv`: the units of a descriptor lie together, so that a buffer is
done with when its last unit is. `TypeCorrect` is about what is
left after that: however slots were mixed and sends failed, `UnitInv` and `TurnInv` keep a
pending buffer to one message and a handled message to two units.

**OrderTotalProofs.** `TotalInv` says that every amount is in range and off-sign only when
its value lies strictly between 0 and one unit; the main lemma, `MoneySumOK`, says that
the sum of two such amounts is one, with the exact value. Prices are assumed
non-negative and in range, as the currency service returns them. `MoneyMultiplySlow` is a
loop here: `RightInv` relates how often it still has to run (`n`), the exact amount so far and
the price, so that what is added is the quantity times the cost for 1 and 2, and more for any
other quantity of something that costs anything (`TotalsRightUpToTwo`).

**CheckoutProofs.** `BufferInv` counts: with two buffers for each order that waits for its
cart, three up to the charge and one after, the pool and the orders together have
`PoolSize`. The groups are disjoint and a step moves one order from a group to the next,
so the proof is in lemmas about the cardinalities of a set that gains or loses one
element; `BuffersReturned` follows by arithmetic. `OrderInv` says for each RPC what the
order has put together so far: costs are a prefix of the cart, item by item, and equal
to it in length from the quote on; quote, charge and shipment are of that cart.
`ShippedAsCharged` is its last part. `ExitNeedsCause` needs both.
`AcceptedCards` compares what the service does with a card, digit by digit with the weight
from `get_digit_sum`, with the checksum as the standard states it, a sum over a set of
places. Both are recursive functions, one on the length and one on the subsets. The lemmas
show that such functions exist, that their values are numbers, and that a sum over a set is
the same in any order, by induction on a number (`LeastNumber`, `SetInduction`: a set
of numbers with 0 and with the successor of each of its members has them all). `LuhnIsChecksum`
is the equality of the two sums, `ValidatorAccepts` the lengths and prefixes, and with
`ApprovedAreGood` the invariant `PaidInv` says that the answer of payment is kept to the end.
`OrdersAdvance` is the part of `EveryOrderCompleted` that needs no fairness: the number of
RPCs an order has to come (`ToCome`), at most `2 * MaxItems + 8`, becomes less with each of
its steps, and nothing another order does makes it more.

**FrontendProofs.** `Items` is assumed to hold three items at least (the code has ten). That a
cart is empty or one of the items added by its user (`FirstItemStays`, a lemma here: it is
what the lost writes of the cart service leave) is inductive with the types of `store` and
`adds`; `AddKeeps` shows it for `AddItem`. `SeenInv` adds that what a cart page showed is
still the user's cart. `PageInv` says that what a page still has to do is a path of `Flow`,
which has the pairs of RPCs that follow each other on each page; since a cart has one item at
most, the cart page looks up one price at most (`OneItem`). With that, the RPC a page waits
for determines the buffers it holds (`HoldsAt`), and `HeldInv` counts them: one token per
browser and buffer held, which together with the pool are `PoolSize`. `BuffersReturned`
follows, as the tokens are among two for each page in progress; a page that finds the pool
empty holds at most one of its two, which gives the strict inequality of `DownNeedsCause`.
`PriceInv` says that the price a page converts is that of its product, or of the only item of
the cart, so that it can be missing only if that product is not in the catalog.
`CartTotalRight` needs `TotalsInv`: where a cart page is follows from the number of RPCs it
has left (`Placed`), nothing is added up before the last conversion, and each conversion of
the page, done or under way, is to a currency that was in force during the page (`req` and
`shipping`). The last conversion adds up amounts of these. `SumValue` shows that `MoneySum`
keeps the value whichever way it carries. `MoneyMultiplySlow` is a recursive function:
`RoundsExist` and `MultiplyRounds` show that it exists and what each of its rounds does, so
that every further piece doubles the amount (`MultiplyDoubles`), and the product is right for
1 and 2 and too much for any other quantity of something that costs anything
(`MultiplyRightUpToTwo`). The sum over the cart is a recursive function on the subsets of at
most one place, which `CartValueIs` gets by exhibiting the function. `PagesAdvance` is the
part of `EveryPageAnswered` that needs no fairness: the RPCs in `todo`, with those the page
may still add to it (`More`: the conversions of the home page, the item of a cart), become
fewer with each step of the page and are at most eight more than there are products. Assumed:
finitely many browsers, prices that are not negative, a catalog that is finite and not empty,
as the tables in the code are, and no product that has the name `"quote"` of the step that
converts the shipping costs.

**RicProofs.** `TurnInv` says that at most one message is under way and that it determines
where AD and TS are and how many handovers there were: six places of the loop, and the
one where QP has dropped a request without users. It does not mention which connections
are closed: a failed process leaves the loop where it is, and what the others can still do
is right. `PoolInv` adds the buffers in use in each place. Each step maps to a step of
`ControlLoop` or a stutter (`LoopStep`). `FailureNeedsCause` needs more: with options that
fit, nobody started late and three buffers, `TurnsKept` says how far each process is ahead of
AD in each place of the loop, `PlacesKept` that a process ends when, and only when, it has
done all iterations, and `LinksKept` that only ended processes have closed a connection,
the one for a handover apart. So every receive finds its message and every send an open peer.

**BenchProofs.** Assumed: sizes of at least one byte, HTTP messages that fit in a buffer, and
a largest pool, since `Buffers` are numbered up to it. `OneOwner` looks at the pool and the
connections only and is not inductive: a client that reuses buffers sends what is in `descs`,
wherever it is by then. `Apart` therefore speaks of *lines*: the two directions of each
connection, the part of `descs[k]` that is the client's at the moment (`OwnLen`), and the
partial request of the latency server; each buffer is in at most one line or the pool, and
once. To keep it, one must know that a client that reuses gets back the buffers it sent.
`TInv` says so per connection: one on which the throughput client waits has its whole request
under way, or its whole answer, in the same buffers, or was lost with the server; every other
one is empty. `LInv` is the same for the one request of the latency client. `TInv` holds while
an answer has no more buffers than a request; with more, a client that reuses is `Stale`, and
one that does not needs only `Apart`. A client that exits leaves `Apart` alone, which is all
that is claimed then. For `AllReturned` the invariant also counts the buffers that are in no
line and not in the pool (`Stray`): none, or without reuse `ndescs` for each connection,
unless a request was lost, and then the client does not come to its end. The steps have lemmas
by what they do to the lines (`Exchange` moves descriptors between two lines, `Shrink` drops
some, `WithFree` and `GotFree` are the pool's), and a lemma per action on top. How many bytes
a sequence of descriptors has is a recursive sum, of which the proofs use nothing: they hold
whenever either side of the latency benchmark takes a message for complete.

**Only model-checked.** Liveness (`EveryRpcDelivered`, `EveryRequestAnswered`,
`ReceivedAnswered`, `StarvedOnlyFromTheFront`, `UpstreamReenabled`, `EveryOrderCompleted`,
`EveryPageAnswered`, `EveryLoopCloses`, `TestEnds`), which is beyond the prover, and the types
of `Frontend`, `Ric` and `Bench` beyond what their invariants say of them.

## Plan

Done: 1. `Framing` with its proofs; 2. `ServiceAsync` with its proofs; 3. `ServiceSync`, with
its buffers and proofs; 4. `OrderTotal` with its proofs; 5. `CartStore`; 6. `Checkout` with
`Payment` and its proofs; 7. `Services` and `Frontend`, composed with `CartStore`, with
proofs; 8. `Ric` and `ControlLoop` with the refinement and the causes of failure proved; 9.
`Bench` with its proofs.

Every safety property of the runs that hold has a theorem.

## Not modelled

The unimsg library and Unikraft (external: modelled from how the services use them). The cstl
containers, vendored, but for what `find_c_map` returns. The programs under `process` and
`unikraft`, which do the same exchanges over TCP or AF_UNIX sockets, for comparison: without
shared buffers what is left is the kernel's behaviour. The content of pages, ads and products;
random choices and tracking ids, which are any value; floating point exchange rates, which are
fractions here; the statistics of the benchmarks. The load generator, the manifests, and the
boot and remap measurements, which have no protocol. `do_rpc` of the synchronous runtime and
`SearchProducts` of the catalog, which nobody calls. The buffers checkout holds do not count
in the pool of `Frontend`: `PoolSize` is what they leave.
