---------------------------- MODULE ServiceAsync ----------------------------
(***************************************************************************)
(* The coroutine runtime of service_async.h, on which frontend and         *)
(* checkout run: one thread, an event loop over a listening socket (slot   *)
(* 0), a connection to each dependency (slots 1 .. NDeps) and the upstream *)
(* connections (the following slots), and a pool of coroutines that run    *)
(* the request handler and yield in do_rpc until the response comes back.  *)
(*                                                                         *)
(* Messages are whole here: Framing shows how they are cut from the        *)
(* stream, and that what process_desc delivers has the size its command    *)
(* asks for, so the exits on another size (service_async.h:217-223 and     *)
(* 403-408) and on an unknown id (97-101) are not reached.  A handler is   *)
(* any sequence of at most MaxCalls RPCs.  What a client and a dependency  *)
(* do is external; a dependency in Faulty may exit at any time.            *)
(***************************************************************************)
EXTENDS Integers, Sequences, FiniteSets

CONSTANTS
  MaxCo,      \* MAX_COROUTINES
  NDeps,      \* ndependencies
  MaxSocks,   \* UNIMSG_MAX_NSOCKS
  Bulk,       \* UNIMSG_MAX_DESCS_BULK
  Http,       \* UPSTREAM_HTTP: one request per recv instead of a bulk
  Handles,    \* the struct unimsg_sock objects accept may return
  None,       \* a handle that is closed
  Clients,    \* the peers that connect upstream
  Patient,    \* clients close only when nothing they asked is outstanding
  Faulty,     \* the dependencies that may exit
  Window,     \* bound: outstanding requests of a client
  MaxAsked,   \* bound: requests of a client
  MaxCalls    \* bound: RPCs a handler makes

ASSUME AsyncAssumption ==
  /\ MaxCo \in Nat \ {0}
  /\ NDeps \in Nat
  /\ MaxSocks \in Nat \ {0} /\ NDeps < MaxSocks
  /\ Bulk \in Nat \ {0}
  /\ Http \in BOOLEAN
  /\ None \notin Clients /\ IsFiniteSet(Clients)
  /\ IsFiniteSet(Handles) /\ Cardinality(Handles) >= MaxSocks - NDeps - 1
  /\ Patient \in BOOLEAN
  /\ Faulty \subseteq 1 .. NDeps
  /\ Window \in Nat
  /\ MaxAsked \in Nat
  /\ MaxCalls \in Nat

VARIABLES
  \* the clients and the network
  link,      \* link[c]: "off", "backlog", "open", or "closed" by the client
  asked,     \* asked[c]: requests c has sent
  taken,     \* taken[c]: requests of c the service has received
  answers,   \* history: the responses sent, with the client that got them
  reqs,      \* reqs[d]: requests on their way to dependency d
  resps,     \* resps[d]: responses of dependency d not yet received
  lost,      \* the dependencies that exited: their connections are closed
  \* the service
  handle,    \* handle[h]: the client at the other end of socket object h
  socks,     \* the upstream part of socks[], slots NDeps + 1 on
  avail,     \* available_cos[0 .. n_available_cos - 1]
  disabled,  \* disable_upstream
  co,        \* coroutines[]
  \* the round of the event loop
  pc,        \* "poll" or "scan"
  ready,     \* ready[]
  npoll,     \* npoll
  slot,      \* i: the ready socket under process, npoll when done
  inbox,     \* responses received from dependency `slot', not yet processed
  burst,     \* requests received from socket `slot', not yet processed
  status     \* "run", or why the service called exit(1)

netVars == <<link, asked, taken, answers, reqs, resps, lost>>
coVars == <<avail, disabled, co>>
roundVars == <<pc, ready, npoll, slot, inbox, burst>>
vars == <<netVars, handle, socks, coVars, roundVars, status>>

Co == 0 .. MaxCo - 1
Deps == 1 .. NDeps
Slots == 0 .. MaxSocks - 1

NSocks == NDeps + 1 + Len(socks)

Request == [from : Clients, n : 1 .. MaxAsked, sock : Handles]
Call == [req : Request, dep : Deps, k : 1 .. MaxCalls]
Msg == [id : Co, call : Call]
Idle == [st |-> "idle"]
Exits == {"overrun", "send error", "dependency lost", "max connections"}

TypeOK ==
  /\ link \in [Clients -> {"off", "backlog", "open", "closed"}]
  /\ asked \in [Clients -> 0 .. MaxAsked]
  /\ taken \in [Clients -> 0 .. MaxAsked]
  /\ answers \subseteq [to : Clients, req : Request]
  /\ reqs \in [Deps -> SUBSET Msg]
  /\ resps \in [Deps -> SUBSET Msg]
  /\ lost \subseteq Deps
  /\ handle \in [Handles -> Clients \cup {None}]
  /\ socks \in Seq(Handles) /\ NSocks <= MaxSocks
  /\ avail \in Seq(Co)
  /\ disabled \in BOOLEAN
  /\ co \in [Co -> {Idle} \cup [st : {"wait"}, call : Call]]
  /\ pc \in {"poll", "scan"}
  /\ ready \in [Slots -> BOOLEAN]
  /\ npoll \in Nat
  /\ slot \in Nat
  /\ inbox \subseteq Msg
  /\ burst \in Nat
  /\ status \in {"run"} \cup Exits

Init ==
  /\ link = [c \in Clients |-> "off"]
  /\ asked = [c \in Clients |-> 0]
  /\ taken = [c \in Clients |-> 0]
  /\ answers = {}
  /\ reqs = [d \in Deps |-> {}]
  /\ resps = [d \in Deps |-> {}]
  /\ lost = {}
  /\ handle = [h \in Handles |-> None]
  /\ socks = << >>
  /\ avail = [j \in 1 .. MaxCo |-> j - 1]
  /\ disabled = FALSE
  /\ co = [c \in Co |-> Idle]
  /\ pc = "poll"
  /\ ready = [s \in Slots |-> FALSE]
  /\ npoll = 0
  /\ slot = 0
  /\ inbox = {}
  /\ burst = 0
  /\ status = "run"

-----------------------------------------------------------------------------
(* Clients and dependencies *)

Answered(c) == {a.req.n : a \in {b \in answers : b.req.from = c}}

Connect(c) ==
  /\ link[c] = "off"
  /\ link' = [link EXCEPT ![c] = "backlog"]
  /\ UNCHANGED <<asked, taken, answers, reqs, resps, lost, handle, socks, coVars, roundVars, status>>

Ask(c) ==
  /\ link[c] = "open"
  /\ asked[c] < MaxAsked
  /\ asked[c] - Cardinality(Answered(c)) < Window
  /\ asked' = [asked EXCEPT ![c] = @ + 1]
  /\ UNCHANGED <<link, taken, answers, reqs, resps, lost, handle, socks, coVars, roundVars, status>>

Close(c) ==
  /\ link[c] = "open"
  /\ Patient => Cardinality(Answered(c)) = asked[c]
  /\ link' = [link EXCEPT ![c] = "closed"]
  /\ UNCHANGED <<asked, taken, answers, reqs, resps, lost, handle, socks, coVars, roundVars, status>>

\* A dependency answers its requests in any order and echoes the id.
Serve(d, m) ==
  /\ m \in reqs[d] /\ d \notin lost
  /\ reqs' = [reqs EXCEPT ![d] = @ \ {m}]
  /\ resps' = [resps EXCEPT ![d] = @ \cup {m}]
  /\ UNCHANGED <<link, asked, taken, answers, lost, handle, socks, coVars, roundVars, status>>

\* A dependency exits, and its end of the connection is closed.
Quit(d) ==
  /\ d \in Faulty \ lost
  /\ lost' = lost \cup {d}
  /\ UNCHANGED <<link, asked, taken, answers, reqs, resps, handle, socks, coVars, roundVars, status>>

-----------------------------------------------------------------------------
(* Coroutines *)

\* do_rpc: the id of the coroutine goes into the header and the coroutine
\* yields.  av is the stack of available coroutines at that point.
DoRpc(c, req, k, av) ==
  /\ k < MaxCalls
  /\ \E d \in Deps \ lost :
       LET call == [req |-> req, dep |-> d, k |-> k + 1]
       IN /\ reqs' = [reqs EXCEPT ![d] = @ \cup {[id |-> c, call |-> call]}]
          /\ co' = [co EXCEPT ![c] = [st |-> "wait", call |-> call]]
  /\ avail' = av
  /\ UNCHANGED <<disabled, answers, status>>

\* unimsg_send fails on the connection of a dependency that exited: exit(1).
FailRpc(k) ==
  /\ k < MaxCalls
  /\ lost # {}
  /\ status' = "dependency lost"
  /\ UNCHANGED <<answers, reqs, coVars>>

\* The end of coroutine_fn's loop body, after a response was sent.
Release_Never(av) == disabled
Release(av) == IF av = << >> THEN FALSE ELSE disabled

\* co->up_sock: the socket object the request came from.
ReplySock_Last(req) == socks[Len(socks)]
ReplySock(req) == req.sock

Sendable(h) == handle[h] # None /\ link[handle[h]] = "open"

\* The handler returns: the response is sent, and the coroutine becomes
\* available and yields.
Finish(c, req, av) ==
  /\ Sendable(ReplySock(req))
  /\ answers' = answers \cup {[to |-> handle[ReplySock(req)], req |-> req]}
  /\ disabled' = Release(av)
  /\ avail' = Append(av, c)
  /\ co' = [co EXCEPT ![c] = Idle]
  /\ UNCHANGED <<reqs, status>>

\* unimsg_send fails, on a connection the client closed or on a socket object
\* the event loop closed meanwhile: exit(1).  (A socket object that was closed
\* and handed out again by accept is some other client's: Finish.)
FailSend(req) ==
  /\ ~Sendable(ReplySock(req))
  /\ status' = "send error"
  /\ UNCHANGED <<answers, reqs, coVars>>

\* Coroutine c runs from here to its next yield, having made k calls.
Run(c, req, k, av) ==
  DoRpc(c, req, k, av) \/ FailRpc(k) \/ Finish(c, req, av) \/ FailSend(req)

-----------------------------------------------------------------------------
(* The event loop *)

\* Socket h has a message, or its peer closed it (seen once the messages are read).
UpReady(h) == \/ asked[handle[h]] > taken[handle[h]]
              \/ link[handle[h]] = "closed"

Polled(n) ==
  [s \in Slots |->
     \/ s = 0 /\ \E c \in Clients : link[c] = "backlog"
     \/ s \in Deps /\ (resps[s] # {} \/ s \in lost)
     \/ NDeps < s /\ s < n /\ UpReady(socks[s - NDeps])]

\* The first ready slot from s on, n if there is none.
NextReady(s, r, n) ==
  LET S == {t \in s .. n - 1 : r[t]}
  IN IF S = {} THEN n ELSE CHOOSE t \in S : \A u \in S : t <= u

PollCount_OneShort == IF disabled THEN NDeps ELSE NSocks
PollCount_NotTheLast == IF disabled THEN NDeps + 1 ELSE NSocks - 1
PollCount == IF disabled THEN NDeps + 1 ELSE NSocks

Poll ==
  LET r == Polled(PollCount)
  IN /\ status = "run" /\ pc = "poll"
     /\ \E s \in Slots : r[s]
     /\ ready' = r
     /\ npoll' = PollCount
     /\ slot' = NextReady(1, r, PollCount)
     /\ pc' = "scan"
     /\ UNCHANGED <<netVars, handle, socks, coVars, inbox, burst, status>>

\* The loop may move to another socket.
Scanning == status = "run" /\ pc = "scan" /\ inbox = {} /\ burst = 0

\* handle_downstream receives a bulk ...
RecvDown ==
  /\ Scanning
  /\ slot \in Deps
  /\ \E M \in SUBSET resps[slot] :
       /\ M # {} /\ Cardinality(M) <= Bulk
       /\ inbox' = M
       /\ resps' = [resps EXCEPT ![slot] = @ \ M]
  /\ UNCHANGED <<link, asked, taken, answers, reqs, lost, handle, socks, coVars,
                 pc, ready, npoll, slot, burst, status>>

\* ... or unimsg_recv fails, the dependency having exited: exit(1).
LoseDown ==
  /\ Scanning
  /\ slot \in lost
  /\ resps[slot] = {}
  /\ status' = "dependency lost"
  /\ UNCHANGED <<netVars, handle, socks, coVars, roundVars>>

\* The id in a response selects the coroutine to resume.
Resumed_Oldest(m) == CHOOSE c \in Co : co[c].st = "wait"
Resumed(m) == m.id

\* ... and resumes the coroutine named by the id of each response.
Resume(m) ==
  LET c == Resumed(m)
  IN /\ status = "run" /\ m \in inbox
     /\ inbox' = inbox \ {m}
     /\ slot' = IF inbox = {m} THEN NextReady(slot + 1, ready, npoll) ELSE slot
     /\ Run(c, co[c].call.req, co[c].call.k, avail)
     /\ UNCHANGED <<link, asked, taken, resps, lost, handle, socks, pc, ready, npoll, burst>>

\* n_available_cos == 0
Exhausted_OneLeft == Len(avail) <= 1
Exhausted == avail = << >>

Upstream == Scanning /\ NDeps < slot /\ slot < npoll

UpSock == socks[slot - NDeps]

\* handle_upstream without an available coroutine: return 2, and the loop breaks.
Disable ==
  /\ Upstream
  /\ Exhausted
  /\ disabled' = TRUE
  /\ slot' = npoll
  /\ UNCHANGED <<netVars, handle, socks, avail, co, pc, ready, npoll, inbox, burst, status>>

\* The socket leaves the list, the ones behind it shift down with their ready
\* flags, and the loop goes on with the next index.
Dropped(s) == SubSeq(socks, 1, s - NDeps - 1) \o SubSeq(socks, s - NDeps + 1, Len(socks))

ShiftReady(s) == [t \in Slots |-> IF s <= t /\ t < NSocks - 1 THEN ready[t + 1] ELSE ready[t]]

CloseUp ==
  LET c == handle[UpSock]
  IN /\ Upstream
     /\ ~Exhausted
     /\ asked[c] = taken[c] /\ link[c] = "closed"
     /\ handle' = [handle EXCEPT ![UpSock] = None]
     /\ socks' = Dropped(slot)
     /\ ready' = ShiftReady(slot)
     /\ npoll' = npoll - 1
     /\ slot' = NextReady(slot + 1, ShiftReady(slot), npoll - 1)
     /\ UNCHANGED <<netVars, coVars, pc, inbox, burst, status>>

RecvUp ==
  LET c == handle[UpSock]
      n == asked[c] - taken[c]
  IN /\ Upstream
     /\ ~Exhausted
     /\ n > 0
     /\ burst' = IF Http THEN 1 ELSE IF n < Bulk THEN n ELSE Bulk
     /\ taken' = [taken EXCEPT ![c] = @ + burst']
     /\ UNCHANGED <<link, asked, answers, reqs, resps, lost, handle, socks, coVars,
                    pc, ready, npoll, slot, inbox, status>>

\* The stack of available coroutines after one was taken.
Popped_Not == avail
Popped == SubSeq(avail, 1, Len(avail) - 1)

\* The number of the request at descs[current], of a bulk received from c.
Current_Last(c) == taken[c]
Current(c) == taken[c] - burst + 1

\* A request of the bulk starts a coroutine.
Start ==
  LET c   == handle[UpSock]
      req == [from |-> c, n |-> Current(c), sock |-> UpSock]
  IN /\ status = "run" /\ burst > 0
     /\ ~Exhausted
     /\ burst' = burst - 1
     /\ slot' = IF burst = 1 THEN NextReady(slot + 1, ready, npoll) ELSE slot
     /\ Run(avail[Len(avail)], req, 0, Popped)
     /\ UNCHANGED <<link, asked, taken, resps, lost, handle, socks, pc, ready, npoll, inbox>>

\* "No more available coroutines but data is already pending": exit(1).
Overrun ==
  /\ status = "run" /\ burst > 0
  /\ Exhausted
  /\ status' = "overrun"
  /\ UNCHANGED <<netVars, handle, socks, coVars, roundVars>>

\* The end of the round: a new connection, if there is one.
RoundDone == Scanning /\ slot = npoll

Full == NSocks = MaxSocks

Accept ==
  /\ RoundDone
  /\ pc' = "poll"
  /\ \/ /\ ~ready[0]
        /\ UNCHANGED <<link, handle, socks, status>>
     \/ /\ ready[0]
        /\ Full
        /\ status' = "max connections"
        /\ UNCHANGED <<link, handle, socks>>
     \/ /\ ready[0]
        /\ ~Full
        /\ \E c \in Clients, h \in Handles :
             /\ link[c] = "backlog" /\ handle[h] = None
             /\ link' = [link EXCEPT ![c] = "open"]
             /\ handle' = [handle EXCEPT ![h] = c]
             /\ socks' = Append(socks, h)
        /\ UNCHANGED status
  /\ UNCHANGED <<asked, taken, answers, reqs, resps, lost, coVars, ready, npoll, slot, inbox, burst>>

run_service ==
  \/ Poll \/ RecvDown \/ LoseDown \/ (\E m \in inbox : Resume(m))
  \/ Disable \/ CloseUp \/ RecvUp \/ Start \/ Overrun \/ Accept

Next ==
  \/ \E c \in Clients : Connect(c) \/ Ask(c) \/ Close(c)
  \/ \E d \in Deps : Quit(d) \/ \E m \in reqs[d] : Serve(d, m)
  \/ run_service

\* The service is one thread that always takes its next step, a dependency answers
\* every request until it exits, and connections are queues, so that no response
\* is passed over for ever.  Clients need do nothing.
Fairness ==
  /\ WF_vars(run_service)
  /\ \A c \in Co :
       /\ WF_vars(\E d \in Deps : \E m \in reqs[d] : m.id = c /\ Serve(d, m))
       /\ SF_vars(RecvDown /\ \E m \in inbox' : m.id = c)

Spec == Init /\ [][Next]_vars /\ Fairness

\* A client that has every answer goes on asking: its requests are numbered from
\* 1 again.  With it MaxAsked bounds what a client has outstanding or has been
\* told since, and no longer how often it asks.
AskAgain(c) ==
  /\ link[c] = "open"
  /\ Answered(c) = 1 .. MaxAsked
  /\ asked' = [asked EXCEPT ![c] = 0]
  /\ taken' = [taken EXCEPT ![c] = 0]
  /\ answers' = {a \in answers : a.req.from # c}
  /\ UNCHANGED <<link, reqs, resps, lost, handle, socks, coVars, roundVars, status>>

\* The service under clients that never stop asking.
Endless == Init /\ [][Next \/ \E c \in Clients : AskAgain(c)]_vars /\ Fairness

-----------------------------------------------------------------------------
(* Properties *)

Waiting == {c \in Co : co[c].st = "wait"}

\* No coroutine is lost or handed out twice: the stack holds exactly the
\* coroutines that are not inside a handler, once each.
CoroutinesAccounted ==
  status = "run" =>
    /\ \A j, k \in 1 .. Len(avail) : avail[j] = avail[k] => j = k
    /\ {avail[j] : j \in 1 .. Len(avail)} = Co \ Waiting

\* Upstream reception is disabled only while every coroutine is busy, so that
\* some coroutine's end will enable it again.
DisabledOnlyWhenExhausted == disabled => avail = << >>

\* The RPCs on their way to a dependency or back.
Flight == (UNION {reqs[d] \cup resps[d] : d \in Deps}) \cup inbox

\* "Unique id used to identify the RPC by the caller" (message.h:520): the
\* messages that carry a coroutine's id are those of the one call it is waiting
\* for, there is only one, and a coroutine that waits has its call in flight.
IdIdentifiesCall ==
  status = "run" =>
    /\ \A m \in Flight : co[m.id].st = "wait" /\ m.call = co[m.id].call
    /\ \A c \in Waiting : \E m \in Flight : m.id = c
    /\ \A d \in Deps : reqs[d] \cap (resps[d] \cup inbox) = {} /\ resps[d] \cap inbox = {}

\* A response goes to the client that asked.  It goes to another one only if the
\* asker closed before it was answered, and then to the client that was given
\* the socket object of the request in its place; clients that wait for their
\* answers are never confused, although objects are handed out again.
AnswerToAsker ==
  \A a \in answers :
    a.to # a.req.from =>
      /\ ~Patient
      /\ link[a.req.from] = "closed"
      /\ handle[a.req.sock] = a.to \/ link[a.to] = "closed"

\* No request is answered twice, and none that was not received.
AnsweredOnce ==
  /\ \A a, b \in answers : a.req.from = b.req.from /\ a.req.n = b.req.n => a = b
  /\ \A a \in answers : a.req.n <= taken[a.req.from]
  /\ \A c \in Waiting : \A a \in answers :
       ~(a.req.from = co[c].call.req.from /\ a.req.n = co[c].call.req.n)

\* The requests of c that were given to a coroutine: those received, but for
\* what is left of the bulk.
Started(c) == IF burst > 0 /\ c = handle[UpSock] THEN taken[c] - burst ELSE taken[c]

Asks(c) == co[c].call.req

\* No request is dropped between its arrival and its answer: one that was given
\* to a coroutine is answered, or a coroutine is still at it.
NothingDropped ==
  status = "run" =>
    \A c \in Clients : \A n \in 1 .. Started(c) :
      n \in Answered(c) \/ \E k \in Waiting : Asks(k).from = c /\ Asks(k).n = n

\* Every request the service has received is at one place: in the bulk that is
\* being handed out, with one coroutine, or answered, once.
EachAnsweredOnce == AnsweredOnce /\ NothingDropped

\* A connection waits and there is no room for it.
LimitReached == Full /\ \E c \in Clients : link[c] = "backlog"

\* The service gives up for lack of coroutines (service_async.h:196) only when
\* the requests it has received and not answered outnumber its coroutines, for
\* a send error only after a client closed before it was answered, for a lost
\* dependency only when one exited, and for the number of connections only when
\* one more than it can hold is waiting.  (Requests arrive whole here: the check of
\* line 196 also stops a service without a free coroutine on the last, incomplete
\* descriptor of a bulk.)
OutageNeedsCause ==
  /\ status = "overrun" =>
       Cardinality({r \in Clients \X (1 .. MaxAsked) :
                      r[2] <= taken[r[1]] /\ r[2] \notin Answered(r[1])}) > MaxCo
  /\ status = "send error" =>
       \E c \in Clients : link[c] = "closed" /\ asked[c] > Cardinality(Answered(c))
  /\ status = "dependency lost" => lost # {}
  /\ status = "max connections" => LimitReached

\* With HTTP upstream and clients that wait for their answers, load alone brings
\* the service down in one way, a connection beyond the limit: it exits for
\* nothing else but a dependency that exited.
StaysUp ==
  Http /\ Patient =>
    \/ status = "run"
    \/ status = "dependency lost" /\ lost # {}
    \/ status = "max connections" /\ LimitReached

\* A request the service has received is answered, unless the service exits.
ReceivedAnswered ==
  \A c \in Clients : \A n \in 1 .. MaxAsked :
    taken[c] >= n ~> (n \in Answered(c) \/ status # "run")

\* The service is receiving from a socket in front of that of client c.
Overtaken(c) == burst > 0 /\ \E s \in slot + 1 .. NSocks - 1 : handle[socks[s - NDeps]] = c

\* A request that waits on its connection is received, unless the service exits
\* or goes on receiving from the sockets in front: each round starts from the
\* first upstream socket (the TODO at service_async.h:350), so clients on earlier
\* slots that ask often enough can keep a later one waiting for ever, and
\* nothing else can.
StarvedOnlyFromTheFront ==
  \A c \in Clients : \A n \in 1 .. MaxAsked :
    asked[c] >= n ~> (taken[c] >= n \/ status # "run" \/ Overtaken(c))

\* Upstream reception never stays disabled.
UpstreamReenabled == disabled ~> (~disabled \/ status # "run")

-----------------------------------------------------------------------------
(* The strengthening that makes the properties of the coroutines inductive *)

\* What is in flight with dependency d is a message to or from d.
FlightOK ==
  /\ \A m \in Flight : m.id \in Co /\ m = [id |-> m.id, call |-> m.call]
  /\ \A d \in Deps : \A m \in reqs[d] \cup resps[d] : m.call.dep = d

PoolInv ==
  /\ avail \in Seq(Co)
  /\ co = [c \in Co |-> co[c]]
  /\ reqs = [d \in Deps |-> reqs[d]]
  /\ resps = [d \in Deps |-> resps[d]]
  /\ FlightOK
  /\ CoroutinesAccounted
  /\ DisabledOnlyWhenExhausted
  /\ IdIdentifiesCall

-----------------------------------------------------------------------------
(* The strengthening that makes the properties of the answers inductive *)

\* A slot of the loop's index range is that of an open socket object.
SockInv ==
  /\ link \in [Clients -> {"off", "backlog", "open", "closed"}]
  /\ handle \in [Handles -> Clients \cup {None}]
  /\ socks \in Seq(Handles)
  /\ \A j, k \in 1 .. Len(socks) : socks[j] = socks[k] => j = k
  /\ \A j \in 1 .. Len(socks) : handle[socks[j]] # None
  /\ \A h \in Handles : handle[h] # None => link[handle[h]] \in {"open", "closed"}
  /\ npoll \in Nat /\ slot \in Nat /\ burst \in Nat
  /\ pc = "scan" => npoll <= NSocks
  /\ burst > 0 => pc = "scan" /\ NDeps < slot /\ slot < npoll /\ inbox = {}

\* What was received was sent, and the bulk is part of what was received.
CountInv ==
  /\ asked \in [Clients -> 0 .. MaxAsked]
  /\ taken \in [Clients -> 0 .. MaxAsked]
  /\ \A c \in Clients : taken[c] <= asked[c]
  /\ burst > 0 => burst <= taken[handle[UpSock]]

\* The request of a coroutine came from the socket it will answer on, unless
\* its client is gone, and no other coroutine and no answer is for it.
RequestInv ==
  /\ answers \subseteq [to : Clients, req : Request]
  /\ \A a \in answers : a.req.n <= Started(a.req.from)
  /\ \A c \in Waiting :
       /\ Asks(c) \in Request
       /\ Asks(c).n <= Started(Asks(c).from)
       /\ handle[Asks(c).sock] = Asks(c).from \/ link[Asks(c).from] = "closed"
  /\ \A c, e \in Waiting :
       Asks(c).from = Asks(e).from /\ Asks(c).n = Asks(e).n => c = e
  /\ \A a \in answers : a.to # a.req.from =>
       link[a.req.from] = "closed" /\ (handle[a.req.sock] = a.to \/ link[a.to] = "closed")
  /\ AnsweredOnce

\* With HTTP a request received has its coroutine; a patient client that
\* closed has all its answers, and no other client has them; a connection seen
\* by poll waits until it is accepted.
OutageInv ==
  /\ Http => burst <= 1 /\ (burst > 0 => avail # << >>)
  /\ Patient => \A c \in Clients : link[c] = "closed" => Answered(c) = 1 .. asked[c]
  /\ Patient => \A a \in answers : a.to = a.req.from
  /\ pc = "scan" /\ ready[0] => \E c \in Clients : link[c] = "backlog"
  /\ status \in {"run"} \cup Exits
  /\ OutageNeedsCause
  /\ StaysUp

=============================================================================
