---------------------------- MODULE ServiceSync ----------------------------
(***************************************************************************)
(* The event loop of service_sync.h, on which every boutique service but   *)
(* frontend, checkout and recommendation runs: one thread that polls a     *)
(* listening socket (slot 0) and its connections (slots 1 on), reassembles *)
(* requests in the pending buffer of the slot, and handles and answers     *)
(* each at once.                                                           *)
(*                                                                         *)
(* A request is two units, the one with the header and the rest; Framing   *)
(* models the bytes.  A unit is named by its connection and its position   *)
(* in that connection's stream, so that a handled message shows what it    *)
(* was made of.  A descriptor brings one unit or several in a buffer, which*)
(* is named by the first of them; the other buffers are those of the pool. *)
(* Connections, and when they send and close, are external.                *)
(***************************************************************************)
EXTENDS Integers, Sequences, FiniteSets

CONSTANTS
  Conns,     \* the connections clients make
  MaxSocks,  \* UNIMSG_MAX_NSOCKS
  Spare,     \* the buffers in the pool at the start
  Asks       \* bound: Asks[c] is the number of requests sent on c

ASSUME SyncAssumption ==
  MaxSocks \in Nat \ {0} /\ Asks \in [Conns -> Nat] /\ Spare \cap (Conns \X Nat) = {}

VARIABLES
  \* the clients and the network
  link,     \* link[c]: "off", "backlog", "open", or "closed" by the client
  sent,     \* sent[c]: units sent on c
  read,     \* read[c]: units of c received by the service
  answers,  \* answers[c]: the messages whose responses were sent on c
  \* the service
  socks,    \* socks[1 .. nsocks - 1], without the listening socket
  pending,  \* pending_buffers[]: the units in the pending buffer of each slot
  handled,  \* history: the messages handle_request was called with
  repeated, \* history: those it was called with more than once
  addr,     \* pending_buffers[].desc.addr: the buffer, if any, those units are in
  pool,     \* the free buffers
  out,      \* the buffers sent to clients as responses
  came,     \* history: the buffers received from clients
  lost,     \* history: the buffers relocation emptied and did not put back
  spoiled,  \* history: the buffers put back for the failed send of a response
  mixed,    \* history: a slot in use changed hands with data in its pending buffer
  \* the round of the event loop
  pc,       \* "poll" or "scan"
  ready,    \* ready[]
  slot,     \* i: the ready socket under process, nsocks when done
  burst,    \* descs: the units received from socket i and not yet processed
  home,     \* home[u]: the buffer that brought the unit u of the bulk
  status    \* "run", or why the service called exit(1)

netVars == <<link, sent, read, answers>>
bufVars == <<addr, pool, out, came, lost, spoiled>>
vars == <<netVars, socks, pending, handled, repeated, bufVars, mixed, pc, ready, slot,
          burst, home, status>>

Slots == 0 .. MaxSocks - 1
Unit == UNION {{c} \X (1 .. 2 * Asks[c]) : c \in Conns}
Header(u) == u[2] % 2 = 1
Buffer == Unit \cup Spare
Request(c, n) == << <<c, 2 * n - 1>>, <<c, 2 * n>> >>

NSocks == 1 + Len(socks)

TypeOK ==
  /\ link \in [Conns -> {"off", "backlog", "open", "closed"}]
  /\ \A c \in Conns : sent[c] \in 0 .. 2 * Asks[c] /\ read[c] \in 0 .. sent[c]
  /\ answers \in [Conns -> Seq(Unit \X Unit)]
  /\ socks \in Seq(Conns) /\ NSocks <= MaxSocks
  /\ pending \in [Slots -> Seq(Unit)]
  /\ \A s \in Slots : Len(pending[s]) <= 2
  /\ handled \subseteq Unit \X Unit
  /\ repeated \subseteq handled
  /\ addr \in [Slots -> SUBSET Buffer]
  /\ pool \subseteq Buffer /\ out \subseteq Buffer
  /\ came \subseteq Unit /\ lost \subseteq came /\ spoiled \subseteq came
  /\ mixed \in BOOLEAN
  /\ pc \in {"poll", "scan"}
  /\ ready \in [Slots -> BOOLEAN]
  /\ slot \in 0 .. MaxSocks
  /\ burst \in Seq(Unit)
  /\ \A u \in DOMAIN home : u \in Unit /\ home[u] \in Unit
  /\ status \in {"run", "unknown command", "no buffers", "max connections"}

Init ==
  /\ link = [c \in Conns |-> "off"]
  /\ sent = [c \in Conns |-> 0]
  /\ read = [c \in Conns |-> 0]
  /\ answers = [c \in Conns |-> << >>]
  /\ socks = << >>
  /\ pending = [s \in Slots |-> << >>]
  /\ handled = {}
  /\ repeated = {}
  /\ addr = [s \in Slots |-> {}]
  /\ pool = Spare /\ out = {} /\ came = {} /\ lost = {} /\ spoiled = {}
  /\ mixed = FALSE
  /\ pc = "poll"
  /\ ready = [s \in Slots |-> FALSE]
  /\ slot = 0
  /\ burst = << >> /\ home = << >>
  /\ status = "run"

-----------------------------------------------------------------------------
(* Clients *)

Connect(c) ==
  /\ link[c] = "off"
  /\ link' = [link EXCEPT ![c] = "backlog"]
  /\ UNCHANGED <<sent, read, answers>>

Send(c) ==
  /\ link[c] = "open"
  /\ sent[c] < 2 * Asks[c]
  /\ sent' = [sent EXCEPT ![c] = @ + 1]
  /\ UNCHANGED <<link, read, answers>>

Close(c) ==
  /\ link[c] = "open"
  /\ link' = [link EXCEPT ![c] = "closed"]
  /\ UNCHANGED <<sent, read, answers>>

Client(c) ==
  /\ Connect(c) \/ Send(c) \/ Close(c)
  /\ UNCHANGED <<socks, pending, handled, repeated, bufVars, mixed, pc, ready, slot,
                 burst, home, status>>

-----------------------------------------------------------------------------
(* The event loop *)

\* A message can be received, or (once they all were) the reset of the connection.
Readable(c) == sent[c] > read[c]
Reset(c) == sent[c] = read[c] /\ link[c] = "closed"

\* The first ready slot from s on, n if there is none.
NextReady_OneShort(s, r, n) ==
  LET S == {t \in s .. n - 2 : r[t]}
  IN IF S = {} THEN n ELSE CHOOSE t \in S : \A u \in S : t <= u
NextReady(s, r, n) ==
  LET S == {t \in s .. n - 1 : r[t]}
  IN IF S = {} THEN n ELSE CHOOSE t \in S : \A u \in S : t <= u

Polled ==
  [s \in Slots |->
     \/ s = 0 /\ \E c \in Conns : link[c] = "backlog"
     \/ s \in 1 .. Len(socks) /\ (Readable(socks[s]) \/ Reset(socks[s]))]

Poll ==
  /\ status = "run" /\ pc = "poll"
  /\ \E s \in Slots : Polled[s]
  /\ ready' = Polled
  /\ slot' = NextReady(1, Polled, NSocks)
  /\ pc' = "scan"
  /\ UNCHANGED <<netVars, socks, pending, handled, repeated, bufVars, mixed, burst, home, status>>

Scanning == status = "run" /\ pc = "scan"

Conn == socks[slot]

\* The ways n units are cut into descriptors: h[k] is the first unit of the
\* descriptor that holds the k-th.
Cuttings(n) ==
  {h \in [1 .. n -> 1 .. n] : \A k \in 1 .. n : h[k] <= k /\ \A j \in h[k] .. k : h[j] = h[k]}

\* unimsg_recv returns some of the units that are there.
Recv ==
  /\ Scanning /\ burst = << >>
  /\ slot < NSocks
  /\ \E n \in 1 .. sent[Conn] - read[Conn] : \E h \in Cuttings(n) :
       LET Nth(k) == <<Conn, read[Conn] + k>>
       IN /\ read' = [read EXCEPT ![Conn] = @ + n]
          /\ burst' = [k \in 1 .. n |-> Nth(k)]
          /\ home' = [u \in {Nth(k) : k \in 1 .. n} |-> Nth(h[u[2] - read[Conn]])]
          /\ came' = came \cup {Nth(h[k]) : k \in 1 .. n}
  /\ UNCHANGED <<link, sent, answers, socks, pending, handled, repeated, addr, pool, out, lost,
                 spoiled, mixed, pc, ready, slot, status>>

\* The socket leaves the list, and the ones behind it move down with their
\* ready flags (their pending buffers stay where they are); the loop goes on
\* with the next index.
ShiftReady == [t \in Slots |-> IF slot <= t /\ t < NSocks - 1 THEN ready[t + 1] ELSE ready[t]]

Remove ==
  /\ socks' = SubSeq(socks, 1, slot - 1) \o SubSeq(socks, slot + 1, Len(socks))
  /\ ready' = ShiftReady
  /\ slot' = NextReady(slot + 1, ShiftReady, NSocks - 1)
  /\ burst' = << >> /\ home' = << >>
  /\ mixed' = (mixed \/ \E t \in slot .. MaxSocks - 1 : pending'[t] # << >>)

\* unimsg_recv fails with ECONNRESET.
RecvReset ==
  /\ Scanning /\ burst = << >>
  /\ slot < NSocks
  /\ Reset(Conn)
  /\ UNCHANGED <<netVars, pending, handled, repeated, bufVars, pc, status>>
  /\ Remove

\* The receive loop goes on with what is left of the bulk, or ends.
Advance(rest) ==
  /\ burst' = rest
  /\ home' = IF rest = << >> THEN << >> ELSE home
  /\ slot' = IF rest = << >> THEN NextReady(slot + 1, ready, NSocks) ELSE slot
  /\ UNCHANGED <<socks, ready, mixed>>

\* The buffer of the descriptor under process.
Source == home[Head(burst)]

\* What process_desc finds: nothing pending; a message, complete already (left
\* by a failed send); a descriptor with one unit left, or with two.
Fresh == pending[slot] = << >>
Complete == Len(pending[slot]) = 2
Alone == \A k \in 2 .. Len(burst) : home[burst[k]] # Source
Pair == ~Alone /\ \A k \in 3 .. Len(burst) : home[burst[k]] # Source

\* The first unit of a message stays pending, in its buffer if the rest of the
\* message fits behind it, ...
Stay ==
  /\ addr' = [addr EXCEPT ![slot] = {Source}]
  /\ UNCHANGED <<pool, lost>>

\* ... or in a new one, and then the emptied buffer is not put back.
Abandoned == {Source}
Relocate ==
  \E b \in pool :
    /\ addr' = [addr EXCEPT ![slot] = {b}]
    /\ pool' = pool \ {b}
    /\ lost' = lost \cup Abandoned

Keep ==
  /\ Scanning /\ burst # << >>
  /\ Fresh /\ Alone
  /\ pending' = [pending EXCEPT ![slot] = <<Head(burst)>>]
  /\ Stay \/ Relocate
  /\ Advance(Tail(burst))
  /\ UNCHANGED <<netVars, handled, repeated, out, came, spoiled, pc, status>>

\* The command of a message whose first unit is not a header is whatever is
\* there: known, by chance, or not.
Reject ==
  /\ Scanning /\ burst # << >>
  /\ Fresh /\ ~Header(Head(burst))
  /\ status' = "unknown command"
  /\ UNCHANGED <<netVars, socks, pending, handled, repeated, bufVars, mixed, pc, ready, slot,
                 burst, home>>

\* unimsg_buffer_get fails, for a unit to relocate or a message to split off.
NoBuffer ==
  /\ Scanning /\ burst # << >>
  /\ Fresh /\ ~Pair
  /\ pool = {}
  /\ status' = "no buffers"
  /\ UNCHANGED <<netVars, socks, pending, handled, repeated, bufVars, mixed, pc, ready, slot,
                 burst, home>>

\* process_desc completes a message: with the unit that the pending buffer
\* lacked, with none if it was full already, or with two at once.
Message ==
  IF Complete THEN pending[slot]
  ELSE IF Fresh THEN <<burst[1], burst[2]>> ELSE Append(pending[slot], Head(burst))

Rest_All == burst
Rest == IF Complete THEN burst ELSE IF Fresh THEN Tail(Tail(burst)) ELSE Tail(burst)

\* The buffers the message may be in: the pending one, that of a descriptor with
\* the message and no more, or one from the pool that it is split off to.
Split == Fresh /\ ~Pair
Buffers == IF ~Fresh THEN addr[slot] ELSE IF Pair THEN {Source} ELSE pool
Got(b) == IF Split THEN {b} ELSE {}

\* The buffer process_desc puts back: one whose last unit it copied to the
\* pending buffer.
Emptied_Kept == {}
Emptied == IF ~Fresh /\ ~Complete /\ Alone THEN {Source} ELSE {}

Handle ==
  /\ Scanning /\ burst # << >>
  /\ ~(Fresh /\ Alone)
  /\ handled' = handled \cup {Message}
  /\ repeated' = IF Message \in handled THEN repeated \cup {Message} ELSE repeated

\* The message is handled, answered in its buffer, and the pending buffer cleared.
Clear_Not(b) ==
  /\ pending' = [pending EXCEPT ![slot] = Message]
  /\ addr' = [addr EXCEPT ![slot] = {b}]
Clear(b) ==
  /\ pending' = [pending EXCEPT ![slot] = << >>]
  /\ addr' = [addr EXCEPT ![slot] = {}]

Answer ==
  /\ Handle
  /\ link[Conn] = "open"
  /\ answers' = [answers EXCEPT ![Conn] = Append(@, Message)]
  /\ \E b \in Buffers :
       /\ Clear(b)
       /\ pool' = (pool \ Got(b)) \cup Emptied
       /\ out' = out \cup {b}
  /\ Advance(Rest)
  /\ UNCHANGED <<link, sent, read, came, lost, spoiled, pc, status>>

\* The buffers of all the descriptors of the bulk.
Descs == {home[u] : u \in DOMAIN home}

\* unimsg_send fails with ECONNRESET: the whole bulk is put back, whatever became
\* of its buffers, the connection is removed, and the pending buffer not cleared.
AnswerReset ==
  /\ Handle
  /\ link[Conn] # "open"
  /\ pending' = [pending EXCEPT ![slot] = Message]
  /\ \E b \in Buffers :
       /\ addr' = [addr EXCEPT ![slot] = {b}]
       /\ pool' = (pool \ Got(b)) \cup Emptied \cup Descs
  /\ spoiled' = spoiled \cup Descs
  /\ Remove
  /\ UNCHANGED <<netVars, out, came, lost, pc, status>>

Full == NSocks = MaxSocks

\* The round ends; the next one sets ready[] and i again.
Accept ==
  /\ Scanning /\ slot = NSocks
  /\ pc' = "poll" /\ ready' = [s \in Slots |-> FALSE] /\ slot' = 0
  /\ \/ /\ ~ready[0]
        /\ UNCHANGED <<link, socks, status>>
     \/ /\ ready[0]
        /\ Full
        /\ status' = "max connections"
        /\ UNCHANGED <<link, socks>>
     \/ /\ ready[0]
        /\ ~Full
        /\ \E c \in Conns :
             /\ link[c] = "backlog"
             /\ link' = [link EXCEPT ![c] = "open"]
             /\ socks' = Append(socks, c)
        /\ UNCHANGED status
  /\ UNCHANGED <<sent, read, answers, pending, handled, repeated, bufVars, mixed, burst, home>>

run_service ==
  \/ Poll \/ Recv \/ RecvReset \/ Keep \/ Reject \/ NoBuffer
  \/ Answer \/ AnswerReset \/ Accept

Next == (\E c \in Conns : Client(c)) \/ run_service

\* The service is one thread that always takes its next step.
Spec == Init /\ [][Next]_vars /\ WF_vars(run_service)

-----------------------------------------------------------------------------
(* Properties *)

\* The units of c received and not part of an answered request.
Unanswered(c) ==
  [k \in 1 .. read[c] - 2 * Len(answers[c]) |-> <<c, 2 * Len(answers[c]) + k>>]

\* Between two bulks, the pending buffer of a connection's slot holds exactly
\* what was received on that connection and is not answered.
SlotHoldsOwnData ==
  burst = << >> => \A s \in 1 .. Len(socks) : pending[s] = Unanswered(socks[s])

\* The connections closed by their client with a request half sent or not answered.
Untidy == {c \in Conns : link[c] = "closed" /\ 2 * Len(answers[c]) < sent[c]}

\* "The socket was closed, remove it from the list and shift all other sockets"
\* (service_sync.h:127): a close that leaves nothing behind leaves the other
\* connections as they were, at another index.
CloseShiftsTheOthers == Untidy = {} => SlotHoldsOwnData

\* Until a slot with data in its pending buffer changes hands each connection gets
\* the answers to its own requests, whole, once each, in the order it sent them.
AnswersMatchRequests ==
  ~mixed => \A c \in Conns : answers[c] = [n \in 1 .. Len(answers[c]) |-> Request(c, n)]

\* A request is handled twice, and the rest of a request taken for a header, only
\* after a slot changed hands with data in its pending buffer.
DamageNeedsMixing == repeated # {} \/ status = "unknown command" => mixed

\* The places a buffer is in: the pool, a client, what is left of the bulk, a
\* pending buffer.
Places(b) ==
  {<<"pool", 0>> : x \in {b} \cap pool} \cup {<<"client", 0>> : x \in {b} \cap out}
    \cup {<<"bulk", 0>> : k \in {j \in DOMAIN burst : home[burst[j]] = b}}
    \cup {<<"slot", s>> : s \in {r \in Slots : b \in addr[r]}}

\* Each buffer, of the pool's or received, is in exactly one place, but one that
\* relocation emptied, which is in none, and the buffers of a bulk put back for
\* a failed send: each of those is somewhere, but may be in the pool while a
\* client or a pending buffer still has it.
BuffersAccounted ==
  \A b \in Spare \cup came :
    IF b \in spoiled THEN Places(b) # {}
    ELSE Cardinality(Places(b)) = IF b \in lost THEN 0 ELSE 1

\* Every request of a connection that stays open is answered, as long as slots
\* are clean, the pool has buffers and there are not too many connections.
EveryRequestAnswered ==
  \A c \in Conns : \A n \in 1 .. Asks[c] :
    sent[c] >= 2 * n ~> \/ Len(answers[c]) >= n
                        \/ link[c] = "closed"
                        \/ mixed
                        \/ status \in {"max connections", "no buffers"}
-----------------------------------------------------------------------------
(* The strengthening that makes the safety properties inductive *)

AnyUnit == Conns \X Nat

\* Nothing is sent, received or answered on a connection before it is accepted.
NetInv ==
  /\ link \in [Conns -> {"off", "backlog", "open", "closed"}]
  /\ sent \in [Conns -> Nat]
  /\ read \in [Conns -> Nat]
  /\ answers \in [Conns -> Seq(Seq(AnyUnit))]
  /\ \A c \in Conns : read[c] <= sent[c]
  /\ \A c \in Conns : link[c] \in {"off", "backlog"} => sent[c] = 0 /\ answers[c] = << >>

\* The list holds connections that were accepted, once each.
ListInv ==
  /\ socks \in Seq(Conns) /\ NSocks <= MaxSocks
  /\ \A j, k \in 1 .. Len(socks) : socks[j] = socks[k] => j = k
  /\ \A j \in 1 .. Len(socks) : link[socks[j]] \in {"open", "closed"}

\* The loop's index is in the list or at its end, and what is left of the bulk
\* is the last that was received on the connection at that index.
RoundInv ==
  /\ pending \in [Slots -> Seq(AnyUnit)]
  /\ burst \in Seq(AnyUnit)
  /\ pc = "scan" => slot \in 1 .. NSocks
  /\ burst # << >> =>
       /\ pc = "scan" /\ slot < NSocks
       /\ Len(burst) <= read[Conn]
       /\ \A k \in 1 .. Len(burst) : burst[k] = <<Conn, read[Conn] - Len(burst) + k>>

LoopInv == NetInv /\ ListInv /\ RoundInv

\* The units of the connection in slot s that went to its pending buffer.
Taken(s) == read[socks[s]] - (IF s = slot THEN Len(burst) ELSE 0)

\* Slot s holds the first unit of its connection's next request, or nothing.
SlotOK(s) ==
  LET n == 2 * Len(answers[socks[s]])
  IN \/ pending[s] = << >> /\ Taken(s) = n
     \/ pending[s] = << <<socks[s], n + 1>> >> /\ Taken(s) = n + 1

MatchInv ==
  ~mixed =>
    /\ \A s \in Slots : s \notin 1 .. Len(socks) => pending[s] = << >>
    /\ \A s \in 1 .. Len(socks) : SlotOK(s)
    /\ \A c \in Conns : answers[c] = [n \in 1 .. Len(answers[c]) |-> Request(c, n)]
    /\ \A m \in handled : \E c \in Conns : \E n \in 1 .. Len(answers[c]) : m = Request(c, n)
    /\ repeated = {} /\ status # "unknown command"

\* The units of a descriptor lie together.
HomeInv ==
  /\ \A k \in DOMAIN burst : burst[k] \in DOMAIN home
  /\ \A u \in DOMAIN home : home[u] \in came
  /\ \A i, j, k \in DOMAIN burst :
       i <= j /\ j <= k /\ home[burst[i]] = home[burst[k]] => home[burst[j]] = home[burst[i]]

\* The buffers of what is left of the bulk, and of the pending ones.
Left == {home[burst[k]] : k \in DOMAIN burst}
Held == UNION {addr[s] : s \in Slots}

\* The places hold all the buffers there are, and exclude one another but for
\* the buffers of a failed send.
BufInv ==
  /\ HomeInv
  /\ addr \in [Slots -> SUBSET (Spare \cup came)]
  /\ \A s \in Slots : IF pending[s] = << >> THEN addr[s] = {} ELSE \E b \in Spare \cup came : addr[s] = {b}
  /\ came \subseteq UNION {{c} \X (1 .. read[c]) : c \in Conns}
  /\ lost \cup spoiled \subseteq came
  /\ pool \cup out \cup Left \cup Held \cup lost = Spare \cup came
  /\ spoiled \subseteq pool \cup out \cup Held
  /\ Left \cap (pool \cup out \cup Held \cup lost \cup spoiled) = {}
  /\ pool \cap out \subseteq spoiled
  /\ lost \cap (pool \cup out \cup Held) \subseteq spoiled
  /\ Held \cap (pool \cup out) \subseteq spoiled
  /\ \A s, t \in Slots : s # t => addr[s] \cap addr[t] \subseteq spoiled

=============================================================================
