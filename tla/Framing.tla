------------------------------ MODULE Framing ------------------------------
(***************************************************************************)
(* How a boutique service cuts the byte stream of a unimsg connection into *)
(* RPC messages: process_desc and move_data of service.h, called once per  *)
(* iteration of the receive loops of service_sync.h and service_async.h.   *)
(*                                                                         *)
(* A byte is represented by its position in the stream of its connection,  *)
(* so that a delivered message shows exactly which bytes it was made of.   *)
(* An RPC begins at each position of Starts; the command in its header     *)
(* determines its size.  The peer cuts the stream into descriptors         *)
(* wherever it likes.                                                      *)
(***************************************************************************)
EXTENDS Integers, Sequences

CONSTANTS
  Buffers,     \* the shared-memory buffers of the pool
  NoBuffer,    \* "desc.addr == 0"
  BufferSize,  \* UNIMSG_BUFFER_SIZE - 68, the end of the usable part of a buffer
  Headroom,    \* offset of the data in a buffer just obtained from the pool
  RpcHeader,   \* sizeof(struct rpc)
  StreamLen,   \* length of the stream
  Starts,      \* the positions at which an RPC begins
  RpcSize,     \* RpcSize[s]: header and body size of the RPC that begins at s
  Unknown,     \* the starts of RPCs whose command is not in enum command
  MaxQueue     \* bound: descriptors received and not yet processed

ASSUME BufferAssumption ==
  /\ NoBuffer \notin Buffers
  /\ BufferSize \in Nat
  /\ Headroom \in Nat
  /\ MaxQueue \in Nat

ASSUME StreamAssumption ==
  /\ RpcHeader \in Nat \ {0}
  /\ StreamLen \in Nat
  /\ Starts \subseteq 0 .. StreamLen - 1
  /\ Unknown \subseteq Starts
  /\ 0 \in Starts \cup {StreamLen}
  /\ RpcSize \in [Starts -> Nat]
  /\ \A s \in Starts : /\ RpcSize[s] >= RpcHeader
                       /\ s + RpcSize[s] \in Starts \cup {StreamLen}
                       /\ Headroom + RpcSize[s] <= BufferSize

VARIABLES
  sent,       \* bytes of the stream handed to the socket so far
  queue,      \* received descriptors, the one at index `current' first
  pending,    \* struct pending_buffer of the connection
  free,       \* buffers in the pool
  app,        \* buffers of messages being handled or sent back
  delivered,  \* history: the bytes of every message passed to the handler
  lost,       \* history: buffers emptied by process_desc that nobody put back
  cuts,       \* history: the starts of RPCs whose header was cut by a descriptor boundary
  status      \* "run", or "exit" after exit(1)

vars == <<sent, queue, pending, free, app, delivered, lost, cuts, status>>

Bytes(s, n) == [i \in 1 .. n |-> s + i - 1]

Desc == [buf : Buffers, off : Nat, data : Seq(Nat)]

NothingPending == [buf |-> NoBuffer, off |-> 0, data |-> << >>, expected |-> 0]

TypeOK ==
  /\ sent \in 0 .. StreamLen
  /\ queue \in Seq(Desc)
  /\ pending \in [buf : Buffers \cup {NoBuffer}, off : Nat, data : Seq(Nat),
                  expected : Nat]
  /\ free \subseteq Buffers
  /\ app \subseteq Buffers
  /\ delivered \in Seq(Seq(Nat))
  /\ lost \subseteq Buffers
  /\ cuts \subseteq Starts
  /\ status \in {"run", "exit"}

Init ==
  /\ sent = 0
  /\ queue = << >>
  /\ pending = NothingPending
  /\ free = Buffers
  /\ app = {}
  /\ delivered = << >>
  /\ lost = {}
  /\ cuts = {}
  /\ status = "run"

-----------------------------------------------------------------------------
(* The peer and the handler *)

\* The peer obtains a buffer, fills it with the next n bytes and sends it.
Arrive(n) ==
  /\ status = "run"
  /\ Len(queue) < MaxQueue
  /\ sent + n <= StreamLen
  /\ Headroom + n <= BufferSize
  /\ \E b \in free :
       /\ queue' = Append(queue, [buf |-> b, off |-> Headroom, data |-> Bytes(sent, n)])
       /\ free' = free \ {b}
  /\ sent' = sent + n
  /\ cuts' = cuts \cup {s \in Starts : s < sent + n /\ sent + n < s + RpcHeader}
  /\ UNCHANGED <<pending, app, delivered, lost, status>>

\* The response to a handled message leaves in the message's own buffer, which
\* the receiver puts back.
Respond(b) ==
  /\ b \in app
  /\ app' = app \ {b}
  /\ free' = free \cup {b}
  /\ UNCHANGED <<sent, queue, pending, delivered, lost, cuts, status>>

-----------------------------------------------------------------------------
(* process_desc *)

desc == Head(queue)

\* (Operators whose name ends in an underscore and a word are slips of the
\* definition that follows them, used to see that the properties notice.)

\* Bytes that fit between the start of the data and the end of the buffer.
RoomAt_IgnoresOffset(off) == BufferSize - Headroom
RoomAt(off) == BufferSize - off

Command(data) == data[1]

get_rpc_size_BodyOnly(command) == RpcSize[command] - RpcHeader
get_rpc_size(command) == RpcSize[command]

\* move_data: n bytes leave the front of src ...
Drop_SameAddr(src, n) == [buf |-> src.buf, off |-> src.off + n, data |-> src.data]
Drop(src, n) == [buf |-> src.buf, off |-> src.off + n,
                 data |-> SubSeq(src.data, n + 1, Len(src.data))]

\* ... and are written after the end of the data of dst.
Extend(dst, src, n) == [dst EXCEPT !.data = @ \o SubSeq(src.data, 1, n)]

\* The descriptor under process, advanced to `rest'; the loops move to the next
\* one when its size is 0.
Advance(rest) == IF Len(rest.data) = 0 THEN Tail(queue) ELSE [queue EXCEPT ![1] = rest]

\* process_desc returned 1: the caller passes the message on and clears pending.
Deliver_KeepsPending(buf, data) ==
  /\ delivered' = Append(delivered, data)
  /\ app' = app \cup {buf}
  /\ pending' = [pending EXCEPT !.expected = 0]
Deliver(buf, data) ==
  /\ delivered' = Append(delivered, data)
  /\ app' = app \cup {buf}
  /\ pending' = NothingPending

Keep(p) == /\ pending' = p
           /\ UNCHANGED <<delivered, app>>

\* unimsg_buffer_put of a descriptor whose bytes have all been copied.
PutIfEmptied_Never(rest) == free
PutIfEmptied(rest) == IF Len(rest.data) = 0 THEN free \cup {rest.buf} ELSE free

Processing == status = "run" /\ queue # << >>

LacksHeader_OrEqual(x) == Len(x.data) <= RpcHeader
LacksHeader(x) == Len(x.data) < RpcHeader

\* There is nothing pending and desc holds at least a header.
HeaderIn == /\ Processing
            /\ pending.buf = NoBuffer
            /\ ~LacksHeader(desc)

Readable == HeaderIn /\ Command(desc.data) \notin Unknown

Expected == get_rpc_size(Command(desc.data))

KeepShort ==
  /\ Processing
  /\ pending.buf = NoBuffer
  /\ LacksHeader(desc)
  /\ Keep([buf |-> desc.buf, off |-> desc.off, data |-> desc.data, expected |-> pending.expected])
  /\ queue' = Tail(queue)
  /\ UNCHANGED <<sent, free, lost, cuts, status>>

TakeWhole ==
  /\ Readable
  /\ Len(desc.data) = Expected
  /\ Deliver(desc.buf, desc.data)
  /\ queue' = Tail(queue)
  /\ UNCHANGED <<sent, free, lost, cuts, status>>

KeepInPlace ==
  /\ Readable
  /\ Len(desc.data) < Expected
  /\ RoomAt(desc.off) >= Expected
  /\ Keep([buf |-> desc.buf, off |-> desc.off, data |-> desc.data, expected |-> Expected])
  /\ queue' = Tail(queue)
  /\ UNCHANGED <<sent, free, lost, cuts, status>>

FromPool(b) == [buf |-> b, off |-> Headroom, data |-> << >>, expected |-> Expected]

\* The bytes move to a buffer from the pool.  The emptied descriptor is
\* skipped by the caller and never put back.
Relocate ==
  /\ Readable
  /\ Len(desc.data) < Expected
  /\ RoomAt(desc.off) < Expected
  /\ \E b \in free :
       /\ Keep(Extend(FromPool(b), desc, Len(desc.data)))
       /\ free' = free \ {b}
  /\ queue' = Tail(queue)
  /\ lost' = lost \cup {desc.buf}
  /\ UNCHANGED <<sent, cuts, status>>

SplitOff ==
  /\ Readable
  /\ Len(desc.data) > Expected
  /\ \E b \in free :
       /\ Deliver(b, Extend(FromPool(b), desc, Expected).data)
       /\ free' = free \ {b}
  /\ queue' = Advance(Drop(desc, Expected))
  /\ UNCHANGED <<sent, lost, cuts, status>>

Needed == IF pending.expected # 0 THEN pending.expected - Len(pending.data)
                                  ELSE RpcHeader - Len(pending.data)

ToCopy_All == Len(desc.data)
ToCopy == IF Needed < Len(desc.data) THEN Needed ELSE Len(desc.data)

\* The size is looked up once the pending bytes exceed a header.
ExpectedAfter(p) == IF p.expected = 0 /\ Len(p.data) > RpcHeader
                    THEN get_rpc_size(Command(p.data)) ELSE p.expected

Continue ==
  LET p    == Extend(pending, desc, ToCopy)
      e    == ExpectedAfter(p)
      rest == Drop(desc, ToCopy)
  IN /\ Processing
     /\ pending.buf # NoBuffer
     /\ IF Len(p.data) = e THEN Deliver(p.buf, p.data)
                           ELSE Keep([p EXCEPT !.expected = e])
     /\ queue' = Advance(rest)
     /\ free' = PutIfEmptied(rest)
     /\ UNCHANGED <<sent, lost, cuts, status>>

\* exit(1): no buffer for a message that must be copied, or unknown command.
Exit ==
  /\ \/ /\ Readable
        /\ free = {}
        /\ \/ Len(desc.data) > Expected
           \/ Len(desc.data) < Expected /\ RoomAt(desc.off) < Expected
     \/ HeaderIn /\ Command(desc.data) \in Unknown
  /\ status' = "exit"
  /\ UNCHANGED <<sent, queue, pending, free, app, delivered, lost, cuts>>

process_desc == KeepShort \/ TakeWhole \/ KeepInPlace \/ Relocate \/ SplitOff \/ Continue \/ Exit

Next ==
  \/ \E n \in 1 .. StreamLen : Arrive(n)
  \/ \E b \in Buffers : Respond(b)
  \/ process_desc

\* The event loop always runs the receive loop again, and a handled message is
\* always answered.  Nothing forces the peer to send.
Fairness == WF_vars(process_desc) /\ \A b \in Buffers : WF_vars(Respond(b))

Spec == Init /\ [][Next]_vars /\ Fairness

-----------------------------------------------------------------------------
(* Properties *)

\* The position after the last delivered byte.
Cursor == IF delivered = << >> THEN 0
          ELSE LET m == delivered[Len(delivered)] IN m[1] + Len(m)

\* Whatever the peer's cuts, the handler gets exactly the RPCs of the stream,
\* whole, once each and in order (return value 1 of process_desc).
DeliveredInOrder ==
  \A i \in 1 .. Len(delivered) :
    LET s == IF i = 1 THEN 0 ELSE delivered[i - 1][1] + Len(delivered[i - 1])
    IN s \in Starts /\ delivered[i] = Bytes(s, RpcSize[s])

Stream == INSTANCE RpcStream WITH sent <- sent, delivered <- delivered

\* The receive path implements the abstract RPC stream (RpcStream): it delivers
\* what the peer sent, never early, never out of order.
ImplementsRpcStream == Stream!Spec

First(x) == x.data[1]
After(x) == x.data[1] + Len(x.data)

\* The next byte to take from the queue.
Front == Cursor + Len(pending.data)

\* No byte is dropped, duplicated or overtaken on its way through descriptors
\* and pending buffer: what is delivered, pending and queued is the stream, up
\* to the last byte sent (move_data and the advance of `current').
BytesInFlight ==
  /\ pending.data = Bytes(Cursor, Len(pending.data))
  /\ \A i \in 1 .. Len(queue) :
       /\ Len(queue[i].data) > 0
       /\ queue[i].data = Bytes(First(queue[i]), Len(queue[i].data))
  /\ \A i \in 1 .. Len(queue) - 1 : First(queue[i + 1]) = After(queue[i])
  /\ queue = << >> => Front = sent
  /\ queue # << >> => First(queue[1]) = Front /\ After(queue[Len(queue)]) = sent

\* A message being reassembled in place never grows past the end of its buffer,
\* unless its header was cut (KeepShort makes no room check).
NoOverrun == Cursor \notin cuts => pending.off + Len(pending.data) <= BufferSize

QueueBufs == {queue[i].buf : i \in 1 .. Len(queue)}

PendingBufs == {pending.buf} \ {NoBuffer}

\* A buffer belongs to one of pool, socket, pending slot and handler: it is never
\* put back while in use, and no descriptor aliases another one.
SingleOwner ==
  /\ \A i, j \in 1 .. Len(queue) : queue[i].buf = queue[j].buf => i = j
  /\ free \cap (app \cup QueueBufs \cup PendingBufs \cup lost) = {}
  /\ app \cap (QueueBufs \cup PendingBufs \cup lost) = {}
  /\ QueueBufs \cap (PendingBufs \cup lost) = {}
  /\ PendingBufs \cap lost = {}

\* The pool shrinks in one place only: every buffer nobody owns was emptied by
\* the relocation of a message that did not fit.
LostOnlyByRelocation ==
  Buffers = free \cup app \cup QueueBufs \cup PendingBufs \cup lost

\* A complete header whose size was never looked up: Needed is 0 from now on, and
\* the receive loop turns on the same descriptor for ever.
Stuck == pending.buf # NoBuffer /\ Needed = 0

\* The receive loop has something to do with every next descriptor, except after
\* a header that arrived in two descriptors.
StuckOnlyOnCutHeader == Stuck => Cursor \in cuts

\* Every RPC whose bytes have all arrived is delivered, unless the loop is stuck
\* on a cut header or the service exited.
EveryRpcDelivered ==
  \A s \in Starts : sent >= s + RpcSize[s] ~> (Cursor > s \/ Stuck \/ status = "exit")

-----------------------------------------------------------------------------
(* The strengthening that makes the properties inductive *)

\* A message is pending only while it is incomplete, and its expected size is
\* known, and fits, unless its header was cut.
PendingOK ==
  /\ pending.buf = NoBuffer => pending = NothingPending
  /\ pending.buf # NoBuffer =>
       /\ Cursor \in Starts
       /\ Len(pending.data) > 0
       /\ pending.expected = 0 => Len(pending.data) <= RpcHeader /\ Cursor \in cuts
       /\ pending.expected # 0 => /\ pending.expected = RpcSize[Cursor]
                                  /\ Len(pending.data) < pending.expected
                                  /\ pending.off + pending.expected <= BufferSize

\* Descriptors hold bytes that were sent, and the headers they cut are recorded.
QueueOK ==
  \A i \in 1 .. Len(queue) :
    /\ After(queue[i]) <= sent
    /\ \A s \in Starts : s < After(queue[i]) /\ After(queue[i]) < s + RpcHeader => s \in cuts

StreamInv == TypeOK /\ DeliveredInOrder /\ BytesInFlight /\ PendingOK /\ QueueOK

=============================================================================
