--------------------------- MODULE FramingProofs ---------------------------
(***************************************************************************)
(* Proofs about Framing, for every stream, every way of cutting it into    *)
(* descriptors and every pool.                                             *)
(***************************************************************************)
EXTENDS Framing, SequenceTheorems, TLAPS

\* Bytes(s, n) is the sequence of the n stream positions from s on.
LEMMA BytesProperties ==
  \A s, n \in Nat : /\ Bytes(s, n) \in Seq(Nat)
                    /\ Len(Bytes(s, n)) = n
                    /\ \A i \in 1 .. n : Bytes(s, n)[i] = s + i - 1
<1> TAKE s, n \in Nat
<1>1. Bytes(s, n) \in [1 .. n -> Nat]
  BY DEF Bytes
<1>2. Bytes(s, n) \in Seq(Nat)
  BY <1>1, IsASeq DEF Bytes
<1>3. Len(Bytes(s, n)) = n
  BY <1>1, <1>2, LenProperties DEF Bytes
<1> QED
  BY <1>2, <1>3 DEF Bytes

\* The first byte of a range.
LEMMA BytesFirst ==
  \A s, n \in Nat : n > 0 => Bytes(s, n)[1] = s
<1> TAKE s, n \in Nat
<1> HAVE n > 0
<1>1. 1 \in 1 .. n
  OBVIOUS
<1> QED
  BY <1>1 DEF Bytes

\* move_data at the source: what is left after k bytes are consecutive bytes.
LEMMA BytesRest ==
  ASSUME NEW s \in Nat, NEW n \in Nat, NEW k \in 0 .. n
  PROVE  SubSeq(Bytes(s, n), k + 1, n) = Bytes(s + k, n - k)
<1> DEFINE b == Bytes(s, n)
           l == SubSeq(b, k + 1, n)
           r == Bytes(s + k, n - k)
<1>1. b \in Seq(Nat) /\ Len(b) = n /\ \A i \in 1 .. n : b[i] = s + i - 1
  BY BytesProperties
<1>2. s + k \in Nat /\ n - k \in Nat
  OBVIOUS
<1>3. r \in Seq(Nat) /\ Len(r) = n - k /\ \A i \in 1 .. n - k : r[i] = (s + k) + i - 1
  BY <1>2, BytesProperties
<1> HIDE DEF b, r
<1>4. \A i \in k + 1 .. n : b[i] \in Nat
  BY <1>1
<1>5. /\ l \in Seq(Nat)
      /\ Len(l) = IF k + 1 <= n THEN n - (k + 1) + 1 ELSE 0
      /\ \A i \in 1 .. n - (k + 1) + 1 : l[i] = b[(k + 1) + i - 1]
  BY <1>4, SubSeqProperties
<1> HIDE DEF l
<1>6. Len(l) = n - k
  BY <1>5
<1>7. \A i \in 1 .. Len(l) : l[i] = r[i]
  BY <1>1, <1>3, <1>5, <1>6
<1>8. l = r
  BY <1>3, <1>5, <1>6, <1>7, SeqEqual
<1> QED
  BY <1>8 DEF l, r, b

\* move_data at the destination: bytes appended to those that precede them in
\* the stream are consecutive bytes.
LEMMA BytesMoved ==
  ASSUME NEW s \in Nat, NEW n \in Nat, NEW m \in Nat, NEW k \in 0 .. m
  PROVE  Bytes(s, n) \o SubSeq(Bytes(s + n, m), 1, k) = Bytes(s, n + k)
<1> DEFINE b == Bytes(s, n)
           c == Bytes(s + n, m)
           f == SubSeq(c, 1, k)
           l == b \o f
           r == Bytes(s, n + k)
<1>1. b \in Seq(Nat) /\ Len(b) = n /\ \A i \in 1 .. n : b[i] = s + i - 1
  BY BytesProperties
<1>2. c \in Seq(Nat) /\ Len(c) = m /\ \A i \in 1 .. m : c[i] = (s + n) + i - 1
  BY s + n \in Nat, BytesProperties
<1>3. r \in Seq(Nat) /\ Len(r) = n + k /\ \A i \in 1 .. n + k : r[i] = s + i - 1
  BY n + k \in Nat, BytesProperties
<1> HIDE DEF b, c, r
<1>4. \A i \in 1 .. k : c[i] \in Nat
  BY <1>2
<1>5. /\ f \in Seq(Nat)
      /\ Len(f) = IF 1 <= k THEN k - 1 + 1 ELSE 0
      /\ \A i \in 1 .. k - 1 + 1 : f[i] = c[1 + i - 1]
  BY <1>4, SubSeqProperties
<1>6. Len(f) = k /\ \A i \in 1 .. k : f[i] = s + n + i - 1
  BY <1>2, <1>5
<1> HIDE DEF f
<1>7. /\ l \in Seq(Nat)
      /\ Len(l) = Len(b) + Len(f)
      /\ \A i \in 1 .. Len(b) + Len(f) : l[i] = IF i <= Len(b) THEN b[i] ELSE f[i - Len(b)]
  BY <1>1, <1>5, ConcatProperties
<1> HIDE DEF l
<1>8. ASSUME NEW i \in 1 .. Len(l) PROVE l[i] = r[i]
  <2>1. i \in 1 .. n + k /\ Len(b) = n /\ Len(f) = k
    BY <1>1, <1>6, <1>7
  <2>2. r[i] = s + i - 1
    BY <1>3, <2>1
  <2>3. CASE i <= n
    BY <1>1, <1>7, <2>1, <2>2, <2>3
  <2>4. CASE i > n
    <3>1. i - n \in 1 .. k
      BY <2>1, <2>4
    <3>2. f[i - n] = s + n + (i - n) - 1
      BY <1>6, <3>1
    <3>3. l[i] = f[i - n]
      BY <1>7, <2>1, <2>4
    <3> QED
      BY <2>1, <2>2, <3>2, <3>3
  <2> QED
    BY <2>1, <2>3, <2>4
<1>9. l = r
  BY <1>1, <1>3, <1>6, <1>7, <1>8, SeqEqual
<1> QED
  BY <1>9 DEF l, r, b, c, f

-----------------------------------------------------------------------------
(* Positions in the stream *)

\* The handler has consumed the stream up to a message boundary.
LEMMA CursorBoundary ==
  ASSUME TypeOK, DeliveredInOrder
  PROVE  Cursor \in Starts \cup {StreamLen} /\ Cursor \in Nat
<1>1. CASE delivered = << >>
  BY <1>1, StreamAssumption DEF Cursor
<1>2. CASE delivered # << >>
  <2> DEFINE n == Len(delivered)
             m == delivered[n]
  <2>1. n \in 1 .. Len(delivered)
    BY <1>2, EmptySeq DEF TypeOK
  <2>2. PICK s \in Starts : m = Bytes(s, RpcSize[s])
    BY <2>1 DEF DeliveredInOrder
  <2>3. s \in Nat /\ RpcSize[s] \in Nat /\ RpcSize[s] > 0
    BY StreamAssumption
  <2> HIDE DEF m
  <2>4. m[1] = s /\ Len(m) = RpcSize[s]
    BY <2>2, <2>3, BytesProperties, BytesFirst
  <2>5. Cursor = s + RpcSize[s]
    BY <1>2, <2>4 DEF Cursor, m
  <2> QED
    BY <2>3, <2>5, StreamAssumption
<1> QED
  BY <1>1, <1>2

\* Delivering the message that begins at the cursor keeps the deliveries exact.
LEMMA DeliverMessage ==
  ASSUME TypeOK, DeliveredInOrder, Cursor \in Starts,
         delivered' = Append(delivered, Bytes(Cursor, RpcSize[Cursor]))
  PROVE  /\ DeliveredInOrder'
         /\ Cursor' = Cursor + RpcSize[Cursor]
         /\ delivered' \in Seq(Seq(Nat))
<1> DEFINE m == Bytes(Cursor, RpcSize[Cursor])
           n == Len(delivered)
<1>1. Cursor \in Nat /\ RpcSize[Cursor] \in Nat /\ RpcSize[Cursor] > 0
  BY StreamAssumption
<1>2. m \in Seq(Nat) /\ Len(m) = RpcSize[Cursor] /\ m[1] = Cursor
  BY <1>1, BytesProperties, BytesFirst
<1> HIDE DEF m
<1>3. /\ delivered' \in Seq(Seq(Nat))
      /\ delivered' # << >>
      /\ Len(delivered') = n + 1
      /\ \A i \in 1 .. n : delivered'[i] = delivered[i]
      /\ delivered'[n + 1] = m
      /\ n \in Nat
  <2>1. delivered \in Seq(Seq(Nat)) /\ m \in Seq(Nat) /\ delivered' = Append(delivered, m)
    BY <1>2 DEF TypeOK, m
  <2> QED
    BY <2>1, AppendProperties, LenProperties
<1>4. Cursor' = Cursor + RpcSize[Cursor]
  BY <1>2, <1>3 DEF Cursor
<1>5. DeliveredInOrder'
  <2> SUFFICES ASSUME NEW i \in 1 .. n + 1
               PROVE  LET s == IF i = 1 THEN 0 ELSE delivered'[i - 1][1] + Len(delivered'[i - 1])
                      IN s \in Starts /\ delivered'[i] = Bytes(s, RpcSize[s])
    BY <1>3 DEF DeliveredInOrder
  <2>1. CASE i <= n
    BY <2>1, <1>3 DEF DeliveredInOrder
  <2>2. CASE i = n + 1 /\ n = 0
    <3>1. Cursor = 0
      BY <2>2, EmptySeq DEF Cursor, TypeOK
    <3> QED
      BY <2>2, <3>1, <1>3 DEF m
  <2>3. CASE i = n + 1 /\ n # 0
    <3>1. delivered # << >>
      BY <2>3, EmptySeq
    <3>2. Cursor = delivered[n][1] + Len(delivered[n])
      BY <3>1 DEF Cursor
    <3>3. delivered'[i - 1] = delivered[n]
      BY <2>3, <1>3
    <3> QED
      BY <2>3, <3>2, <3>3, <1>3 DEF m
  <2>4. i <= n \/ i = n + 1
    BY <1>3
  <2> QED
    BY <2>1, <2>2, <2>3, <2>4
<1> QED
  BY <1>3, <1>4, <1>5

\* The descriptor at the head of the queue holds the bytes that come next.
LEMMA HeadOfQueue ==
  ASSUME StreamInv, queue # << >>
  PROVE  /\ desc = queue[1] /\ desc \in Desc
         /\ Front \in Nat /\ Len(desc.data) \in Nat /\ Len(desc.data) > 0
         /\ desc.data = Bytes(Front, Len(desc.data))
         /\ desc.data[1] = Front
         /\ Front + Len(desc.data) <= sent
         /\ sent <= StreamLen
         /\ \A s \in Starts : s < Front + Len(desc.data) /\ Front + Len(desc.data) < s + RpcHeader
                                => s \in cuts
<1>1. queue \in Seq(Desc) /\ Len(queue) \in Nat /\ Len(queue) >= 1
  BY EmptySeq DEF StreamInv, TypeOK
<1>2. desc = queue[1] /\ desc \in Desc
  BY <1>1, ElementOfSeq DEF desc
<1>3. Len(desc.data) \in Nat /\ Len(desc.data) > 0
  BY <1>1, <1>2, LenProperties DEF StreamInv, BytesInFlight, Desc
<1>4. Cursor \in Nat /\ Len(pending.data) \in Nat
  BY CursorBoundary, LenProperties DEF StreamInv, TypeOK
<1>5. Front \in Nat /\ First(desc) = Front
  BY <1>2, <1>4 DEF Front, StreamInv, BytesInFlight
<1>6. desc.data = Bytes(Front, Len(desc.data))
  BY <1>1, <1>2, <1>5 DEF StreamInv, BytesInFlight
<1>7. /\ After(desc) <= sent
      /\ \A s \in Starts : s < After(desc) /\ After(desc) < s + RpcHeader => s \in cuts
  BY <1>1, <1>2 DEF StreamInv, QueueOK
<1> QED
  BY <1>2, <1>3, <1>5, <1>6, <1>7 DEF First, After, StreamInv, TypeOK

\* With nothing pending, the head of the queue begins with a header.
LEMMA HeadBeginsMessage ==
  ASSUME StreamInv, queue # << >>, pending.buf = NoBuffer
  PROVE  /\ Front = Cursor
         /\ Cursor \in Starts
         /\ pending = NothingPending
         /\ Command(desc.data) = Cursor
         /\ Expected = RpcSize[Cursor]
         /\ RpcSize[Cursor] \in Nat /\ RpcSize[Cursor] >= RpcHeader
         /\ Cursor \in Nat
<1>1. pending = NothingPending
  BY DEF StreamInv, PendingOK
<1>2. Cursor \in Starts \cup {StreamLen} /\ Cursor \in Nat
  BY CursorBoundary DEF StreamInv
<1>3. Front = Cursor
  BY <1>1, <1>2, EmptySeq DEF Front, NothingPending
<1>4. Cursor # StreamLen
  BY <1>2, <1>3, HeadOfQueue DEF StreamInv, TypeOK
<1>5. Command(desc.data) = Cursor
  BY <1>3, HeadOfQueue DEF Command
<1> QED
  BY <1>1, <1>2, <1>3, <1>4, <1>5, StreamAssumption DEF Expected, get_rpc_size

-----------------------------------------------------------------------------
(* What a step does to the queue *)

QueueIsStream ==
  /\ queue \in Seq(Desc)
  /\ \A i \in 1 .. Len(queue) :
       /\ Len(queue[i].data) > 0
       /\ queue[i].data = Bytes(First(queue[i]), Len(queue[i].data))
  /\ \A i \in 1 .. Len(queue) - 1 : First(queue[i + 1]) = After(queue[i])
  /\ queue = << >> => Front = sent
  /\ queue # << >> => First(queue[1]) = Front /\ After(queue[Len(queue)]) = sent
  /\ QueueOK

\* In a state that satisfies the invariant the queue is the stream from its front on.
LEMMA QueueIsStreamNow == StreamInv => QueueIsStream
BY DEF StreamInv, TypeOK, BytesInFlight, QueueIsStream

\* The head of the queue is used up.
LEMMA TailStep ==
  ASSUME StreamInv, queue # << >>, queue' = Tail(queue),
         Front' = Front + Len(desc.data), sent' = sent, cuts' = cuts
  PROVE  QueueIsStream'
<1> DEFINE n == Len(queue)
<1>1. QueueIsStream /\ n \in Nat /\ n >= 1
  BY QueueIsStreamNow, EmptySeq DEF QueueIsStream
<1>2. /\ queue' \in Seq(Desc)
      /\ Len(queue') = n - 1
      /\ \A i \in 1 .. n - 1 : queue'[i] = queue[i + 1]
  BY <1>1, HeadTailProperties DEF QueueIsStream
<1>3. After(desc) = Front'
  BY HeadOfQueue DEF After
<1>4. \A i \in 1 .. n - 1 :
        /\ Len(queue'[i].data) > 0
        /\ queue'[i].data = Bytes(First(queue'[i]), Len(queue'[i].data))
        /\ After(queue'[i]) <= sent
        /\ \A s \in Starts : s < After(queue'[i]) /\ After(queue'[i]) < s + RpcHeader => s \in cuts
  <2> TAKE i \in 1 .. n - 1
  <2>1. i + 1 \in 1 .. Len(queue) /\ queue'[i] = queue[i + 1]
    BY <1>1, <1>2
  <2> QED
    BY <1>1, <2>1 DEF QueueIsStream, QueueOK
<1>5. \A i \in 1 .. (n - 1) - 1 : First(queue'[i + 1]) = After(queue'[i])
  <2> TAKE i \in 1 .. (n - 1) - 1
  <2>1. /\ i + 1 \in 1 .. Len(queue) - 1
        /\ queue'[i] = queue[i + 1]
        /\ queue'[i + 1] = queue[(i + 1) + 1]
    BY <1>1, <1>2
  <2> QED
    BY <1>1, <2>1 DEF QueueIsStream
<1>6. ASSUME queue' = << >> PROVE Front' = sent
  <2>1. Len(queue') = 0
    BY <1>6, EmptySeq
  <2>2. n = 1
    BY <1>1, <1>2, <2>1
  <2> QED
    BY <1>1, <1>3, <2>2, HeadOfQueue DEF QueueIsStream
<1>7. queue' # << >> => First(queue'[1]) = Front' /\ After(queue'[n - 1]) = sent
  <2> HAVE queue' # << >>
  <2>1. n - 1 >= 1
    BY <1>1, <1>2, EmptySeq
  <2>2. queue'[1] = queue[1 + 1] /\ queue'[n - 1] = queue[n] /\ 1 \in 1 .. Len(queue) - 1
    BY <1>1, <1>2, <2>1
  <2>3. First(queue[1 + 1]) = After(queue[1])
    BY <1>1, <2>2 DEF QueueIsStream
  <2> QED
    BY <1>1, <1>3, <2>2, <2>3, HeadOfQueue DEF QueueIsStream
<1> QED
  BY <1>1, <1>2, <1>4, <1>5, <1>6, <1>7 DEF QueueIsStream, QueueOK, First, After

\* move_data at its source descriptor.
LEMMA DropBytes ==
  ASSUME NEW x \in Desc, NEW s \in Nat, NEW k \in Nat, k <= Len(x.data),
         x.data = Bytes(s, Len(x.data))
  PROVE  /\ Drop(x, k) \in Desc
         /\ Drop(x, k).buf = x.buf
         /\ Drop(x, k).data = Bytes(s + k, Len(x.data) - k)
         /\ Len(Drop(x, k).data) = Len(x.data) - k
<1>1. x.data \in Seq(Nat) /\ x.off \in Nat /\ x.buf \in Buffers
  BY DEF Desc
<1>2. Len(x.data) \in Nat
  BY <1>1, LenProperties
<1>3. SubSeq(x.data, k + 1, Len(x.data)) = Bytes(s + k, Len(x.data) - k)
  <2> DEFINE n == Len(x.data)
  <2>1. n \in Nat /\ k \in 0 .. n
    BY <1>2
  <2> HIDE DEF n
  <2>2. SubSeq(Bytes(s, n), k + 1, n) = Bytes(s + k, n - k)
    BY <2>1, BytesRest
  <2> QED
    BY <2>2, Zenon DEF n
<1>4. s + k \in Nat /\ Len(x.data) - k \in Nat /\ x.off + k \in Nat
  BY <1>1, <1>2
<1>5. /\ Bytes(s + k, Len(x.data) - k) \in Seq(Nat)
      /\ Len(Bytes(s + k, Len(x.data) - k)) = Len(x.data) - k
  BY <1>4, BytesProperties
<1> QED
  BY <1>1, <1>3, <1>4, <1>5 DEF Desc, Drop

\* The first k bytes of the head of the queue are used up, not all.
LEMMA RestStep ==
  ASSUME StreamInv, queue # << >>, NEW k \in Nat, k < Len(desc.data),
         queue' = [queue EXCEPT ![1] = Drop(desc, k)],
         Front' = Front + k, sent' = sent, cuts' = cuts
  PROVE  QueueIsStream'
<1> DEFINE n == Len(queue)
           r == Drop(desc, k)
<1>1. QueueIsStream /\ n \in Nat /\ n >= 1 /\ 1 \in 1 .. n
  BY QueueIsStreamNow, EmptySeq DEF QueueIsStream
<1>2. /\ r.data = Bytes(Front + k, Len(desc.data) - k)
      /\ r \in Desc
      /\ Len(r.data) = Len(desc.data) - k
      /\ r.data[1] = Front + k
  <2>1. /\ Front \in Nat /\ Len(desc.data) \in Nat /\ desc \in Desc
        /\ desc.data = Bytes(Front, Len(desc.data))
    BY HeadOfQueue
  <2>2. /\ r.data = Bytes(Front + k, Len(desc.data) - k)
        /\ r \in Desc
        /\ Len(r.data) = Len(desc.data) - k
    BY <2>1, DropBytes
  <2>3. Front + k \in Nat /\ Len(desc.data) - k \in Nat /\ Len(desc.data) - k > 0
    BY <2>1
  <2>4. Bytes(Front + k, Len(desc.data) - k)[1] = Front + k
    BY <2>3, BytesFirst
  <2> QED
    BY <2>2, <2>4
<1> HIDE DEF r
<1>3. /\ First(r) = Front' /\ After(r) = After(desc)
      /\ Len(r.data) > 0 /\ r.data = Bytes(First(r), Len(r.data))
  <2>1. First(r) = Front + k /\ r.data = Bytes(Front + k, Len(r.data))
    BY <1>2, Zenon DEF First
  <2>2. /\ Len(r.data) = Len(desc.data) - k /\ r.data[1] = Front + k
        /\ Len(desc.data) \in Nat /\ Front \in Nat /\ desc.data[1] = Front
    BY <1>2, HeadOfQueue, Zenon
  <2>3. /\ After(r) = (Front + k) + (Len(desc.data) - k)
        /\ After(desc) = Front + Len(desc.data)
    BY <2>2, Zenon DEF After
  <2>4. Len(r.data) > 0
    BY <2>2
  <2>5. (Front + k) + (Len(desc.data) - k) = Front + Len(desc.data)
    <3>1. \A a, b, c \in Nat : (a + c) + (b - c) = a + b
      OBVIOUS
    <3> QED
      BY <2>2, <3>1, Zenon
  <2> QED
    BY <2>1, <2>3, <2>4, <2>5
<1>4. /\ queue' \in Seq(Desc)
      /\ Len(queue') = n
      /\ \A i \in 1 .. n : queue'[i] = IF i = 1 THEN r ELSE queue[i]
  BY <1>1, <1>2, ExceptSeq DEF QueueIsStream, r
<1>5. \A i \in 1 .. n : After(queue'[i]) = After(queue[i])
  BY <1>3, <1>4, HeadOfQueue
<1>6. \A i \in 1 .. n : /\ Len(queue'[i].data) > 0
                        /\ queue'[i].data = Bytes(First(queue'[i]), Len(queue'[i].data))
  <2> TAKE i \in 1 .. n
  <2>1. CASE i = 1
    BY <2>1, <1>3, <1>4
  <2>2. CASE i # 1
    BY <2>2, <1>1, <1>4 DEF QueueIsStream
  <2> QED BY <2>1, <2>2
<1>7. \A i \in 1 .. n - 1 : First(queue'[i + 1]) = After(queue'[i])
  BY <1>1, <1>4, <1>5 DEF QueueIsStream
<1>8. queue' # << >> /\ First(queue'[1]) = Front' /\ After(queue'[n]) = sent
  BY <1>1, <1>3, <1>4, <1>5, EmptySeq DEF QueueIsStream
<1>9. QueueOK'
  BY <1>1, <1>4, <1>5 DEF QueueIsStream, QueueOK, After
<1> QED
  BY <1>4, <1>6, <1>7, <1>8, <1>9 DEF QueueIsStream, First, After

\* The peer adds a descriptor at the end.
LEMMA ArriveStep ==
  ASSUME StreamInv, NEW n \in 1 .. StreamLen, Arrive(n)
  PROVE  StreamInv'
<1> DEFINE new(b) == [buf |-> b, off |-> Headroom, data |-> Bytes(sent, n)]
           len == Len(queue)
<1>1. PICK b \in free : queue' = Append(queue, new(b)) /\ free' = free \ {b}
  BY DEF Arrive
<1>2. /\ Bytes(sent, n) \in Seq(Nat) /\ Len(Bytes(sent, n)) = n /\ Bytes(sent, n)[1] = sent
      /\ sent \in Nat /\ n \in Nat /\ n > 0
  <2>1. sent \in Nat /\ n \in Nat /\ n > 0
    BY StreamAssumption DEF StreamInv, TypeOK
  <2> QED
    BY <2>1, BytesProperties, BytesFirst
<1>3. /\ new(b) \in Desc /\ First(new(b)) = sent /\ After(new(b)) = sent + n
      /\ Len(new(b).data) = n /\ new(b).data = Bytes(sent, n)
  BY <1>1, <1>2, BufferAssumption DEF Desc, First, After, StreamInv, TypeOK
<1> HIDE DEF new
<1>4. /\ sent' = sent + n /\ sent' \in 0 .. StreamLen
      /\ cuts' = cuts \cup {s \in Starts : s < sent + n /\ sent + n < s + RpcHeader}
      /\ UNCHANGED <<pending, app, delivered, lost, status>>
  BY <1>2, StreamAssumption DEF Arrive, StreamInv, TypeOK
<1>5. Cursor' = Cursor /\ Front' = Front /\ DeliveredInOrder'
  BY <1>4 DEF Cursor, Front, DeliveredInOrder, StreamInv
<1>6. QueueIsStream /\ len \in Nat /\ (queue # << >> => len >= 1)
  BY QueueIsStreamNow, EmptySeq, LenProperties DEF QueueIsStream
<1>7. /\ queue' \in Seq(Desc) /\ queue' # << >> /\ Len(queue') = len + 1
      /\ \A i \in 1 .. len : queue'[i] = queue[i]
      /\ queue'[len + 1] = new(b)
  BY <1>1, <1>3, <1>6, AppendProperties DEF QueueIsStream
<1>8. TypeOK'
  BY <1>1, <1>4, <1>7 DEF TypeOK, StreamInv
<1>9. PendingOK'
  BY <1>4, <1>5 DEF PendingOK, StreamInv, NothingPending
<1>10. \A i \in 1 .. len + 1 :
         /\ Len(queue'[i].data) > 0
         /\ queue'[i].data = Bytes(First(queue'[i]), Len(queue'[i].data))
         /\ After(queue'[i]) <= sent'
         /\ \A s \in Starts : s < After(queue'[i]) /\ After(queue'[i]) < s + RpcHeader => s \in cuts'
  <2> TAKE i \in 1 .. len + 1
  <2>1. CASE i = len + 1
    BY <2>1, <1>2, <1>3, <1>4, <1>7
  <2>2. CASE i # len + 1
    <3>1. i \in 1 .. Len(queue) /\ queue'[i] = queue[i]
      BY <2>2, <1>6, <1>7
    <3>2. After(queue[i]) \in Int
      <4>1. queue[i] \in Desc /\ Len(queue[i].data) \in Nat /\ Len(queue[i].data) > 0
        <5>1. queue[i] \in Desc /\ Len(queue[i].data) > 0
          BY <3>1, <1>6, ElementOfSeq DEF QueueIsStream
        <5>2. queue[i].data \in Seq(Nat)
          BY <5>1 DEF Desc
        <5> QED
          BY <5>1, <5>2, LenProperties
      <4>2. queue[i].data[1] \in Nat
        <5>1. queue[i].data \in Seq(Nat) /\ 1 \in 1 .. Len(queue[i].data)
          BY <4>1 DEF Desc
        <5> QED
          BY <5>1, ElementOfSeq
      <4> QED
        BY <4>1, <4>2 DEF After
    <3> QED
      BY <3>1, <3>2, <1>2, <1>4, <1>6 DEF QueueIsStream, QueueOK
  <2> QED BY <2>1, <2>2
<1>11. \A i \in 1 .. (len + 1) - 1 : First(queue'[i + 1]) = After(queue'[i])
  <2> TAKE i \in 1 .. (len + 1) - 1
  <2>1. CASE i = len
    <3>1. queue # << >> /\ After(queue[len]) = sent
      BY <2>1, <1>6, EmptySeq DEF QueueIsStream
    <3> QED
      BY <2>1, <3>1, <1>3, <1>6, <1>7
  <2>2. CASE i # len
    BY <2>2, <1>6, <1>7 DEF QueueIsStream
  <2> QED BY <2>1, <2>2
<1>12. First(queue'[1]) = Front' /\ After(queue'[len + 1]) = sent'
  <2>1. CASE queue = << >>
    <3>1. len = 0 /\ Front = sent
      BY <2>1, <1>6, EmptySeq DEF QueueIsStream
    <3> QED
      BY <3>1, <1>3, <1>4, <1>5, <1>7
  <2>2. CASE queue # << >>
    BY <2>2, <1>3, <1>4, <1>5, <1>6, <1>7 DEF QueueIsStream
  <2> QED BY <2>1, <2>2
<1>13. pending'.data = Bytes(Cursor', Len(pending'.data))
  BY <1>4, <1>5 DEF StreamInv, BytesInFlight
<1>14. BytesInFlight' /\ QueueOK'
  BY <1>7, <1>10, <1>11, <1>12, <1>13 DEF BytesInFlight, QueueOK, First, After
<1> QED
  BY <1>5, <1>8, <1>9, <1>14 DEF StreamInv

-----------------------------------------------------------------------------
(* The branches of process_desc *)

\* The invariant from its parts, in the next state.
LEMMA Assemble ==
  ASSUME TypeOK', DeliveredInOrder', QueueIsStream', PendingOK',
         pending'.data = Bytes(Cursor', Len(pending'.data))
  PROVE  StreamInv'
BY DEF StreamInv, BytesInFlight, QueueIsStream

\* The empty range.
LEMMA BytesEmpty == \A s \in Nat : Bytes(s, 0) = << >>
<1> TAKE s \in Nat
<1>1. Bytes(s, 0) \in Seq(Nat) /\ Len(Bytes(s, 0)) = 0
  BY BytesProperties
<1> QED
  BY <1>1, EmptySeq

\* The message is delivered, and nothing is pending afterwards.
LEMMA AfterDelivery ==
  ASSUME StreamInv, Cursor \in Starts, NEW buf \in Buffers,
         Deliver(buf, Bytes(Cursor, RpcSize[Cursor])),
         QueueIsStream', UNCHANGED <<sent, cuts, status>>,
         free' \subseteq Buffers, lost' \subseteq Buffers
  PROVE  StreamInv'
<1>1. DeliveredInOrder' /\ Cursor' = Cursor + RpcSize[Cursor] /\ delivered' \in Seq(Seq(Nat))
  BY DeliverMessage DEF StreamInv, Deliver
<1>2. pending' = NothingPending
  BY DEF Deliver
<1>3. TypeOK'
  BY <1>1, <1>2, EmptySeq DEF TypeOK, StreamInv, Deliver, NothingPending, QueueIsStream
<1>4. PendingOK'
  BY <1>2, BufferAssumption DEF PendingOK, NothingPending
<1>5. Cursor' \in Nat
  BY <1>1, StreamAssumption
<1>6. pending'.data = Bytes(Cursor', Len(pending'.data))
  BY <1>2, <1>5, BytesEmpty, EmptySeq DEF NothingPending
<1> QED
  BY <1>1, <1>3, <1>4, <1>6, Assemble

\* Where the queue begins after a delivery.
LEMMA FrontAfterDelivery ==
  ASSUME StreamInv, Cursor \in Starts, NEW buf,
         Deliver(buf, Bytes(Cursor, RpcSize[Cursor]))
  PROVE  Front' = Cursor + RpcSize[Cursor]
<1>1. Cursor' = Cursor + RpcSize[Cursor] /\ pending' = NothingPending
  BY DeliverMessage DEF StreamInv, Deliver
<1>2. RpcSize[Cursor] \in Nat /\ Cursor \in Nat
  BY StreamAssumption
<1> QED
  BY <1>1, <1>2, EmptySeq DEF Front, NothingPending

\* The first n bytes of the message at the cursor are pending.
LEMMA AfterKeep ==
  ASSUME StreamInv, NEW p, NEW n \in Nat, Keep(p), QueueIsStream',
         p \in [buf : Buffers, off : Nat, data : Seq(Nat), expected : Nat],
         p.data = Bytes(Cursor, n), n > 0,
         Cursor \in Starts,
         p.expected = 0 => n <= RpcHeader /\ Cursor \in cuts,
         p.expected # 0 => /\ p.expected = RpcSize[Cursor]
                           /\ n < p.expected
                           /\ p.off + p.expected <= BufferSize,
         UNCHANGED <<sent, cuts, status>>,
         free' \subseteq Buffers, lost' \subseteq Buffers
  PROVE  StreamInv'
<1>1. pending' = p /\ UNCHANGED <<delivered, app>>
  BY DEF Keep
<1>2. Cursor' = Cursor /\ DeliveredInOrder' /\ Cursor \in Nat
  BY <1>1, StreamAssumption DEF Cursor, DeliveredInOrder, StreamInv
<1>3. Len(p.data) = n
  BY <1>2, BytesProperties
<1>4. TypeOK'
  BY <1>1 DEF TypeOK, StreamInv, QueueIsStream
<1>5. PendingOK'
  BY <1>1, <1>2, <1>3, BufferAssumption DEF PendingOK
<1> QED
  BY <1>1, <1>2, <1>3, <1>4, <1>5, Assemble

\* Where the queue begins after bytes were moved to the pending buffer.
LEMMA FrontAfterKeep ==
  ASSUME NEW p, NEW n \in Nat, Keep(p), Cursor \in Nat, p.data = Bytes(Cursor, n)
  PROVE  Front' = Cursor + n
<1>1. pending' = p /\ Cursor' = Cursor
  BY DEF Keep, Cursor
<1>2. Len(p.data) = n
  BY BytesProperties
<1> QED
  BY <1>1, <1>2 DEF Front

\* A part shorter than a header becomes pending (service.h:169).
LEMMA KeepShortStep == ASSUME StreamInv, KeepShort PROVE StreamInv'
<1> DEFINE p == [buf |-> desc.buf, off |-> desc.off, data |-> desc.data,
                 expected |-> pending.expected]
           n == Len(desc.data)
<1>1. queue # << >> /\ pending.buf = NoBuffer
  BY DEF KeepShort, Processing
<1>2. /\ desc \in Desc /\ n \in Nat /\ n > 0 /\ desc.data = Bytes(Cursor, n)
      /\ Front = Cursor /\ Cursor \in Starts /\ Cursor \in Nat /\ pending.expected = 0
      /\ Cursor + n < Cursor + RpcHeader => Cursor \in cuts
  BY <1>1, HeadOfQueue, HeadBeginsMessage DEF NothingPending
<1>3. Keep(p) /\ queue' = Tail(queue) /\ UNCHANGED <<sent, free, lost, cuts, status>>
  BY DEF KeepShort
<1>4. n < RpcHeader /\ RpcHeader \in Nat
  BY StreamAssumption DEF KeepShort, LacksHeader
<1>5. /\ p \in [buf : Buffers, off : Nat, data : Seq(Nat), expected : Nat]
      /\ p.data = Bytes(Cursor, n) /\ p.expected = 0
  BY <1>2 DEF Desc
<1> HIDE DEF p
<1>6. Front' = Front + n
  BY <1>2, <1>3, <1>5, FrontAfterKeep
<1>7. QueueIsStream'
  BY <1>1, <1>3, <1>6, TailStep
<1>8. n <= RpcHeader /\ Cursor \in cuts
  BY <1>2, <1>4
<1>9. free' \subseteq Buffers /\ lost' \subseteq Buffers
  BY <1>3 DEF StreamInv, TypeOK
<1> QED
  BY <1>2, <1>3, <1>5, <1>7, <1>8, <1>9, AfterKeep

\* A descriptor that is exactly one message is delivered (service.h:178).
LEMMA TakeWholeStep == ASSUME StreamInv, TakeWhole PROVE StreamInv'
<1> DEFINE n == Len(desc.data)
<1>1. queue # << >> /\ pending.buf = NoBuffer
  BY DEF TakeWhole, Readable, HeaderIn, Processing
<1>2. /\ desc \in Desc /\ desc.data = Bytes(Cursor, n) /\ n = RpcSize[Cursor]
      /\ Front = Cursor /\ Cursor \in Starts
  BY <1>1, HeadOfQueue, HeadBeginsMessage DEF TakeWhole
<1>3. /\ Deliver(desc.buf, desc.data) /\ queue' = Tail(queue)
      /\ UNCHANGED <<sent, free, lost, cuts, status>>
  BY DEF TakeWhole
<1>4. Deliver(desc.buf, Bytes(Cursor, RpcSize[Cursor])) /\ desc.buf \in Buffers
  BY <1>2, <1>3 DEF Desc
<1>5. Front' = Front + n
  BY <1>2, <1>4, FrontAfterDelivery
<1>6. QueueIsStream'
  BY <1>1, <1>3, <1>5, TailStep
<1>7. free' \subseteq Buffers /\ lost' \subseteq Buffers
  BY <1>3 DEF StreamInv, TypeOK
<1> QED
  BY <1>2, <1>3, <1>4, <1>6, <1>7, AfterDelivery

\* A partial message stays in its own buffer (service.h:184).
LEMMA KeepInPlaceStep == ASSUME StreamInv, KeepInPlace PROVE StreamInv'
<1> DEFINE p == [buf |-> desc.buf, off |-> desc.off, data |-> desc.data, expected |-> Expected]
           n == Len(desc.data)
<1>1. queue # << >> /\ pending.buf = NoBuffer
  BY DEF KeepInPlace, Readable, HeaderIn, Processing
<1>2. /\ desc \in Desc /\ n \in Nat /\ n > 0 /\ desc.data = Bytes(Cursor, n)
      /\ Front = Cursor /\ Cursor \in Starts /\ Cursor \in Nat
      /\ Expected = RpcSize[Cursor] /\ Expected \in Nat /\ Expected # 0
  BY <1>1, HeadOfQueue, HeadBeginsMessage, StreamAssumption
<1>3. /\ Keep(p) /\ queue' = Tail(queue) /\ UNCHANGED <<sent, free, lost, cuts, status>>
      /\ n < Expected /\ BufferSize - desc.off >= Expected
  BY DEF KeepInPlace, RoomAt
<1>4. desc.off + Expected <= BufferSize
  BY <1>2, <1>3, BufferAssumption DEF Desc
<1>5. /\ p \in [buf : Buffers, off : Nat, data : Seq(Nat), expected : Nat]
      /\ p.data = Bytes(Cursor, n) /\ p.expected = Expected /\ p.off = desc.off
  BY <1>2 DEF Desc
<1> HIDE DEF p
<1>6. Front' = Front + n
  BY <1>2, <1>3, <1>5, FrontAfterKeep
<1>7. QueueIsStream'
  BY <1>1, <1>3, <1>6, TailStep
<1>8. free' \subseteq Buffers /\ lost' \subseteq Buffers
  BY <1>3 DEF StreamInv, TypeOK
<1> QED
  BY <1>2, <1>3, <1>4, <1>5, <1>7, <1>8, AfterKeep

\* Bytes taken from the head of the queue into a buffer just obtained.
LEMMA ExtendFromPool ==
  ASSUME StreamInv, queue # << >>, pending.buf = NoBuffer,
         NEW b \in Buffers, NEW k \in 0 .. Len(desc.data)
  PROVE  Extend(FromPool(b), desc, k)
           = [buf |-> b, off |-> Headroom, data |-> Bytes(Cursor, k), expected |-> Expected]
<1>1. /\ Cursor \in Nat /\ Len(desc.data) \in Nat
      /\ desc.data = Bytes(Cursor, Len(desc.data))
  BY HeadOfQueue, HeadBeginsMessage
<1>2. Bytes(Cursor, 0) \o SubSeq(Bytes(Cursor + 0, Len(desc.data)), 1, k) = Bytes(Cursor, 0 + k)
  BY <1>1, BytesMoved
<1>3. << >> \o SubSeq(desc.data, 1, k) = Bytes(Cursor, k)
  <2>1. Cursor + 0 = Cursor /\ 0 + k = k /\ Bytes(Cursor, 0) = << >>
    BY <1>1, BytesEmpty
  <2> QED
    BY <1>1, <1>2, <2>1
<1> DEFINE e == Expected
           new == SubSeq(desc.data, 1, k)
<1>4. Extend(FromPool(b), desc, k)
        = [[buf |-> b, off |-> Headroom, data |-> << >>, expected |-> e]
             EXCEPT !.data = << >> \o new]
  BY DEF Extend, FromPool
<1> HIDE DEF e, new
<1>5. [[buf |-> b, off |-> Headroom, data |-> << >>, expected |-> e] EXCEPT !.data = << >> \o new]
        = [buf |-> b, off |-> Headroom, data |-> << >> \o new, expected |-> e]
  OBVIOUS
<1> QED
  BY <1>3, <1>4, <1>5 DEF e, new

\* A partial message moves to a buffer that can hold it (service.h:189).
LEMMA RelocateStep == ASSUME StreamInv, Relocate PROVE StreamInv'
<1> DEFINE n == Len(desc.data)
           p(b) == [buf |-> b, off |-> Headroom, data |-> Bytes(Cursor, n), expected |-> Expected]
<1>1. queue # << >> /\ pending.buf = NoBuffer
  BY DEF Relocate, Readable, HeaderIn, Processing
<1>2. /\ desc \in Desc /\ n \in Nat /\ n > 0
      /\ Front = Cursor /\ Cursor \in Starts /\ Cursor \in Nat
      /\ Expected = RpcSize[Cursor] /\ Expected \in Nat /\ Expected # 0
  BY <1>1, HeadOfQueue, HeadBeginsMessage, StreamAssumption
<1>3. PICK b \in free : Keep(Extend(FromPool(b), desc, n)) /\ free' = free \ {b}
  BY DEF Relocate
<1>4. b \in Buffers
  BY <1>3 DEF StreamInv, TypeOK
<1>5. Keep(p(b))
  BY <1>1, <1>2, <1>3, <1>4, ExtendFromPool
<1>6. /\ queue' = Tail(queue) /\ UNCHANGED <<sent, cuts, status>>
      /\ lost' = lost \cup {desc.buf} /\ n < Expected
  BY DEF Relocate
<1>7. /\ p(b) \in [buf : Buffers, off : Nat, data : Seq(Nat), expected : Nat]
      /\ p(b).data = Bytes(Cursor, n) /\ p(b).expected = Expected /\ p(b).off = Headroom
  BY <1>2, <1>4, BytesProperties, BufferAssumption
<1> HIDE DEF p
<1>8. Front' = Front + n
  BY <1>2, <1>5, <1>7, FrontAfterKeep
<1>9. QueueIsStream'
  BY <1>1, <1>6, <1>8, TailStep
<1>10. free' \subseteq Buffers /\ lost' \subseteq Buffers
  BY <1>2, <1>3, <1>6 DEF StreamInv, TypeOK, Desc
<1>11. Headroom + Expected <= BufferSize
  BY <1>2, StreamAssumption
<1> QED
  BY <1>2, <1>5, <1>6, <1>7, <1>9, <1>10, <1>11, AfterKeep

\* A message is split off a longer descriptor (service.h:203).
LEMMA SplitOffStep == ASSUME StreamInv, SplitOff PROVE StreamInv'
<1> DEFINE n == Len(desc.data)
<1>1. queue # << >> /\ pending.buf = NoBuffer
  BY DEF SplitOff, Readable, HeaderIn, Processing
<1>2. /\ desc \in Desc /\ n \in Nat /\ desc.data = Bytes(Cursor, n)
      /\ Front = Cursor /\ Cursor \in Starts /\ Cursor \in Nat
      /\ Expected = RpcSize[Cursor] /\ Expected \in Nat /\ Expected < n
  BY <1>1, HeadOfQueue, HeadBeginsMessage, StreamAssumption DEF SplitOff
<1>3. PICK b \in free : /\ Deliver(b, Extend(FromPool(b), desc, Expected).data)
                        /\ free' = free \ {b}
  BY DEF SplitOff
<1>4. b \in Buffers
  BY <1>3 DEF StreamInv, TypeOK
<1>5. Extend(FromPool(b), desc, Expected).data = Bytes(Cursor, RpcSize[Cursor])
  BY <1>1, <1>2, <1>4, ExtendFromPool
<1>6. Deliver(b, Bytes(Cursor, RpcSize[Cursor]))
  BY <1>3, <1>5
<1>7. queue' = [queue EXCEPT ![1] = Drop(desc, Expected)]
  <2>1. Len(Drop(desc, Expected).data) = n - Expected
    BY <1>2, DropBytes
  <2>2. Len(Drop(desc, Expected).data) # 0
    BY <2>1, <1>2
  <2> QED
    BY <2>2 DEF SplitOff, Advance
<1>8. Front' = Front + Expected
  BY <1>2, <1>6, FrontAfterDelivery
<1>9. UNCHANGED <<sent, lost, cuts, status>>
  BY DEF SplitOff
<1>10. QueueIsStream'
  BY <1>1, <1>2, <1>7, <1>8, <1>9, RestStep
<1>11. free' \subseteq Buffers /\ lost' \subseteq Buffers
  BY <1>3, <1>9 DEF StreamInv, TypeOK
<1> QED
  BY <1>2, <1>4, <1>6, <1>9, <1>10, <1>11, AfterDelivery

\* What to_copy amounts to when something is pending.
LEMMA ToCopyBounds ==
  ASSUME StreamInv, queue # << >>, pending.buf # NoBuffer
  PROVE  /\ Needed \in Nat
         /\ ToCopy \in 0 .. Len(desc.data)
         /\ ToCopy <= Needed
<1>1. Len(pending.data) \in Nat /\ pending.expected \in Nat
  BY LenProperties DEF StreamInv, TypeOK
<1>2. Needed \in Nat
  BY <1>1, StreamAssumption DEF Needed, StreamInv, PendingOK
<1> QED
  BY <1>2, HeadOfQueue DEF ToCopy

\* The pending message after the copy.
LEMMA ExtendPending ==
  ASSUME StreamInv, queue # << >>, pending.buf # NoBuffer
  PROVE  LET p == Extend(pending, desc, ToCopy)
             n == Len(pending.data)
         IN /\ p = [pending EXCEPT !.data = Bytes(Cursor, n + ToCopy)]
            /\ p.data = Bytes(Cursor, n + ToCopy)
            /\ Len(p.data) = n + ToCopy
            /\ n \in Nat /\ n > 0 /\ n + ToCopy \in Nat
            /\ Cursor \in Starts /\ Cursor \in Nat
            /\ ExpectedAfter(p) = pending.expected
<1> DEFINE p == Extend(pending, desc, ToCopy)
           n == Len(pending.data)
<1>1. /\ n \in Nat /\ n > 0 /\ Cursor \in Starts /\ Cursor \in Nat
      /\ pending.data = Bytes(Cursor, n) /\ pending.expected \in Nat
  <2>1. n \in Nat /\ pending.expected \in Nat
    BY LenProperties DEF StreamInv, TypeOK
  <2>2. n > 0 /\ Cursor \in Starts /\ pending.data = Bytes(Cursor, n)
    BY DEF StreamInv, PendingOK, BytesInFlight
  <2> QED
    BY <2>1, <2>2, StreamAssumption
<1>2. ToCopy \in 0 .. Len(desc.data) /\ Len(desc.data) \in Nat /\ n + ToCopy \in Nat
  BY <1>1, ToCopyBounds, HeadOfQueue
<1>3. desc.data = Bytes(Cursor + n, Len(desc.data))
  BY HeadOfQueue DEF Front
<1>4. Bytes(Cursor, n) \o SubSeq(Bytes(Cursor + n, Len(desc.data)), 1, ToCopy)
        = Bytes(Cursor, n + ToCopy)
  <2> DEFINE s == Cursor
             m == Len(desc.data)
             k == ToCopy
  <2>1. s \in Nat /\ n \in Nat /\ m \in Nat /\ k \in 0 .. m
    BY <1>1, <1>2
  <2> HIDE DEF s, n, m, k
  <2>2. Bytes(s, n) \o SubSeq(Bytes(s + n, m), 1, k) = Bytes(s, n + k)
    BY <2>1, BytesMoved
  <2> QED
    BY <2>2, Zenon DEF s, m, k
<1>5. pending.data \o SubSeq(desc.data, 1, ToCopy) = Bytes(Cursor, n + ToCopy)
  BY <1>1, <1>3, <1>4, Zenon
<1>6. p = [pending EXCEPT !.data = Bytes(Cursor, n + ToCopy)]
  BY <1>5 DEF Extend
<1>7. p.data = Bytes(Cursor, n + ToCopy) /\ p.expected = pending.expected
  BY <1>6 DEF StreamInv, TypeOK
<1>8. Len(p.data) = n + ToCopy
  BY <1>1, <1>2, <1>7, BytesProperties
<1>9. ExpectedAfter(p) = pending.expected
  <2>1. pending.expected = 0 => n + ToCopy <= RpcHeader
    BY <1>1, <1>2, ToCopyBounds, StreamAssumption DEF Needed
  <2> HIDE DEF p
  <2> QED
    BY <1>2, <1>7, <1>8, <2>1, StreamAssumption DEF ExpectedAfter
<1> QED
  BY <1>1, <1>2, <1>6, <1>7, <1>8, <1>9

\* A descriptor continues the pending message (service.h:216).
LEMMA ContinueStep == ASSUME StreamInv, Continue PROVE StreamInv'
<1> DEFINE p == Extend(pending, desc, ToCopy)
           n == Len(pending.data)
           k == ToCopy
           rest == Drop(desc, ToCopy)
           kept == [p EXCEPT !.expected = pending.expected]
<1>1. queue # << >> /\ pending.buf # NoBuffer
  BY DEF Continue, Processing
<1>2. /\ p = [pending EXCEPT !.data = Bytes(Cursor, n + k)]
      /\ p.data = Bytes(Cursor, n + k)
      /\ Len(p.data) = n + k
      /\ n \in Nat /\ n > 0 /\ n + k \in Nat
      /\ Cursor \in Starts /\ Cursor \in Nat
      /\ ExpectedAfter(p) = pending.expected
  BY <1>1, ExtendPending
<1>3. k \in 0 .. Len(desc.data) /\ k \in Nat /\ k <= Needed /\ Len(desc.data) \in Nat
  BY <1>1, ToCopyBounds, HeadOfQueue
<1>4. /\ rest.buf = desc.buf /\ Len(rest.data) = Len(desc.data) - k
      /\ desc \in Desc
  BY <1>1, <1>3, HeadOfQueue, DropBytes
<1>5. /\ IF n + k = pending.expected THEN Deliver(p.buf, p.data) ELSE Keep(kept)
      /\ queue' = Advance(rest)
      /\ free' = PutIfEmptied(rest)
      /\ UNCHANGED <<sent, lost, cuts, status>>
  BY <1>2 DEF Continue
<1>6. free' \subseteq Buffers /\ lost' \subseteq Buffers
  <2> HIDE DEF rest
  <2> QED
    BY <1>4, <1>5 DEF PutIfEmptied, StreamInv, TypeOK, Desc
<1>7. ASSUME Front' = Front + k PROVE QueueIsStream'
  <2>1. CASE k = Len(desc.data)
    <3>1. queue' = Tail(queue)
      BY <1>3, <1>4, <1>5, <2>1 DEF Advance
    <3> QED
      BY <1>1, <1>5, <1>7, <2>1, <3>1, TailStep
  <2>2. CASE k # Len(desc.data)
    <3>1. queue' = [queue EXCEPT ![1] = Drop(desc, k)] /\ k < Len(desc.data)
      BY <1>3, <1>4, <1>5, <2>2 DEF Advance
    <3> QED
      BY <1>1, <1>3, <1>5, <1>7, <3>1, RestStep
  <2> QED BY <2>1, <2>2
<1>8. p.buf \in Buffers /\ pending.expected \in Nat /\ p.off = pending.off
  BY <1>1, <1>2 DEF StreamInv, TypeOK
<1>9. CASE n + k = pending.expected
  <2>1. pending.expected = RpcSize[Cursor]
    BY <1>1, <1>2, <1>3, <1>9 DEF StreamInv, PendingOK
  <2>2. Deliver(p.buf, Bytes(Cursor, RpcSize[Cursor]))
    BY <1>2, <1>5, <1>9, <2>1
  <2>3. Front' = Cursor + (n + k)
    BY <1>2, <1>9, <2>1, <2>2, FrontAfterDelivery
  <2>4. Front' = Front + k
    BY <1>2, <1>3, <2>3 DEF Front
  <2> QED
    BY <1>2, <1>5, <1>6, <1>7, <1>8, <2>2, <2>4, AfterDelivery
<1>10. CASE n + k # pending.expected
  <2>1. /\ kept = [pending EXCEPT !.data = Bytes(Cursor, n + k)]
        /\ kept.data = Bytes(Cursor, n + k)
        /\ kept.expected = pending.expected /\ kept.off = pending.off
    BY <1>2 DEF StreamInv, TypeOK
  <2>2. Keep(kept)
    BY <1>5, <1>10
  <2>3. kept \in [buf : Buffers, off : Nat, data : Seq(Nat), expected : Nat]
    <3>1. Bytes(Cursor, n + k) \in Seq(Nat)
      BY <1>2, BytesProperties
    <3>2. pending \in [buf : Buffers, off : Nat, data : Seq(Nat), expected : Nat]
      BY <1>1 DEF StreamInv, TypeOK
    <3> HIDE DEF kept
    <3> QED
      BY <2>1, <3>1, <3>2
  <2> HIDE DEF kept
  <2>4. Front' = Cursor + (n + k)
    BY <1>2, <2>1, <2>2, FrontAfterKeep
  <2>5. Front' = Front + k
    BY <1>2, <1>3, <2>4 DEF Front
  <2>6. pending.expected = 0 => n + k <= RpcHeader /\ Cursor \in cuts
    BY <1>1, <1>2, <1>3, StreamAssumption DEF Needed, StreamInv, PendingOK
  <2>7. pending.expected # 0 => /\ pending.expected = RpcSize[Cursor]
                                /\ n + k < pending.expected
                                /\ pending.off + pending.expected <= BufferSize
    BY <1>1, <1>2, <1>3, <1>8, <1>10 DEF Needed, StreamInv, PendingOK
  <2>8. n + k > 0
    BY <1>2, <1>3
  <2> HIDE DEF n, k
  <2> QED
    BY <1>2, <1>5, <1>6, <1>7, <2>1, <2>2, <2>3, <2>5, <2>6, <2>7, <2>8, AfterKeep
<1> QED
  BY <1>9, <1>10

\* Steps that touch neither the stream nor the pending message.
LEMMA QuietStep ==
  ASSUME StreamInv, UNCHANGED <<sent, queue, pending, delivered, cuts>>,
         free' \subseteq Buffers, app' \subseteq Buffers, lost' \subseteq Buffers,
         status' \in {"run", "exit"}
  PROVE  StreamInv'
<1>1. Cursor' = Cursor /\ Front' = Front
  BY DEF Cursor, Front
<1> QED
  BY <1>1 DEF StreamInv, TypeOK, DeliveredInOrder, BytesInFlight, PendingOK, QueueOK,
              NothingPending, First, After

\* The invariant holds before anything is received.
LEMMA StreamInvInit == Init => StreamInv
<1> SUFFICES ASSUME Init PROVE StreamInv
  OBVIOUS
<1>1. queue = << >> /\ delivered = << >> /\ pending = NothingPending /\ sent = 0
  BY DEF Init
<1>2. TypeOK
  BY EmptySeq, StreamAssumption DEF Init, TypeOK, NothingPending
<1>3. Cursor = 0
  BY <1>1 DEF Cursor
<1>4. Len(queue) = 0 /\ Len(delivered) = 0 /\ Len(pending.data) = 0 /\ pending.data = << >>
  BY <1>1, EmptySeq DEF NothingPending
<1>5. DeliveredInOrder /\ QueueOK /\ PendingOK
  BY <1>1, <1>4, BufferAssumption DEF DeliveredInOrder, QueueOK, PendingOK, NothingPending
<1>6. BytesInFlight
  BY <1>1, <1>3, <1>4, BytesEmpty DEF BytesInFlight, Front
<1> QED
  BY <1>2, <1>5, <1>6 DEF StreamInv

\* Every step of the peer, the handler and process_desc keeps the invariant.
LEMMA StreamInvNext == StreamInv /\ [Next]_vars => StreamInv'
<1> SUFFICES ASSUME StreamInv, [Next]_vars PROVE StreamInv'
  OBVIOUS
<1>1. ASSUME NEW n \in 1 .. StreamLen, Arrive(n) PROVE StreamInv'
  BY <1>1, ArriveStep
<1>2. ASSUME NEW b \in Buffers, Respond(b) PROVE StreamInv'
  BY <1>2, QuietStep DEF Respond, StreamInv, TypeOK
<1>3. CASE KeepShort
  BY <1>3, KeepShortStep
<1>4. CASE TakeWhole
  BY <1>4, TakeWholeStep
<1>5. CASE KeepInPlace
  BY <1>5, KeepInPlaceStep
<1>6. CASE Relocate
  BY <1>6, RelocateStep
<1>7. CASE SplitOff
  BY <1>7, SplitOffStep
<1>8. CASE Continue
  BY <1>8, ContinueStep
<1>9. CASE Exit
  BY <1>9, QuietStep DEF Exit, StreamInv, TypeOK
<1>10. CASE UNCHANGED vars
  BY <1>10, QuietStep DEF vars, StreamInv, TypeOK
<1> QED
  BY <1>1, <1>2, <1>3, <1>4, <1>5, <1>6, <1>7, <1>8, <1>9, <1>10 DEF Next, process_desc

-----------------------------------------------------------------------------
(* Theorems about the stream *)

\* The invariant of the receive path holds for every stream and every cutting.
THEOREM StreamInvariant == Spec => []StreamInv
<1> QED
  BY StreamInvInit, StreamInvNext, PTL DEF Spec

\* process_desc keeps its state well typed: in particular no length or offset of
\* a descriptor becomes negative.
THEOREM TypeCorrect == Spec => []TypeOK
<1>1. StreamInv => TypeOK
  BY DEF StreamInv
<1> QED
  BY <1>1, StreamInvariant, PTL

\* The handler gets the RPCs of the stream, whole, once and in order.
THEOREM DeliveryCorrect == Spec => []DeliveredInOrder
<1>1. StreamInv => DeliveredInOrder
  BY DEF StreamInv
<1> QED
  BY <1>1, StreamInvariant, PTL

\* No byte is lost or duplicated between socket, pending buffer and handler.
THEOREM BytesConserved == Spec => []BytesInFlight
<1>1. StreamInv => BytesInFlight
  BY DEF StreamInv
<1> QED
  BY <1>1, StreamInvariant, PTL

\* Reassembly stays inside the buffer when the header arrived in one piece.
THEOREM ReassemblyFits == Spec => []NoOverrun
<1>1. StreamInv => NoOverrun
  <2> SUFFICES ASSUME StreamInv, Cursor \notin cuts
               PROVE  pending.off + Len(pending.data) <= BufferSize
    BY DEF NoOverrun
  <2>1. CASE pending.buf = NoBuffer
    BY <2>1, EmptySeq, BufferAssumption DEF StreamInv, PendingOK, NothingPending
  <2>2. CASE pending.buf # NoBuffer
    <3>1. Len(pending.data) \in Nat /\ pending.off \in Nat /\ pending.expected \in Nat
      BY LenProperties DEF StreamInv, TypeOK
    <3> QED
      BY <2>2, <3>1, BufferAssumption DEF StreamInv, PendingOK
  <2> QED BY <2>1, <2>2
<1> QED
  BY <1>1, StreamInvariant, PTL

\* The receive loop can only turn without progress after a header that was cut.
THEOREM StuckCharacterised == Spec => []StuckOnlyOnCutHeader
<1>1. StreamInv => StuckOnlyOnCutHeader
  <2> SUFFICES ASSUME StreamInv, pending.buf # NoBuffer, Needed = 0
               PROVE  Cursor \in cuts
    BY DEF StuckOnlyOnCutHeader, Stuck
  <2>1. Len(pending.data) \in Nat /\ pending.expected \in Nat
    BY LenProperties DEF StreamInv, TypeOK
  <2> QED
    BY <2>1 DEF Needed, StreamInv, PendingOK
<1> QED
  BY <1>1, StreamInvariant, PTL

-----------------------------------------------------------------------------
(* Refinement *)

\* A step that passes a message on is a delivery of the abstract stream.
LEMMA DeliverRefines ==
  ASSUME StreamInv, Cursor \in Starts, Cursor + RpcSize[Cursor] <= sent, NEW buf,
         Deliver(buf, Bytes(Cursor, RpcSize[Cursor])), sent' = sent
  PROVE  Stream!DeliverRpc
BY DEF Stream!DeliverRpc, Stream!Position, Cursor, Deliver, Bytes

\* Every step is a step of the abstract RPC stream, or leaves it alone.
LEMMA StepRefines ==
  ASSUME StreamInv, [Next]_vars
  PROVE  [Stream!Next]_<<sent, delivered>>
<1>1. ASSUME NEW n \in 1 .. StreamLen, Arrive(n) PROVE Stream!Receive
  <2>1. sent \in Nat /\ sent' = sent + n /\ sent + n <= StreamLen /\ UNCHANGED delivered
    BY <1>1, StreamAssumption DEF Arrive, StreamInv, TypeOK
  <2> QED
    BY <2>1, StreamAssumption DEF Stream!Receive
<1>2. CASE TakeWhole
  <2>1. queue # << >> /\ pending.buf = NoBuffer
    BY <1>2 DEF TakeWhole, Readable, HeaderIn, Processing
  <2>2. /\ desc.data = Bytes(Cursor, RpcSize[Cursor]) /\ Cursor \in Starts
        /\ Cursor + RpcSize[Cursor] <= sent
    BY <1>2, <2>1, HeadOfQueue, HeadBeginsMessage DEF TakeWhole
  <2>3. Deliver(desc.buf, Bytes(Cursor, RpcSize[Cursor])) /\ sent' = sent
    BY <1>2, <2>2 DEF TakeWhole
  <2> QED
    BY <2>2, <2>3, DeliverRefines DEF Stream!Next
<1>3. CASE SplitOff
  <2>1. queue # << >> /\ pending.buf = NoBuffer
    BY <1>3 DEF SplitOff, Readable, HeaderIn, Processing
  <2>2. /\ Cursor \in Starts /\ Expected = RpcSize[Cursor] /\ Expected \in Nat /\ Cursor \in Nat
        /\ Expected < Len(desc.data) /\ Len(desc.data) \in Nat
        /\ Cursor + Len(desc.data) <= sent
    BY <1>3, <2>1, HeadOfQueue, HeadBeginsMessage DEF SplitOff
  <2>3. PICK b \in free : Deliver(b, Extend(FromPool(b), desc, Expected).data)
    BY <1>3 DEF SplitOff
  <2>4. b \in Buffers
    BY <2>3 DEF StreamInv, TypeOK
  <2>5. Extend(FromPool(b), desc, Expected).data = Bytes(Cursor, RpcSize[Cursor])
    BY <2>1, <2>2, <2>4, ExtendFromPool
  <2>6. sent \in Nat /\ sent' = sent
    BY <1>3, StreamAssumption DEF SplitOff, StreamInv, TypeOK
  <2>7. Cursor + RpcSize[Cursor] <= sent
    BY <2>2, <2>6
  <2> QED
    BY <2>2, <2>3, <2>5, <2>6, <2>7, DeliverRefines DEF Stream!Next
<1>4. CASE Continue
  <2> DEFINE p == Extend(pending, desc, ToCopy)
             n == Len(pending.data)
  <2>1. queue # << >> /\ pending.buf # NoBuffer /\ sent' = sent
    BY <1>4 DEF Continue, Processing
  <2>2. /\ p.data = Bytes(Cursor, n + ToCopy) /\ Len(p.data) = n + ToCopy
        /\ n \in Nat /\ n > 0 /\ Cursor \in Starts /\ Cursor \in Nat
        /\ ExpectedAfter(p) = pending.expected
    BY <2>1, ExtendPending
  <2>3. /\ ToCopy \in 0 .. Len(desc.data) /\ Len(desc.data) \in Nat
        /\ Front + Len(desc.data) <= sent
    BY <2>1, ToCopyBounds, HeadOfQueue
  <2>4. CASE n + ToCopy = pending.expected
    <3>1. pending.expected = RpcSize[Cursor]
      BY <2>1, <2>2, <2>3, <2>4 DEF StreamInv, PendingOK
    <3>2. Deliver(p.buf, Bytes(Cursor, RpcSize[Cursor]))
      BY <1>4, <2>2, <2>4, <3>1 DEF Continue
    <3>3. Cursor + RpcSize[Cursor] <= sent
      <4>1. sent \in Nat
        BY StreamAssumption DEF StreamInv, TypeOK
      <4>2. Cursor + n + Len(desc.data) <= sent
        BY <2>2, <2>3 DEF Front
      <4>3. RpcSize[Cursor] = n + ToCopy
        BY <2>4, <3>1
      <4> HIDE DEF n
      <4>4. \A c, m, t, l, x \in Nat : t <= l /\ c + m + l <= x => c + (m + t) <= x
        OBVIOUS
      <4>5. ToCopy \in Nat /\ ToCopy <= Len(desc.data)
        BY <2>3
      <4>6. Cursor + (n + ToCopy) <= sent
        BY <2>2, <2>3, <4>1, <4>2, <4>4, <4>5, Zenon
      <4> QED
        BY <4>3, <4>6
    <3> QED
      BY <2>1, <2>2, <3>2, <3>3, DeliverRefines DEF Stream!Next
  <2>5. CASE n + ToCopy # pending.expected
    BY <1>4, <2>1, <2>2, <2>5 DEF Continue, Keep
  <2> QED BY <2>4, <2>5
<1>5. CASE KeepShort \/ KeepInPlace \/ Relocate \/ Exit \/ UNCHANGED vars
  BY <1>5 DEF KeepShort, KeepInPlace, Relocate, Exit, Keep, vars
<1>6. ASSUME NEW b \in Buffers, Respond(b) PROVE UNCHANGED <<sent, delivered>>
  BY <1>6 DEF Respond
<1> QED
  BY <1>1, <1>2, <1>3, <1>4, <1>5, <1>6 DEF Next, process_desc, Stream!Next

\* The receive path implements the abstract RPC stream.
THEOREM StreamRefinement == Spec => ImplementsRpcStream
<1>1. Init => Stream!Init
  BY DEF Init, Stream!Init
<1>2. StreamInv /\ [Next]_vars => [Stream!Next]_<<sent, delivered>>
  BY StepRefines
<1> QED
  BY <1>1, <1>2, StreamInvariant, PTL DEF Spec, ImplementsRpcStream, Stream!Spec

-----------------------------------------------------------------------------
(* Ownership of the buffers *)

OwnerInv == SingleOwner /\ LostOnlyByRelocation

Distinct == \A i, j \in 1 .. Len(queue) : queue[i].buf = queue[j].buf => i = j

\* The buffer of the descriptor under process is one of the queue's.
LEMMA HeadBuf ==
  ASSUME StreamInv, queue # << >>
  PROVE  desc.buf \in QueueBufs /\ desc.buf \in Buffers
<1>1. desc = queue[1] /\ desc \in Desc /\ 1 \in 1 .. Len(queue)
  BY HeadOfQueue, EmptySeq DEF StreamInv, TypeOK
<1> QED
  BY <1>1 DEF QueueBufs, Desc

\* The buffers of the queue once its head is used up.
LEMMA BufsOfTail ==
  ASSUME StreamInv, queue # << >>, Distinct, queue' = Tail(queue)
  PROVE  QueueBufs' = QueueBufs \ {desc.buf} /\ Distinct'
<1> DEFINE n == Len(queue)
<1>1. /\ n \in Nat /\ n >= 1 /\ Len(queue') = n - 1 /\ desc = queue[1]
      /\ \A i \in 1 .. n - 1 : queue'[i] = queue[i + 1]
  <2>1. queue \in Seq(Desc)
    BY DEF StreamInv, TypeOK
  <2> QED
    BY <2>1, EmptySeq, HeadTailProperties, HeadOfQueue
<1>2. Distinct'
  <2> SUFFICES ASSUME NEW i \in 1 .. n - 1, NEW j \in 1 .. n - 1, queue'[i].buf = queue'[j].buf
               PROVE  i = j
    BY <1>1 DEF Distinct
  <2>1. i + 1 \in 1 .. n /\ j + 1 \in 1 .. n /\ queue[i + 1].buf = queue[j + 1].buf
    BY <1>1
  <2>2. i + 1 = j + 1
    BY <2>1 DEF Distinct
  <2> QED
    BY <2>2
<1>3. \A x \in QueueBufs \ {desc.buf} : x \in QueueBufs'
  <2> TAKE x \in QueueBufs \ {desc.buf}
  <2>1. PICK i \in 1 .. n : x = queue[i].buf
    BY DEF QueueBufs
  <2>2. i # 1
    BY <1>1, <2>1
  <2>3. i - 1 \in 1 .. n - 1 /\ queue'[i - 1] = queue[(i - 1) + 1] /\ (i - 1) + 1 = i
    BY <1>1, <2>1, <2>2
  <2> QED
    BY <1>1, <2>1, <2>3 DEF QueueBufs
<1>4. \A x \in QueueBufs' : x \in QueueBufs \ {desc.buf}
  <2> TAKE x \in QueueBufs'
  <2>1. PICK i \in 1 .. n - 1 : x = queue'[i].buf
    BY <1>1 DEF QueueBufs
  <2>2. i + 1 \in 1 .. n /\ 1 \in 1 .. n /\ i + 1 # 1 /\ x = queue[i + 1].buf
    BY <1>1, <2>1
  <2> QED
    BY <1>1, <2>2 DEF QueueBufs, Distinct
<1> QED
  BY <1>2, <1>3, <1>4

\* Advancing the head of the queue leaves its buffers as they are.
LEMMA BufsOfRest ==
  ASSUME StreamInv, queue # << >>, Distinct, NEW r, r.buf = desc.buf,
         queue' = [queue EXCEPT ![1] = r]
  PROVE  QueueBufs' = QueueBufs /\ Distinct'
<1> DEFINE n == Len(queue)
<1>1. n \in Nat /\ n >= 1 /\ desc = queue[1] /\ DOMAIN queue = 1 .. n
  <2>1. queue \in Seq(Desc)
    BY DEF StreamInv, TypeOK
  <2> QED
    BY <2>1, EmptySeq, LenProperties, HeadOfQueue
<1>2. Len(queue') = n
  <2>1. DOMAIN queue' = 1 .. n
    BY <1>1
  <2> QED
    BY <1>1, <2>1
<1>3. \A i \in 1 .. n : queue'[i].buf = queue[i].buf
  BY <1>1
<1> QED
  BY <1>2, <1>3 DEF QueueBufs, Distinct

\* The buffers of the queue once a descriptor has arrived.
LEMMA BufsOfAppend ==
  ASSUME StreamInv, Distinct, NEW x \in Desc, x.buf \notin QueueBufs, queue' = Append(queue, x)
  PROVE  QueueBufs' = QueueBufs \cup {x.buf} /\ Distinct'
<1> DEFINE n == Len(queue)
<1>1. /\ n \in Nat /\ Len(queue') = n + 1 /\ queue'[n + 1] = x
      /\ \A i \in 1 .. n : queue'[i] = queue[i]
  <2>1. queue \in Seq(Desc)
    BY DEF StreamInv, TypeOK
  <2> QED
    BY <2>1, AppendProperties, LenProperties
<1>2. \A i \in 1 .. n : queue[i].buf # x.buf
  BY DEF QueueBufs
<1>3. Distinct'
  <2> SUFFICES ASSUME NEW i \in 1 .. n + 1, NEW j \in 1 .. n + 1, queue'[i].buf = queue'[j].buf
               PROVE  i = j
    BY <1>1 DEF Distinct
  <2>1. (i \in 1 .. n \/ i = n + 1) /\ (j \in 1 .. n \/ j = n + 1)
    BY <1>1
  <2> QED
    BY <1>1, <1>2, <2>1 DEF Distinct
<1>4. \A y \in QueueBufs : y \in QueueBufs'
  BY <1>1 DEF QueueBufs
<1>5. x.buf \in QueueBufs'
  <2>1. n + 1 \in 1 .. Len(queue') /\ queue'[n + 1].buf = x.buf
    BY <1>1
  <2> QED
    BY <2>1 DEF QueueBufs
<1>6. \A y \in QueueBufs' : y \in QueueBufs \cup {x.buf}
  <2> TAKE y \in QueueBufs'
  <2>1. PICK i \in 1 .. n + 1 : y = queue'[i].buf
    BY <1>1 DEF QueueBufs
  <2>2. i \in 1 .. n \/ i = n + 1
    BY <1>1
  <2> QED
    BY <1>1, <2>1, <2>2 DEF QueueBufs
<1> QED
  BY <1>3, <1>4, <1>5, <1>6

\* Every buffer is in the pool at first.
LEMMA OwnerInvInit == Init => OwnerInv
<1> SUFFICES ASSUME Init PROVE OwnerInv
  OBVIOUS
<1>1. Len(queue) = 0
  BY EmptySeq DEF Init
<1>2. QueueBufs = {} /\ PendingBufs = {} /\ Distinct
  BY <1>1 DEF QueueBufs, PendingBufs, Distinct, Init, NothingPending
<1> QED
  BY <1>2 DEF Init, OwnerInv, SingleOwner, LostOnlyByRelocation, Distinct

\* Nothing pending, before or after.
LEMMA NonePending ==
  /\ pending.buf = NoBuffer => PendingBufs = {}
  /\ pending' = NothingPending => PendingBufs' = {}
BY DEF PendingBufs, NothingPending

\* The facts about the queue that the branches share.
LEMMA OwnerFacts ==
  ASSUME StreamInv, OwnerInv
  PROVE  /\ Distinct
         /\ free \subseteq Buffers /\ app \subseteq Buffers /\ lost \subseteq Buffers
         /\ NoBuffer \notin Buffers
BY BufferAssumption DEF StreamInv, TypeOK, OwnerInv, SingleOwner, Distinct

\* A buffer goes from the pool to the queue.
LEMMA OwnerArrive ==
  ASSUME StreamInv, OwnerInv, NEW n \in 1 .. StreamLen, Arrive(n)
  PROVE  OwnerInv'
<1>1. PICK b \in free :
        /\ queue' = Append(queue, [buf |-> b, off |-> Headroom, data |-> Bytes(sent, n)])
        /\ free' = free \ {b}
  BY DEF Arrive
<1> DEFINE x == [buf |-> b, off |-> Headroom, data |-> Bytes(sent, n)]
<1>2. x \in Desc /\ x.buf = b
  <2>1. sent \in Nat /\ n \in Nat
    BY StreamAssumption DEF StreamInv, TypeOK
  <2>2. Bytes(sent, n) \in Seq(Nat)
    BY <2>1, BytesProperties
  <2> QED
    BY <1>1, <2>2, BufferAssumption, OwnerFacts DEF Desc
<1>3. b \notin QueueBufs
  BY <1>1 DEF OwnerInv, SingleOwner
<1> HIDE DEF x
<1>4. QueueBufs' = QueueBufs \cup {b} /\ Distinct'
  <2>1. queue' = Append(queue, x) /\ x.buf \notin QueueBufs
    BY <1>1, <1>2, <1>3 DEF x
  <2> QED
    BY <1>2, <2>1, OwnerFacts, BufsOfAppend
<1>5. PendingBufs' = PendingBufs /\ app' = app /\ lost' = lost
  BY DEF Arrive, PendingBufs
<1> QED
  BY <1>1, <1>4, <1>5 DEF OwnerInv, SingleOwner, LostOnlyByRelocation, Distinct

\* A buffer goes from the handler back to the pool.
LEMMA OwnerRespond ==
  ASSUME StreamInv, OwnerInv, NEW b \in Buffers, Respond(b)
  PROVE  OwnerInv'
<1>1. QueueBufs' = QueueBufs /\ PendingBufs' = PendingBufs /\ Distinct'
  BY OwnerFacts DEF Respond, QueueBufs, PendingBufs, Distinct
<1> QED
  BY <1>1 DEF Respond, OwnerInv, SingleOwner, LostOnlyByRelocation, Distinct

\* A buffer goes from the queue to the pending slot.
LEMMA OwnerKeep ==
  ASSUME StreamInv, OwnerInv, KeepShort \/ KeepInPlace
  PROVE  OwnerInv'
<1>1. queue # << >> /\ pending.buf = NoBuffer /\ queue' = Tail(queue)
  BY DEF KeepShort, KeepInPlace, Readable, HeaderIn, Processing
<1>2. /\ pending'.buf = desc.buf
      /\ UNCHANGED <<free, app, lost>>
  BY DEF KeepShort, KeepInPlace, Keep
<1>3. desc.buf \in QueueBufs /\ desc.buf \in Buffers /\ desc.buf # NoBuffer
  BY <1>1, HeadBuf, OwnerFacts
<1>4. QueueBufs' = QueueBufs \ {desc.buf} /\ Distinct'
  BY <1>1, OwnerFacts, BufsOfTail
<1>5. PendingBufs = {} /\ PendingBufs' = {desc.buf}
  BY <1>1, <1>2, <1>3 DEF PendingBufs
<1> QED
  BY <1>2, <1>3, <1>4, <1>5 DEF OwnerInv, SingleOwner, LostOnlyByRelocation, Distinct

\* A buffer goes from the queue to the handler.
LEMMA OwnerTakeWhole ==
  ASSUME StreamInv, OwnerInv, TakeWhole
  PROVE  OwnerInv'
<1>1. queue # << >> /\ pending.buf = NoBuffer /\ queue' = Tail(queue)
  BY DEF TakeWhole, Readable, HeaderIn, Processing
<1>2. pending' = NothingPending /\ app' = app \cup {desc.buf} /\ UNCHANGED <<free, lost>>
  BY DEF TakeWhole, Deliver
<1>3. desc.buf \in QueueBufs
  BY <1>1, HeadBuf
<1>4. QueueBufs' = QueueBufs \ {desc.buf} /\ Distinct'
  BY <1>1, OwnerFacts, BufsOfTail
<1>5. PendingBufs = {} /\ PendingBufs' = {}
  BY <1>1, <1>2, NonePending
<1> QED
  BY <1>2, <1>3, <1>4, <1>5 DEF OwnerInv, SingleOwner, LostOnlyByRelocation, Distinct

\* A buffer goes from the pool to the pending slot, and the emptied one is lost.
LEMMA OwnerRelocate ==
  ASSUME StreamInv, OwnerInv, Relocate
  PROVE  OwnerInv'
<1>1. queue # << >> /\ pending.buf = NoBuffer /\ queue' = Tail(queue)
  BY DEF Relocate, Readable, HeaderIn, Processing
<1>2. PICK b \in free : Keep(Extend(FromPool(b), desc, Len(desc.data))) /\ free' = free \ {b}
  BY DEF Relocate
<1>3. b \in Buffers /\ b # NoBuffer
  BY <1>2, OwnerFacts
<1>4. Extend(FromPool(b), desc, Len(desc.data)).buf = b
  <2>1. Len(desc.data) \in Nat /\ Len(desc.data) \in 0 .. Len(desc.data)
    BY <1>1, HeadOfQueue
  <2> QED
    BY <1>1, <1>3, <2>1, ExtendFromPool
<1>5. pending'.buf = b /\ app' = app /\ lost' = lost \cup {desc.buf}
  BY <1>2, <1>4 DEF Relocate, Keep
<1>6. desc.buf \in QueueBufs
  BY <1>1, HeadBuf
<1>7. QueueBufs' = QueueBufs \ {desc.buf} /\ Distinct'
  BY <1>1, OwnerFacts, BufsOfTail
<1>8. PendingBufs = {} /\ PendingBufs' = {b}
  BY <1>1, <1>3, <1>5 DEF PendingBufs
<1> QED
  BY <1>2, <1>5, <1>6, <1>7, <1>8 DEF OwnerInv, SingleOwner, LostOnlyByRelocation, Distinct

\* A buffer goes from the pool to the handler.
LEMMA OwnerSplitOff ==
  ASSUME StreamInv, OwnerInv, SplitOff
  PROVE  OwnerInv'
<1>1. queue # << >> /\ pending.buf = NoBuffer
  BY DEF SplitOff, Readable, HeaderIn, Processing
<1>2. PICK b \in free : /\ pending' = NothingPending /\ app' = app \cup {b}
                        /\ free' = free \ {b}
  BY DEF SplitOff, Deliver
<1>3. queue' = [queue EXCEPT ![1] = Drop(desc, Expected)] /\ lost' = lost
  <2>1. /\ Expected \in Nat /\ Len(desc.data) \in Nat /\ Expected < Len(desc.data)
        /\ Front \in Nat /\ desc \in Desc /\ desc.data = Bytes(Front, Len(desc.data))
    BY <1>1, HeadOfQueue, HeadBeginsMessage DEF SplitOff
  <2>2. Len(Drop(desc, Expected).data) = Len(desc.data) - Expected
    BY <2>1, DropBytes
  <2>3. Len(Drop(desc, Expected).data) # 0
    BY <2>1, <2>2
  <2> QED
    BY <2>3 DEF SplitOff, Advance
<1>4. Drop(desc, Expected).buf = desc.buf
  BY DEF Drop
<1>5. QueueBufs' = QueueBufs /\ Distinct'
  BY <1>1, <1>3, <1>4, OwnerFacts, BufsOfRest
<1>6. PendingBufs = {} /\ PendingBufs' = {}
  BY <1>1, <1>2, NonePending
<1> QED
  BY <1>2, <1>3, <1>5, <1>6 DEF OwnerInv, SingleOwner, LostOnlyByRelocation, Distinct

\* An emptied buffer goes back to the pool, and a completed message to the handler.
LEMMA OwnerContinue ==
  ASSUME StreamInv, OwnerInv, Continue
  PROVE  OwnerInv'
<1> DEFINE p == Extend(pending, desc, ToCopy)
           rest == Drop(desc, ToCopy)
           pb == pending.buf
<1>1. queue # << >> /\ pb # NoBuffer /\ lost' = lost
  BY DEF Continue, Processing
<1>2. PendingBufs = {pb}
  BY <1>1 DEF PendingBufs
<1>3. p.buf = pb /\ \A e : [p EXCEPT !.expected = e].buf = pb
  BY <1>1, ExtendPending DEF StreamInv, TypeOK
<1>4. \/ app' = app \cup {pb} /\ PendingBufs' = {}
      \/ app' = app /\ PendingBufs' = {pb}
  <2>1. CASE Len(p.data) = ExpectedAfter(p)
    BY <2>1, <1>3, NonePending DEF Continue, Deliver
  <2>2. CASE Len(p.data) # ExpectedAfter(p)
    <3>1. app' = app /\ pending'.buf = pb
      BY <2>2, <1>3 DEF Continue, Keep
    <3> QED
      BY <3>1, <1>1 DEF PendingBufs
  <2> QED BY <2>1, <2>2
<1>5. rest.buf = desc.buf
  BY DEF Drop
<1>6. /\ Distinct'
      /\ \/ QueueBufs' = QueueBufs \ {desc.buf} /\ free' = free \cup {desc.buf}
         \/ QueueBufs' = QueueBufs /\ free' = free
  <2>1. CASE Len(rest.data) = 0
    <3>1. queue' = Tail(queue) /\ free' = free \cup {desc.buf}
      BY <2>1, <1>5 DEF Continue, Advance, PutIfEmptied
    <3> QED
      BY <1>1, <3>1, OwnerFacts, BufsOfTail
  <2>2. CASE Len(rest.data) # 0
    <3>1. queue' = [queue EXCEPT ![1] = rest] /\ free' = free
      BY <2>2 DEF Continue, Advance, PutIfEmptied
    <3> QED
      BY <1>1, <1>5, <3>1, OwnerFacts, BufsOfRest
  <2> QED BY <2>1, <2>2
<1>7. desc.buf \in QueueBufs
  BY <1>1, HeadBuf
<1> QED
  BY <1>1, <1>2, <1>4, <1>6, <1>7 DEF OwnerInv, SingleOwner, LostOnlyByRelocation, Distinct

\* Every step keeps the ownership of buffers.
LEMMA OwnerInvNext == StreamInv /\ OwnerInv /\ [Next]_vars => OwnerInv'
<1> SUFFICES ASSUME StreamInv, OwnerInv, [Next]_vars PROVE OwnerInv'
  OBVIOUS
<1>1. ASSUME NEW n \in 1 .. StreamLen, Arrive(n) PROVE OwnerInv'
  BY <1>1, OwnerArrive
<1>2. ASSUME NEW b \in Buffers, Respond(b) PROVE OwnerInv'
  BY <1>2, OwnerRespond
<1>3. CASE KeepShort \/ KeepInPlace
  BY <1>3, OwnerKeep
<1>4. CASE TakeWhole
  BY <1>4, OwnerTakeWhole
<1>5. CASE Relocate
  BY <1>5, OwnerRelocate
<1>6. CASE SplitOff
  BY <1>6, OwnerSplitOff
<1>7. CASE Continue
  BY <1>7, OwnerContinue
<1>8. CASE Exit \/ UNCHANGED vars
  <2>1. UNCHANGED <<queue, pending, free, app, lost>>
    BY <1>8 DEF Exit, vars
  <2>2. QueueBufs' = QueueBufs /\ PendingBufs' = PendingBufs /\ Distinct'
    BY <2>1, OwnerFacts DEF QueueBufs, PendingBufs, Distinct
  <2> QED
    BY <2>1, <2>2 DEF OwnerInv, SingleOwner, LostOnlyByRelocation, Distinct
<1> QED
  BY <1>1, <1>2, <1>3, <1>4, <1>5, <1>6, <1>7, <1>8 DEF Next, process_desc

\* Every buffer has exactly one owner, and is lost only by a relocation.
LEMMA OwnerInvariant == Spec => []OwnerInv
<1> QED
  BY OwnerInvInit, OwnerInvNext, StreamInvariant, PTL DEF Spec

\* No buffer is shared by two holders, put back while in use, or aliased.
THEOREM BuffersHaveOneOwner == Spec => []SingleOwner
<1>1. OwnerInv => SingleOwner
  BY DEF OwnerInv
<1> QED
  BY <1>1, OwnerInvariant, PTL

\* The pool shrinks only where process_desc relocates a message.
THEOREM LossCharacterised == Spec => []LostOnlyByRelocation
<1>1. OwnerInv => LostOnlyByRelocation
  BY DEF OwnerInv
<1> QED
  BY <1>1, OwnerInvariant, PTL
=============================================================================
