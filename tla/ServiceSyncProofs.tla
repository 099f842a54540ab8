------------------------- MODULE ServiceSyncProofs -------------------------
(***************************************************************************)
(* Proofs about the event loop of the synchronous services, for every      *)
(* number of connections, sockets and requests and every way the stream is *)
(* cut into bulks: until a slot changes hands with data in its pending     *)
(* buffer each connection gets the answers to its own requests, and each   *)
(* buffer is in exactly one place, but those that relocation emptied and   *)
(* those of the bulk of a failed send.                                     *)
(***************************************************************************)
EXTENDS ServiceSync, SequenceTheorems, FiniteSetTheorems, WellFoundedInduction, TLAPS

-----------------------------------------------------------------------------
(* Sequences and slots *)

\* What is left of a list when entry j leaves it (service_sync.h:132).
LEMMA DropFacts ==
  ASSUME NEW S, NEW q \in Seq(S), NEW j \in 1 .. Len(q)
  PROVE  LET d == SubSeq(q, 1, j - 1) \o SubSeq(q, j + 1, Len(q))
         IN /\ d \in Seq(S) /\ Len(d) = Len(q) - 1
            /\ \A i \in 1 .. Len(q) - 1 : d[i] = IF i < j THEN q[i] ELSE q[i + 1]
<1> DEFINE n == Len(q)
           a == SubSeq(q, 1, j - 1)
           b == SubSeq(q, j + 1, n)
<1>1. n \in Nat /\ j \in 1 .. n
  BY LenProperties
<1>2. \A i \in 1 .. n : q[i] \in S
  BY ElementOfSeq
<1>3. a \in Seq(S) /\ Len(a) = j - 1 /\ \A i \in 1 .. j - 1 : a[i] = q[i]
  BY <1>1, <1>2, SubSeqProperties
<1>4. b \in Seq(S) /\ Len(b) = n - j /\ \A i \in 1 .. n - j : b[i] = q[j + i]
  BY <1>1, <1>2, SubSeqProperties
<1> HIDE DEF a, b, n
<1>5. /\ a \o b \in Seq(S) /\ Len(a \o b) = Len(a) + Len(b)
      /\ \A i \in 1 .. Len(a) + Len(b) : (a \o b)[i] = IF i <= Len(a) THEN a[i] ELSE b[i - Len(a)]
  BY <1>3, <1>4, ConcatProperties
<1>6. Len(a \o b) = n - 1 /\ Len(a) + Len(b) = n - 1
  BY <1>1, <1>3, <1>4, <1>5
<1>7. ASSUME NEW i \in 1 .. n - 1 PROVE (a \o b)[i] = IF i < j THEN q[i] ELSE q[i + 1]
  <2>1. (a \o b)[i] = IF i <= j - 1 THEN a[i] ELSE b[i - (j - 1)]
    BY <1>3, <1>5, <1>6
  <2>2. CASE i < j
    <3>1. i \in 1 .. j - 1 /\ i <= j - 1
      BY <2>2, <1>1
    <3> QED
      BY <3>1, <2>1, <2>2, <1>3
  <2>3. CASE ~(i < j)
    <3>1. i - (j - 1) \in 1 .. n - j /\ j + (i - (j - 1)) = i + 1 /\ ~(i <= j - 1)
      BY <2>3, <1>1
    <3> QED
      BY <3>1, <2>1, <2>3, <1>4
  <2> QED
    BY <2>2, <2>3
<1> QED
  BY <1>5, <1>6, <1>7 DEF a, b, n

\* A set of slots has a least one.
LEMMA LeastSlot == ASSUME NEW T \in SUBSET Nat, T # {} PROVE \E t \in T : \A u \in T : t <= u
<1>1. PICK t \in T : \A u \in T : ~(<<u, t>> \in OpToRel(<, Nat))
  BY NatLessThanWellFounded, WFMin
<1>2. \A u \in T : ~(u < t)
  BY <1>1 DEF OpToRel
<1> QED
  BY <1>2

\* The loop goes on with a slot in the list, or is at its end (service_sync.h:122).
LEMMA NextReadyRange ==
  ASSUME NEW s \in Nat \ {0}, NEW r, NEW n \in Nat \ {0} PROVE NextReady(s, r, n) \in 1 .. n
<1> DEFINE S == {t \in s .. n - 1 : r[t]}
<1>1. CASE S = {}
  BY <1>1 DEF NextReady
<1>2. CASE S # {}
  <2>1. S \in SUBSET Nat
    OBVIOUS
  <2>2. \E t \in S : \A u \in S : t <= u
    BY <1>2, <2>1, LeastSlot
  <2>3. (CHOOSE t \in S : \A u \in S : t <= u) \in S
    BY <2>2
  <2>4. S \subseteq 1 .. n
    OBVIOUS
  <2> QED
    BY <1>2, <2>3, <2>4 DEF NextReady
<1> QED
  BY <1>1, <1>2

\* The slot under process, when it is that of a connection.
LEMMA Here ==
  ASSUME LoopInv, pc = "scan", slot < NSocks
  PROVE  /\ Len(socks) \in Nat /\ slot \in 1 .. Len(socks) /\ slot \in Slots /\ MaxSocks \in Nat
         /\ Len(socks) <= MaxSocks - 1
         /\ Conn \in Conns /\ link[Conn] \in {"open", "closed"}
         /\ read[Conn] \in Nat /\ sent[Conn] \in Nat
<1>1. Len(socks) \in Nat /\ MaxSocks \in Nat
  BY SyncAssumption, LenProperties DEF LoopInv, ListInv
<1>2. slot \in 1 .. Len(socks) /\ slot \in Slots /\ Len(socks) <= MaxSocks - 1
  <2>1. slot \in 1 .. NSocks /\ NSocks <= MaxSocks /\ NSocks = 1 + Len(socks)
    BY DEF LoopInv, ListInv, RoundInv, NSocks
  <2> QED
    BY <2>1, <1>1 DEF Slots
<1>3. Conn \in Conns /\ link[Conn] \in {"open", "closed"}
  BY <1>2, ElementOfSeq DEF LoopInv, ListInv, Conn
<1> QED
  BY <1>1, <1>2, <1>3 DEF LoopInv, NetInv

\* The first unit of what is left of a bulk, and the others.
LEMMA BurstFacts ==
  ASSUME LoopInv, burst # << >>
  PROVE  /\ pc = "scan" /\ slot < NSocks
         /\ Len(burst) \in Nat \ {0} /\ Head(burst) = burst[1]
         /\ Head(burst) = <<Conn, read[Conn] - Len(burst) + 1>> /\ Head(burst) \in AnyUnit
         /\ Tail(burst) \in Seq(AnyUnit) /\ Len(Tail(burst)) = Len(burst) - 1
         /\ \A k \in 1 .. Len(burst) - 1 : Tail(burst)[k] = burst[k + 1]
<1>1. /\ burst \in Seq(AnyUnit) /\ pc = "scan" /\ slot < NSocks
      /\ \A k \in 1 .. Len(burst) : burst[k] = <<Conn, read[Conn] - Len(burst) + k>>
  BY DEF LoopInv, RoundInv
<1>2. Len(burst) \in Nat \ {0}
  BY <1>1, EmptySeq
<1>3. /\ Head(burst) \in AnyUnit /\ Tail(burst) \in Seq(AnyUnit) /\ Len(Tail(burst)) = Len(burst) - 1
      /\ \A k \in 1 .. Len(burst) - 1 : Tail(burst)[k] = burst[k + 1]
  BY <1>1, HeadTailProperties
<1>4. Head(burst) = burst[1]
  BY <1>1
<1>5. burst[1] = <<Conn, read[Conn] - Len(burst) + 1>>
  BY <1>1, <1>2
<1> QED
  BY <1>1, <1>2, <1>3, <1>4, <1>5

\* The bulk without its first d units.
Without(d, q) ==
  /\ q \in Seq(AnyUnit) /\ Len(q) = Len(burst) - d
  /\ \A k \in 1 .. Len(burst) - d : q[k] = burst[k + d]

LEMMA WithoutOne == ASSUME LoopInv, burst # << >> PROVE Without(1, Tail(burst))
BY BurstFacts DEF Without

\* What process_desc leaves of a bulk when it completes a message.
LEMMA RestIsSuffix ==
  ASSUME LoopInv, burst # << >>, ~(Fresh /\ Alone)
  PROVE  /\ Complete => Without(0, Rest)
         /\ Fresh => ~Complete /\ Len(burst) >= 2 /\ Without(2, Rest)
         /\ ~Complete /\ ~Fresh => Without(1, Rest)
<1>1. /\ Len(burst) \in Nat \ {0} /\ burst \in Seq(AnyUnit) /\ Len(Tail(burst)) = Len(burst) - 1
      /\ Tail(burst) \in Seq(AnyUnit)
      /\ \A k \in 1 .. Len(burst) - 1 : Tail(burst)[k] = burst[k + 1]
  BY BurstFacts DEF LoopInv, RoundInv
<1>2. CASE Complete
  BY <1>1, <1>2, EmptySeq DEF Rest, Without, Complete, Fresh
<1>3. CASE Fresh
  <2>1. ~Complete
    BY <1>3, EmptySeq DEF Fresh, Complete
  <2>2. Len(burst) >= 2
    BY <1>1, <1>3 DEF Alone
  <2> DEFINE t == Tail(burst)
  <2>3. t # << >>
    <3>1. Len(burst) - 1 # 0 /\ Len(<< >>) = 0
      BY <1>1, <2>2, EmptySeq
    <3> QED
      BY <1>1, <3>1
  <2>4. /\ Tail(t) \in Seq(AnyUnit) /\ Len(Tail(t)) = Len(t) - 1
        /\ \A k \in 1 .. Len(t) - 1 : Tail(t)[k] = t[k + 1]
    BY <1>1, <2>3, HeadTailProperties
  <2> HIDE DEF t
  <2>5. Len(t) = Len(burst) - 1 /\ \A k \in 1 .. Len(burst) - 1 : t[k] = burst[k + 1]
    BY <1>1 DEF t
  <2>6. ASSUME NEW k \in 1 .. Len(burst) - 2 PROVE Tail(t)[k] = burst[k + 2]
    <3>1. k \in 1 .. Len(t) - 1 /\ k + 1 \in 1 .. Len(burst) - 1 /\ (k + 1) + 1 = k + 2
      BY <1>1, <2>5
    <3>2. Tail(t)[k] = t[k + 1] /\ t[k + 1] = burst[(k + 1) + 1]
      BY <2>4, <2>5, <3>1
    <3> QED
      BY <3>1, <3>2
  <2>7. Rest = Tail(t)
    BY <1>3, <2>1 DEF Rest, t
  <2>8. Len(Tail(t)) = Len(burst) - 2
    <3>1. Len(Tail(t)) = (Len(burst) - 1) - 1
      BY <2>4, <2>5, Zenon
    <3>2. \A m \in Nat : (m - 1) - 1 = m - 2
      OBVIOUS
    <3> QED
      BY <1>1, <3>1, <3>2, Zenon
  <2>9. Without(2, Rest)
    BY <2>4, <2>6, <2>7, <2>8 DEF Without
  <2> QED
    BY <1>3, <2>1, <2>2, <2>9
<1>4. CASE ~Complete /\ ~Fresh
  BY <1>4, <1>1, WithoutOne DEF Rest
<1> QED
  BY <1>2, <1>3, <1>4

-----------------------------------------------------------------------------
(* The loop *)

\* Taking units from the bulk, or none, and going on.
LEMMA AdvanceStep ==
  ASSUME LoopInv, burst # << >>, NEW d \in Nat, NEW rest, d <= Len(burst), Without(d, rest),
         Advance(rest),
         pending' \in [Slots -> Seq(AnyUnit)], UNCHANGED <<read, pc>>
  PROVE  RoundInv' /\ socks' = socks /\ burst' = rest /\ (burst' # << >> => slot' = slot)
<1>1. /\ burst' = rest /\ UNCHANGED socks
      /\ slot' = IF rest = << >> THEN NextReady(slot + 1, ready, NSocks) ELSE slot
  BY DEF Advance
<1>2. /\ pc = "scan" /\ slot < NSocks /\ Len(burst) \in Nat \ {0}
      /\ rest \in Seq(AnyUnit) /\ Len(rest) = Len(burst) - d
      /\ \A k \in 1 .. Len(burst) - d : rest[k] = burst[k + d]
  BY BurstFacts DEF Without
<1>3. Len(socks) \in Nat /\ slot \in 1 .. Len(socks) /\ read[Conn] \in Nat
  BY <1>2, Here
<1>4. slot' \in 1 .. NSocks' /\ (rest # << >> => slot' = slot)
  <2>1. CASE rest = << >>
    <3>1. slot + 1 \in Nat \ {0} /\ NSocks \in Nat \ {0}
      BY <1>3 DEF NSocks
    <3>2. NextReady(slot + 1, ready, NSocks) \in 1 .. NSocks
      BY <3>1, NextReadyRange
    <3> QED
      BY <2>1, <1>1, <3>2 DEF NSocks
  <2>2. CASE rest # << >>
    BY <2>2, <1>1, <1>3 DEF NSocks
  <2> QED
    BY <2>1, <2>2
<1>5. rest \in Seq(AnyUnit)
  BY <1>2
<1>6. Len(rest) \in Nat /\ Len(rest) <= read[Conn]
  BY <1>2, <1>3, <1>5, LenProperties DEF LoopInv, RoundInv
<1>7. ASSUME NEW k \in 1 .. Len(rest) PROVE rest[k] = <<Conn, read[Conn] - Len(rest) + k>>
  <2> DEFINE r == read[Conn]
             b == Len(burst)
             m == Len(rest)
  <2>1. m = b - d /\ r \in Nat /\ b \in Nat /\ k \in 1 .. b - d /\ k + d \in 1 .. b
    BY <1>2, <1>3
  <2>2. rest[k] = burst[k + d] /\ burst[k + d] = <<Conn, r - b + (k + d)>>
    BY <1>2, <2>1 DEF LoopInv, RoundInv
  <2> HIDE DEF r, b, m
  <2>3. r - b + (k + d) = r - m + k
    BY <2>1
  <2> QED
    BY <2>2, <2>3 DEF r, m
<1>8. rest # << >> => Conn' = Conn /\ slot' < NSocks'
  BY <1>1, <1>2, <1>4 DEF Conn, NSocks
<1> QED
  BY <1>1, <1>2, <1>4, <1>5, <1>6, <1>7, <1>8 DEF RoundInv

\* Removing a connection from the list (service_sync.h:127).
LEMMA RemoveStep ==
  ASSUME LoopInv, pc = "scan", slot < NSocks, Remove,
         pending' \in [Slots -> Seq(AnyUnit)], UNCHANGED <<link, pc>>
  PROVE  /\ ListInv' /\ RoundInv' /\ burst' = << >>
         /\ Len(socks') = Len(socks) - 1
         /\ \A i \in 1 .. Len(socks') : socks'[i] = IF i < slot THEN socks[i] ELSE socks[i + 1]
<1>1. /\ Len(socks) \in Nat /\ slot \in 1 .. Len(socks) /\ socks \in Seq(Conns)
  BY Here DEF LoopInv, ListInv
<1>2. /\ socks' = SubSeq(socks, 1, slot - 1) \o SubSeq(socks, slot + 1, Len(socks))
      /\ slot' = NextReady(slot + 1, ShiftReady, NSocks - 1)
      /\ burst' = << >>
  BY DEF Remove
<1>3. /\ socks' \in Seq(Conns) /\ Len(socks') = Len(socks) - 1
      /\ \A i \in 1 .. Len(socks) - 1 : socks'[i] = IF i < slot THEN socks[i] ELSE socks[i + 1]
  BY <1>1, <1>2, DropFacts
<1>4. slot' \in 1 .. NSocks'
  <2>1. slot + 1 \in Nat \ {0} /\ NSocks - 1 \in Nat \ {0} /\ NSocks' = NSocks - 1
    BY <1>1, <1>3 DEF NSocks
  <2>2. NextReady(slot + 1, ShiftReady, NSocks - 1) \in 1 .. NSocks - 1
    BY <2>1, NextReadyRange
  <2> QED
    BY <2>1, <2>2, <1>2
<1>5. ASSUME NEW i \in 1 .. Len(socks) - 1
      PROVE  \E k \in 1 .. Len(socks) : socks'[i] = socks[k] /\ k = IF i < slot THEN i ELSE i + 1
  BY <1>1, <1>3
<1>6. \A i, k \in 1 .. Len(socks) : socks[i] = socks[k] => i = k
  BY DEF LoopInv, ListInv
<1>7. \A i, k \in 1 .. Len(socks) - 1 : socks'[i] = socks'[k] => i = k
  BY <1>1, <1>5, <1>6
<1>8. \A i \in 1 .. Len(socks) - 1 : link'[socks'[i]] \in {"open", "closed"}
  BY <1>5 DEF LoopInv, ListInv
<1>9. NSocks' <= MaxSocks
  BY <1>1, <1>3, SyncAssumption DEF NSocks, LoopInv, ListInv
<1>10. ListInv'
  BY <1>3, <1>7, <1>8, <1>9 DEF ListInv
<1>11. RoundInv'
  BY <1>2, <1>4, EmptySeq DEF RoundInv
<1> QED
  BY <1>2, <1>3, <1>10, <1>11
\* A step that changes neither the list nor the round.
LEMMA ListKeep ==
  ASSUME ListInv, socks' = socks,
         \A c \in Conns : link[c] \in {"open", "closed"} => link'[c] \in {"open", "closed"}
  PROVE  ListInv'
<1>1. \A j \in 1 .. Len(socks) : socks[j] \in Conns
  BY ElementOfSeq DEF ListInv
<1> QED
  BY <1>1 DEF ListInv, NSocks

\* The loop, before the first connection.
LEMMA LoopInvInit == Init => LoopInv
<1> SUFFICES ASSUME Init PROVE LoopInv
  OBVIOUS
<1>1. << >> \in Seq(Conns) /\ << >> \in Seq(AnyUnit) /\ << >> \in Seq(Seq(AnyUnit)) /\ Len(<< >>) = 0
  BY EmptySeq
<1>2. NetInv
  BY <1>1 DEF Init, NetInv
<1>3. ListInv
  <2>1. socks = << >> /\ NSocks = 1
    BY <1>1 DEF Init, NSocks
  <2> QED
    BY <1>1, <2>1, SyncAssumption DEF ListInv
<1>4. RoundInv
  BY <1>1 DEF Init, RoundInv
<1> QED
  BY <1>2, <1>3, <1>4 DEF LoopInv

\* A step of a client.
LEMMA LoopInvClient == ASSUME LoopInv, NEW c \in Conns, Client(c) PROVE LoopInv'
<1>1. UNCHANGED <<socks, pending, pc, slot, burst, read, answers>>
  BY DEF Client, Connect, Send, Close
<1>2. \/ /\ link' = [link EXCEPT ![c] = "backlog"] /\ link[c] = "off" /\ sent' = sent
      \/ /\ link' = link /\ link[c] = "open" /\ sent' = [sent EXCEPT ![c] = @ + 1]
      \/ /\ link' = [link EXCEPT ![c] = "closed"] /\ link[c] = "open" /\ sent' = sent
  BY DEF Client, Connect, Send, Close
<1>3. NetInv'
  <2>1. /\ link' \in [Conns -> {"off", "backlog", "open", "closed"}]
        /\ sent' \in [Conns -> Nat]
    <3>1. link' = link \/ link' = [link EXCEPT ![c] = "backlog"] \/ link' = [link EXCEPT ![c] = "closed"]
      BY <1>2
    <3>2. sent' = sent \/ sent' = [sent EXCEPT ![c] = @ + 1]
      BY <1>2
    <3>3. link' \in [Conns -> {"off", "backlog", "open", "closed"}]
      BY <3>1 DEF LoopInv, NetInv
    <3>4. sent' \in [Conns -> Nat]
      <4>1. sent \in [Conns -> Nat]
        BY DEF LoopInv, NetInv
      <4>2. [sent EXCEPT ![c] = @ + 1] \in [Conns -> Nat]
        BY <4>1
      <4> QED
        BY <3>2, <4>1, <4>2
    <3> QED
      BY <3>3, <3>4
  <2>2. \A e \in Conns : e # c => link'[e] = link[e] /\ sent'[e] = sent[e]
    BY <1>2 DEF LoopInv, NetInv
  <2>3. /\ sent[c] <= sent'[c]
        /\ link'[c] \in {"off", "backlog"} => link[c] = "off" /\ sent'[c] = sent[c]
    BY <1>2 DEF LoopInv, NetInv
  <2>4. \A e \in Conns : read[e] \in Nat /\ sent[e] \in Nat /\ sent'[e] \in Nat /\ read[e] <= sent[e]
    BY <2>1 DEF LoopInv, NetInv
  <2>5. \A e \in Conns : read[e] <= sent'[e]
    BY <2>2, <2>3, <2>4
  <2>6. \A e \in Conns : link'[e] \in {"off", "backlog"} => sent'[e] = 0 /\ answers[e] = << >>
    BY <2>2, <2>3 DEF LoopInv, NetInv
  <2> QED
    BY <1>1, <2>1, <2>5, <2>6 DEF LoopInv, NetInv
<1>4. \A e \in Conns : link[e] \in {"open", "closed"} => link'[e] \in {"open", "closed"}
  BY <1>2 DEF LoopInv, NetInv
<1>5. ListInv'
  BY <1>1, <1>4, ListKeep DEF LoopInv
<1>6. RoundInv'
  BY <1>1 DEF LoopInv, RoundInv, NSocks, Conn
<1> QED
  BY <1>3, <1>5, <1>6 DEF LoopInv

\* The start of a round (service_sync.h:116).
LEMMA LoopInvPoll == ASSUME LoopInv, Poll PROVE LoopInv'
<1>1. /\ UNCHANGED <<link, sent, read, answers, socks, pending, burst>> /\ pc = "poll"
      /\ slot' = NextReady(1, Polled, NSocks)
  BY DEF Poll, netVars
<1>2. burst = << >>
  BY <1>1 DEF LoopInv, RoundInv
<1>3. NSocks \in Nat \ {0}
  BY LenProperties DEF LoopInv, ListInv, NSocks
<1>4. slot' \in 1 .. NSocks'
  <2>1. NextReady(1, Polled, NSocks) \in 1 .. NSocks
    BY <1>3, NextReadyRange
  <2> QED
    BY <2>1, <1>1 DEF NSocks
<1>5. RoundInv'
  BY <1>1, <1>2, <1>4 DEF LoopInv, RoundInv
<1>6. NetInv' /\ ListInv'
  BY <1>1, ListKeep DEF LoopInv, NetInv
<1> QED
  BY <1>5, <1>6 DEF LoopInv

\* What a reception brings (service_sync.h:23).
LEMMA RecvFacts ==
  ASSUME LoopInv, Recv
  PROVE  \E n \in Nat \ {0} :
           /\ read[Conn] + n <= sent[Conn]
           /\ burst' \in Seq(AnyUnit) /\ Len(burst') = n
           /\ \A k \in 1 .. n : burst'[k] = <<Conn, read[Conn] + k>>
           /\ read' = [read EXCEPT ![Conn] = @ + n]
<1>1. pc = "scan" /\ slot < NSocks
  BY DEF Recv, Scanning
<1>2. Conn \in Conns /\ read[Conn] \in Nat /\ sent[Conn] \in Nat
  BY <1>1, Here
<1>3. PICK n \in 1 .. sent[Conn] - read[Conn] :
        /\ burst' = [k \in 1 .. n |-> <<Conn, read[Conn] + k>>]
        /\ read' = [read EXCEPT ![Conn] = @ + n]
  BY DEF Recv
<1>4. n \in Nat \ {0} /\ read[Conn] + n <= sent[Conn]
  BY <1>2
<1>5. burst' \in [1 .. n -> AnyUnit]
  BY <1>2, <1>3, <1>4 DEF AnyUnit
<1>6. burst' \in Seq(AnyUnit)
  BY <1>4, <1>5, SeqDef
<1>7. DOMAIN burst' = 1 .. Len(burst') /\ Len(burst') \in Nat /\ DOMAIN burst' = 1 .. n
  BY <1>5, <1>6, LenProperties
<1>8. Len(burst') = n
  BY <1>4, <1>7
<1> QED
  BY <1>3, <1>4, <1>6, <1>8

\* A reception.
LEMMA LoopInvRecv == ASSUME LoopInv, Recv PROVE LoopInv'
<1>1. pc = "scan" /\ slot < NSocks /\ UNCHANGED <<link, sent, answers, socks, pending, pc, slot>>
  BY DEF Recv, Scanning
<1>2. /\ Conn \in Conns /\ read[Conn] \in Nat /\ sent[Conn] \in Nat
      /\ link[Conn] \in {"open", "closed"}
  BY <1>1, Here
<1>3. PICK n \in Nat \ {0} :
        /\ read[Conn] + n <= sent[Conn]
        /\ burst' \in Seq(AnyUnit) /\ Len(burst') = n
        /\ \A k \in 1 .. n : burst'[k] = <<Conn, read[Conn] + k>>
        /\ read' = [read EXCEPT ![Conn] = @ + n]
  BY RecvFacts
<1>4. Conn' = Conn /\ read'[Conn] = read[Conn] + n
      /\ \A c \in Conns : c # Conn => read'[c] = read[c]
  BY <1>1, <1>2, <1>3 DEF Conn, LoopInv, NetInv
<1>5. NetInv'
  <2>1. read' \in [Conns -> Nat]
    BY <1>2, <1>3 DEF LoopInv, NetInv
  <2>2. \A c \in Conns : read'[c] <= sent'[c]
    BY <1>1, <1>3, <1>4 DEF LoopInv, NetInv
  <2> QED
    BY <2>1, <2>2, <1>1 DEF LoopInv, NetInv
<1>6. ListInv'
  BY <1>1, ListKeep DEF LoopInv
<1>7. RoundInv'
  <2> DEFINE c == Conn
             r == read[c]
  <2>1. read'[Conn'] = r + n /\ Conn' = c
    BY <1>4
  <2>2. Len(burst') <= r + n
    BY <1>2, <1>3
  <2>3. \A k \in 1 .. n : burst'[k] = <<c, (r + n) - n + k>>
    <3>1. \A k \in 1 .. n : (r + n) - n + k = r + k
      BY <1>2
    <3> QED
      BY <3>1, <1>3
  <2> HIDE DEF c, r
  <2>4. pc' = "scan" /\ slot' < NSocks' /\ slot' \in 1 .. NSocks'
    BY <1>1 DEF LoopInv, RoundInv, NSocks
  <2>5. pending' \in [Slots -> Seq(AnyUnit)]
    BY <1>1 DEF LoopInv, RoundInv
  <2> QED
    BY <1>3, <2>1, <2>2, <2>3, <2>4, <2>5 DEF RoundInv
<1> QED
  BY <1>5, <1>6, <1>7 DEF LoopInv

\* A unit goes to the pending buffer (process_desc, called at service_sync.h:37).
LEMMA LoopInvKeep == ASSUME LoopInv, Keep PROVE LoopInv'
<1>1. /\ burst # << >> /\ UNCHANGED <<link, sent, read, answers, pc>>
      /\ pending' = [pending EXCEPT ![slot] = <<Head(burst)>>] /\ Advance(Tail(burst))
  BY DEF Keep, netVars
<1>2. pc = "scan" /\ slot < NSocks /\ Head(burst) \in AnyUnit /\ Len(burst) \in Nat \ {0}
  BY <1>1, BurstFacts
<1>3. NetInv'
  BY <1>1 DEF LoopInv, NetInv
<1>4. <<Head(burst)>> \in Seq(AnyUnit)
  BY <1>2
<1>5. pending' \in [Slots -> Seq(AnyUnit)]
  BY <1>1, <1>4 DEF LoopInv, RoundInv
<1>6. RoundInv' /\ socks' = socks
  BY <1>1, <1>2, <1>5, WithoutOne, AdvanceStep
<1>7. ListInv'
  BY <1>1, <1>6, ListKeep DEF LoopInv
<1> QED
  BY <1>3, <1>6, <1>7 DEF LoopInv

\* The service exits for a command it does not know or a pool that is empty.
LEMMA LoopInvExit == ASSUME LoopInv, Reject \/ NoBuffer PROVE LoopInv'
<1>1. UNCHANGED <<link, sent, read, answers, pc, socks, slot, burst, pending>>
  BY DEF Reject, NoBuffer, netVars
<1>2. ListInv'
  BY <1>1, ListKeep DEF LoopInv
<1> QED
  BY <1>1, <1>2 DEF LoopInv, NetInv, RoundInv, NSocks, Conn

\* The message that is handled is made of units.
LEMMA MessageType ==
  ASSUME LoopInv, burst # << >>, ~(Fresh /\ Alone) PROVE Message \in Seq(AnyUnit)
<1>1. slot \in Slots /\ Head(burst) \in AnyUnit
  BY BurstFacts, Here
<1>2. pending[slot] \in Seq(AnyUnit)
  BY <1>1 DEF LoopInv, RoundInv
<1>3. CASE Fresh
  <2>1. Len(burst) >= 2 /\ Len(burst) \in Nat /\ burst \in Seq(AnyUnit)
    BY <1>3, RestIsSuffix, BurstFacts DEF LoopInv, RoundInv
  <2>2. burst[1] \in AnyUnit /\ burst[2] \in AnyUnit
    BY <2>1, ElementOfSeq
  <2>3. <<burst[1], burst[2]>> \in Seq(AnyUnit)
    BY <2>2
  <2> QED
    BY <1>2, <1>3, <2>3 DEF Message
<1>4. CASE ~Fresh
  BY <1>4, <1>1, <1>2, AppendProperties DEF Message
<1> QED
  BY <1>3, <1>4

\* A message is answered (service_sync.h:50).
LEMMA LoopInvAnswer == ASSUME LoopInv, Answer PROVE LoopInv'
<1>1. /\ burst # << >> /\ UNCHANGED <<link, sent, read, pc>> /\ link[Conn] = "open"
      /\ answers' = [answers EXCEPT ![Conn] = Append(@, Message)]
      /\ pending' = [pending EXCEPT ![slot] = << >>]
      /\ Advance(Rest) /\ ~(Fresh /\ Alone)
  BY DEF Answer, Handle, Clear
<1>2. pc = "scan" /\ slot < NSocks
  BY <1>1, BurstFacts
<1>3. Conn \in Conns
  BY <1>2, Here
<1>4. Append(answers[Conn], Message) \in Seq(Seq(AnyUnit))
  BY <1>1, <1>3, MessageType, AppendProperties DEF LoopInv, NetInv
<1>5. NetInv'
  <2>1. answers' \in [Conns -> Seq(Seq(AnyUnit))]
    BY <1>1, <1>3, <1>4 DEF LoopInv, NetInv
  <2>2. \A c \in Conns : c # Conn => answers'[c] = answers[c]
    BY <1>1 DEF LoopInv, NetInv
  <2> QED
    BY <1>1, <2>1, <2>2 DEF LoopInv, NetInv
<1>6. pending' \in [Slots -> Seq(AnyUnit)]
  BY <1>1, EmptySeq DEF LoopInv, RoundInv
<1>7. \E d \in Nat : d <= Len(burst) /\ Without(d, Rest)
  BY <1>1, RestIsSuffix, BurstFacts
<1>8. RoundInv' /\ socks' = socks
  BY <1>1, <1>6, <1>7, AdvanceStep
<1>9. ListInv'
  BY <1>1, <1>8, ListKeep DEF LoopInv
<1> QED
  BY <1>5, <1>8, <1>9 DEF LoopInv

\* A connection is found closed, by a receive or by a send (service_sync.h:24, 55).
LEMMA LoopInvReset == ASSUME LoopInv, RecvReset \/ AnswerReset PROVE LoopInv'
<1>1. UNCHANGED <<link, sent, read, answers, pc>> /\ Remove /\ pc = "scan"
  BY DEF RecvReset, AnswerReset, Handle, Scanning, netVars
<1>2. slot < NSocks
  BY BurstFacts DEF RecvReset, AnswerReset, Handle
<1>3. pending' \in [Slots -> Seq(AnyUnit)]
  BY MessageType DEF RecvReset, AnswerReset, Handle, LoopInv, RoundInv
<1>4. ListInv' /\ RoundInv'
  BY <1>1, <1>2, <1>3, RemoveStep
<1>5. NetInv'
  BY <1>1 DEF LoopInv, NetInv
<1> QED
  BY <1>4, <1>5 DEF LoopInv

\* The receive loop is over when the loop over the sockets is.
LEMMA EndOfRound == ASSUME LoopInv, slot = NSocks PROVE burst = << >>
<1>1. NSocks \in Nat
  BY LenProperties DEF LoopInv, ListInv, NSocks
<1>2. ~(slot < NSocks)
  BY <1>1
<1> QED
  BY <1>2 DEF LoopInv, RoundInv

\* A connection is accepted (service_sync.h:139).
LEMMA LoopInvAccept == ASSUME LoopInv, Accept PROVE LoopInv'
<1>1. /\ pc' = "poll" /\ UNCHANGED <<sent, read, answers, pending, burst>>
      /\ slot = NSocks
  BY DEF Accept
<1>2. burst = << >>
  BY <1>1, EndOfRound
<1>3. RoundInv'
  BY <1>1, <1>2 DEF LoopInv, RoundInv
<1>4. CASE UNCHANGED <<link, socks>>
  BY <1>1, <1>3, <1>4, ListKeep DEF LoopInv, NetInv
<1>5. ASSUME NEW c \in Conns, link[c] = "backlog", link' = [link EXCEPT ![c] = "open"],
             socks' = Append(socks, c), ~Full
      PROVE  LoopInv'
  <2> DEFINE n == Len(socks)
  <2>1. n \in Nat /\ socks \in Seq(Conns) /\ NSocks = 1 + n /\ NSocks <= MaxSocks /\ MaxSocks \in Nat
    BY LenProperties, SyncAssumption DEF LoopInv, ListInv, NSocks
  <2>2. /\ socks' \in Seq(Conns) /\ Len(socks') = n + 1 /\ socks'[n + 1] = c
        /\ \A i \in 1 .. n : socks'[i] = socks[i]
    BY <1>5, <2>1, AppendProperties
  <2>3. \A i \in 1 .. n : socks[i] \in Conns /\ socks[i] # c /\ link[socks[i]] \in {"open", "closed"}
    BY <1>5, <2>1, ElementOfSeq DEF LoopInv, ListInv
  <2>4. \A i, k \in 1 .. n : socks[i] = socks[k] => i = k
    BY DEF LoopInv, ListInv
  <2> HIDE DEF n
  <2>5. \A i \in 1 .. n + 1 : i \in 1 .. n \/ i = n + 1
    BY <2>1
  <2>6. \A i, k \in 1 .. n + 1 : socks'[i] = socks'[k] => i = k
    BY <2>2, <2>3, <2>4, <2>5
  <2>7. link'[c] = "open" /\ \A e \in Conns : e # c => link'[e] = link[e]
    BY <1>5 DEF LoopInv, NetInv
  <2>8. \A i \in 1 .. n + 1 : link'[socks'[i]] \in {"open", "closed"}
    BY <2>2, <2>3, <2>5, <2>7
  <2>9. NSocks' <= MaxSocks
    <3>1. NSocks # MaxSocks
      BY <1>5 DEF Full
    <3>2. NSocks' = 1 + (n + 1)
      BY <2>2 DEF NSocks
    <3> QED
      BY <2>1, <3>1, <3>2
  <2>10. ListInv'
    BY <2>2, <2>6, <2>8, <2>9 DEF ListInv
  <2>11. NetInv'
    BY <1>1, <1>5, <2>7 DEF LoopInv, NetInv
  <2> QED
    BY <1>3, <2>10, <2>11 DEF LoopInv
<1> QED
  BY <1>4, <1>5 DEF Accept

\* The loop through a step of anyone.
LEMMA LoopInvNext == LoopInv /\ [Next]_vars => LoopInv'
<1> SUFFICES ASSUME LoopInv, [Next]_vars PROVE LoopInv'
  OBVIOUS
<1>1. CASE UNCHANGED vars
  <2>1. UNCHANGED <<link, sent, read, answers, socks, pending, pc, slot, burst>>
    BY <1>1 DEF vars, netVars
  <2>2. ListInv'
    BY <2>1, ListKeep DEF LoopInv
  <2> QED
    BY <2>1, <2>2 DEF LoopInv, NetInv, RoundInv, NSocks, Conn
<1> QED
  BY <1>1, LoopInvClient, LoopInvPoll, LoopInvRecv, LoopInvKeep, LoopInvExit, LoopInvAnswer,
     LoopInvReset, LoopInvAccept DEF Next, run_service
-----------------------------------------------------------------------------
(* Slots and answers *)

\* Pending buffer p is what w units of connection c leave after n answers.
Fits(c, p, w, n) == (p = << >> /\ w = 2 * n) \/ (p = << <<c, 2 * n + 1>> >> /\ w = 2 * n + 1)

Answers(c) == Len(answers[c])

\* A slot as its connection, buffer and counts.
LEMMA SlotFits ==
  \A s : SlotOK(s) <=> Fits(socks[s], pending[s], Taken(s), Answers(socks[s]))
BY DEF SlotOK, Fits, Answers

\* The same, after a step.
LEMMA SlotFitsNext ==
  ASSUME NEW s
  PROVE  SlotOK(s)' <=> Fits(socks'[s], pending'[s], Taken(s)', Len(answers'[socks'[s]]))
BY DEF SlotOK, Fits

\* The connection in a slot.
LEMMA SlotTypes ==
  ASSUME LoopInv, NEW s \in 1 .. Len(socks)
  PROVE  /\ s \in Slots /\ s \in Int /\ socks[s] \in Conns
         /\ read[socks[s]] \in Nat /\ Answers(socks[s]) \in Nat
         /\ Len(burst) \in Nat
<1>1. Len(socks) \in Nat /\ NSocks <= MaxSocks /\ MaxSocks \in Nat /\ socks \in Seq(Conns)
  BY SyncAssumption, LenProperties DEF LoopInv, ListInv
<1>2. s \in Slots /\ socks[s] \in Conns
  BY <1>1, ElementOfSeq DEF Slots, NSocks
<1>3. Answers(socks[s]) \in Nat /\ Len(burst) \in Nat
  BY <1>2, LenProperties DEF Answers, LoopInv, NetInv, RoundInv
<1> QED
  BY <1>2, <1>3 DEF LoopInv, NetInv

\* What the slots other than the one under process have processed: all.
LEMMA TakenElsewhere ==
  ASSUME LoopInv, NEW s \in 1 .. Len(socks), s # slot \/ burst = << >>
  PROVE  Taken(s) = read[socks[s]]
<1>1. Len(<< >>) = 0
  BY EmptySeq
<1>2. read[socks[s]] \in Nat
  BY SlotTypes
<1> QED
  BY <1>1, <1>2 DEF Taken

\* The same, after a step.
LEMMA TakenElsewhereNext ==
  ASSUME LoopInv', NEW s \in 1 .. Len(socks'), s # slot' \/ burst' = << >>
  PROVE  Taken(s)' = read'[socks'[s]]
<1>1. Len(<< >>) = 0
  BY EmptySeq
<1>2. socks'[s] \in Conns
  BY ElementOfSeq DEF LoopInv, ListInv
<1>3. read'[socks'[s]] \in Nat
  BY <1>2 DEF LoopInv, NetInv
<1> QED
  BY <1>1, <1>3 DEF Taken

\* What was handled is a request that was answered.
HandledOK ==
  \A m \in handled : \E c \in Conns : \E n \in 1 .. Len(answers[c]) : m = Request(c, n)

\* The parts of MatchInv, after a step.
LEMMA MatchParts ==
  ASSUME ~mixed' =>
    /\ \A s \in Slots : s \notin 1 .. Len(socks') => pending'[s] = << >>
    /\ \A s \in 1 .. Len(socks') : SlotOK(s)'
    /\ \A c \in Conns : answers'[c] = [n \in 1 .. Len(answers'[c]) |-> Request(c, n)]
    /\ HandledOK'
    /\ repeated' = {} /\ status' # "unknown command"
  PROVE  MatchInv'
BY DEF MatchInv, HandledOK

\* A step that leaves the data alone, and the slot too if there is a bulk.
LEMMA MatchKeep ==
  ASSUME LoopInv, LoopInv', MatchInv,
         UNCHANGED <<socks, pending, read, answers, handled, repeated, mixed, burst>>,
         slot' = slot \/ burst = << >>,
         status' = status \/ status' # "unknown command"
  PROVE  MatchInv'
<1> SUFFICES ASSUME ~mixed' PROVE MatchInv'
  BY DEF MatchInv
<1>1. ~mixed
  OBVIOUS
<1>2. ASSUME NEW s \in 1 .. Len(socks) PROVE SlotOK(s)'
  <2>1. SlotOK(s)
    BY <1>1 DEF MatchInv
  <2>2. Taken(s)' = Taken(s)
    <3>1. CASE slot' = slot
      BY <3>1 DEF Taken
    <3>2. CASE burst = << >>
      BY <3>2, TakenElsewhere, TakenElsewhereNext
    <3> QED
      BY <3>1, <3>2
  <2> QED
    BY <2>1, <2>2, SlotFits, SlotFitsNext DEF Answers
<1>3. HandledOK'
  BY <1>1 DEF MatchInv, HandledOK
<1> QED
  BY <1>1, <1>2, <1>3, MatchParts DEF MatchInv

\* A reception leaves what was processed as it was.
LEMMA MatchRecv == ASSUME LoopInv, LoopInv', MatchInv, Recv PROVE MatchInv'
<1> SUFFICES ASSUME ~mixed' PROVE MatchInv'
  BY DEF MatchInv
<1>1. /\ UNCHANGED <<socks, pending, answers, handled, repeated, mixed, slot, status>>
      /\ pc = "scan" /\ slot < NSocks /\ burst = << >> /\ ~mixed
  BY DEF Recv, Scanning
<1>2. PICK n \in Nat \ {0} :
        Len(burst') = n /\ read' = [read EXCEPT ![Conn] = @ + n]
  BY RecvFacts
<1>3. slot \in 1 .. Len(socks) /\ Conn \in Conns /\ read[Conn] \in Nat
  BY <1>1, Here
<1>4. read'[Conn] = read[Conn] + n /\ \A c \in Conns : c # Conn => read'[c] = read[c]
  BY <1>2, <1>3 DEF LoopInv, NetInv
<1>5. ASSUME NEW s \in 1 .. Len(socks) PROVE SlotOK(s)'
  <2>1. SlotOK(s) /\ Taken(s) = read[socks[s]]
    BY <1>1, TakenElsewhere DEF MatchInv
  <2>2. CASE s = slot
    <3>1. Taken(s)' = read'[Conn] - n
      BY <2>2, <1>1, <1>2 DEF Taken, Conn
    <3>2. Taken(s)' = Taken(s)
      BY <3>1, <2>1, <2>2, <1>3, <1>4 DEF Conn
    <3> QED
      BY <2>1, <3>2, <1>1, SlotFits, SlotFitsNext DEF Answers
  <2>3. CASE s # slot
    <3>1. socks[s] # Conn /\ socks[s] \in Conns
      BY <2>3, <1>3, SlotTypes DEF LoopInv, ListInv, Conn
    <3>2. Taken(s)' = read'[socks[s]]
      BY <2>3, <1>1, TakenElsewhereNext
    <3>3. Taken(s)' = Taken(s)
      BY <2>1, <3>1, <3>2, <1>4
    <3> QED
      BY <2>1, <3>3, <1>1, SlotFits, SlotFitsNext DEF Answers
  <2> QED
    BY <2>2, <2>3
<1>6. HandledOK'
  BY <1>1 DEF MatchInv, HandledOK
<1> QED
  BY <1>1, <1>5, <1>6, MatchParts DEF MatchInv

\* The slot under process, while there is a bulk and nothing is mixed.
LEMMA SlotNow ==
  ASSUME LoopInv, MatchInv, ~mixed, burst # << >>
  PROVE  LET n == Answers(Conn)
         IN /\ n \in Nat /\ Conn \in Conns /\ slot \in 1 .. Len(socks) /\ slot \in Slots
            /\ Len(burst) \in Nat \ {0} /\ read[Conn] \in Nat
            /\ Fits(Conn, pending[slot], read[Conn] - Len(burst), n)
<1>1. Len(burst) \in Nat \ {0} /\ pc = "scan" /\ slot < NSocks
  BY BurstFacts
<1>2. slot \in 1 .. Len(socks) /\ slot \in Slots /\ Conn \in Conns /\ read[Conn] \in Nat
  BY <1>1, Here
<1>3. Answers(Conn) \in Nat
  BY <1>2, SlotTypes DEF Conn
<1>4. SlotOK(slot)
  BY <1>2 DEF MatchInv
<1>5. Taken(slot) = read[Conn] - Len(burst)
  BY DEF Taken, Conn
<1> QED
  BY <1>1, <1>2, <1>3, <1>4, <1>5, SlotFits DEF Conn

\* The other slots, when a unit of the bulk is processed.
LEMMA OtherSlots ==
  ASSUME LoopInv, LoopInv', MatchInv, ~mixed, burst # << >>,
         UNCHANGED <<socks, read>>, burst' # << >> => slot' = slot,
         NEW s \in 1 .. Len(socks), s # slot,
         pending'[s] = pending[s], answers'[socks[s]] = answers[socks[s]]
  PROVE  SlotOK(s)'
<1>1. SlotOK(s) /\ Taken(s) = read[socks[s]]
  BY TakenElsewhere DEF MatchInv
<1>2. Taken(s)' = read'[socks'[s]]
  BY TakenElsewhereNext
<1> QED
  BY <1>1, <1>2, SlotFits, SlotFitsNext DEF Answers

\* The slot under process, when d units of the bulk were processed.
LEMMA ThisSlot ==
  ASSUME LoopInv, LoopInv', burst # << >>, UNCHANGED <<socks, read>>,
         NEW d \in Nat, d <= Len(burst), Without(d, burst'), burst' # << >> => slot' = slot,
         NEW s, s = slot
  PROVE  Taken(s)' = read[Conn] - Len(burst) + d /\ socks'[s] = Conn
<1> DEFINE r == read[Conn]
           b == Len(burst)
<1>1. b \in Nat \ {0} /\ Len(burst') = b - d /\ pc = "scan" /\ slot < NSocks
  BY BurstFacts DEF Without
<1>2. r \in Nat /\ s \in 1 .. Len(socks)
  BY <1>1, Here
<1>3. socks'[s] = Conn /\ read'[socks'[s]] = r
  BY DEF Conn
<1> HIDE DEF r, b
<1>4. CASE burst' = << >>
  <2>1. b - d = 0
    BY <1>1, <1>4, EmptySeq
  <2>2. Taken(s)' = r
    BY <1>2, <1>3, <1>4, TakenElsewhereNext
  <2>3. r = r - b + d
    BY <1>1, <1>2, <2>1
  <2> QED
    BY <1>3, <2>2, <2>3 DEF r, b
<1>5. CASE burst' # << >>
  <2>1. Taken(s)' = r - (b - d)
    BY <1>1, <1>3, <1>5 DEF Taken
  <2>2. r - (b - d) = r - b + d
    BY <1>1, <1>2
  <2> QED
    BY <2>1, <2>2, <1>3 DEF r, b
<1> QED
  BY <1>4, <1>5

\* In a slot with nothing pending the next unit is a header.
LEMMA NextUnit ==
  ASSUME LoopInv, MatchInv, ~mixed, burst # << >>, Fresh
  PROVE  LET n == Answers(Conn)
         IN /\ n \in Nat /\ read[Conn] - Len(burst) = 2 * n
            /\ Head(burst) = <<Conn, 2 * n + 1>> /\ Header(Head(burst))
<1> DEFINE n == Answers(Conn)
           c == Conn
<1>1. n \in Nat /\ Fits(c, pending[slot], read[c] - Len(burst), n)
  BY SlotNow
<1>2. read[c] - Len(burst) = 2 * n
  BY <1>1 DEF Fits, Fresh
<1>3. Head(burst) = <<c, 2 * n + 1>>
  BY <1>2, BurstFacts
<1>4. Head(burst)[2] = 2 * n + 1 /\ (2 * n + 1) % 2 = 1
  BY <1>1, <1>3
<1> QED
  BY <1>1, <1>2, <1>3, <1>4 DEF Header

\* The first unit of a request is kept.
LEMMA MatchKeepUnit == ASSUME LoopInv, LoopInv', MatchInv, Keep PROVE MatchInv'
<1> SUFFICES ASSUME ~mixed' PROVE MatchInv'
  BY DEF MatchInv
<1>1. /\ burst # << >> /\ Fresh
      /\ UNCHANGED <<read, answers, handled, repeated, status>>
      /\ pending' = [pending EXCEPT ![slot] = <<Head(burst)>>] /\ Advance(Tail(burst))
  BY DEF Keep, netVars
<1>2. UNCHANGED <<socks, mixed>> /\ ~mixed /\ burst' = Tail(burst) /\ (burst' # << >> => slot' = slot)
  BY <1>1 DEF Advance
<1> DEFINE n == Answers(Conn)
           c == Conn
<1>3. c \in Conns /\ slot \in 1 .. Len(socks) /\ slot \in Slots /\ Len(burst) \in Nat \ {0}
  BY <1>1, <1>2, SlotNow
<1>4. n \in Nat /\ read[c] - Len(burst) = 2 * n /\ Head(burst) = <<c, 2 * n + 1>>
  BY <1>1, <1>2, NextUnit
<1>5. /\ \A t \in Slots : t # slot => pending'[t] = pending[t]
      /\ pending'[slot] = << <<c, 2 * n + 1>> >>
  BY <1>1, <1>3, <1>4 DEF LoopInv, RoundInv
<1>6. ASSUME NEW s \in 1 .. Len(socks) PROVE SlotOK(s)'
  <2>1. CASE s = slot
    <3>1. Taken(s)' = read[c] - Len(burst) + 1 /\ socks'[s] = c
      BY <1>1, <1>2, <1>3, <2>1, WithoutOne, ThisSlot
    <3>2. Taken(s)' = 2 * n + 1 /\ Len(answers'[socks'[s]]) = n
      BY <1>1, <1>4, <3>1 DEF Answers
    <3> HIDE DEF n, c
    <3> QED
      BY <3>1, <3>2, <1>5, <2>1, SlotFitsNext DEF Fits
  <2>2. CASE s # slot
    <3>1. s \in Slots
      BY SlotTypes
    <3> QED
      BY <1>1, <1>2, <1>5, <2>2, <3>1, OtherSlots
  <2> QED
    BY <2>1, <2>2
<1>7. \A s \in Slots : s \notin 1 .. Len(socks) => pending'[s] = << >>
  BY <1>2, <1>3, <1>5 DEF MatchInv
<1>8. HandledOK'
  BY <1>1, <1>2 DEF MatchInv, HandledOK
<1> QED
  BY <1>1, <1>2, <1>6, <1>7, <1>8, MatchParts DEF MatchInv

\* An unknown command is found only after a slot changed hands.
LEMMA MatchExit == ASSUME LoopInv, LoopInv', MatchInv, Reject \/ NoBuffer PROVE MatchInv'
<1>1. UNCHANGED <<socks, pending, read, answers, handled, repeated, mixed, burst, slot>>
  BY DEF Reject, NoBuffer, netVars
<1>2. CASE Reject
  <2>1. burst # << >> /\ Fresh /\ ~Header(Head(burst))
    BY <1>2 DEF Reject
  <2>2. mixed
    BY <2>1, NextUnit
  <2> QED
    BY <1>1, <2>2 DEF MatchInv
<1>3. CASE NoBuffer
  <2>1. status' = "no buffers"
    BY <1>3 DEF NoBuffer
  <2> QED
    BY <1>1, <2>1, MatchKeep
<1> QED
  BY <1>2, <1>3

\* Requests are named by their connection and number.
LEMMA RequestInjective ==
  ASSUME NEW c, NEW d, NEW m \in Nat, NEW n \in Nat, Request(c, m) = Request(d, n)
  PROVE  c = d /\ m = n
<1>1. Request(c, m)[1] = <<c, 2 * m - 1>> /\ Request(d, n)[1] = <<d, 2 * n - 1>>
  BY DEF Request
<1>2. c = d /\ 2 * m - 1 = 2 * n - 1
  BY <1>1
<1> QED
  BY <1>2

\* A sequence of one and another.
LEMMA AppendTwo == \A a, b : Append(<<a>>, b) = <<a, b>>
<1> TAKE a, b
<1> DEFINE S == {a, b}
           p == Append(<<a>>, b)
           q == <<a, b>>
<1>1. <<a>> \in Seq(S) /\ b \in S /\ Len(<<a>>) = 1 /\ <<a>>[1] = a
  OBVIOUS
<1>2. p \in Seq(S) /\ Len(p) = 2 /\ p[1] = a /\ p[2] = b
  BY <1>1, AppendProperties
<1>3. q \in Seq(S) /\ Len(q) = 2 /\ q[1] = a /\ q[2] = b
  OBVIOUS
<1> HIDE DEF p, q, S
<1>4. \A k \in 1 .. 2 : p[k] = q[k]
  BY <1>2, <1>3
<1>5. p = q
  BY <1>2, <1>3, <1>4, SeqEqual
<1> QED
  BY <1>5 DEF p, q

\* The message that is answered is the next request of its connection.
LEMMA MessageIsNext ==
  ASSUME LoopInv, MatchInv, ~mixed, burst # << >>, ~(Fresh /\ Alone)
  PROVE  /\ Message = Request(Conn, Answers(Conn) + 1)
         /\ \E d \in Nat : /\ d <= Len(burst) /\ Without(d, Rest)
                            /\ read[Conn] - Len(burst) + d = 2 * (Answers(Conn) + 1)
<1> DEFINE n == Answers(Conn)
           c == Conn
           b == Len(burst)
           r == read[c]
<1>1. /\ n \in Nat /\ b \in Nat \ {0} /\ r \in Nat
      /\ Fits(c, pending[slot], r - b, n)
  BY SlotNow
<1>2. \A k \in 1 .. b : burst[k] = <<c, r - b + k>>
  BY DEF LoopInv, RoundInv
<1>3. Head(burst) = burst[1]
  BY BurstFacts
<1> HIDE DEF n, c, b, r
<1>4. 2 * (n + 1) - 1 = 2 * n + 1 /\ 2 * (n + 1) = 2 * n + 2 /\ 2 * n + 1 + 1 = 2 * n + 2
  BY <1>1
<1>5. Request(c, n + 1) = << <<c, 2 * n + 1>>, <<c, 2 * n + 2>> >>
  BY <1>4 DEF Request
<1>6. CASE Fresh
  <2>1. r - b = 2 * n
    BY <1>1, <1>6 DEF Fits, Fresh
  <2>2. ~Complete /\ b >= 2 /\ Without(2, Rest)
    BY <1>6, RestIsSuffix DEF b
  <2>3. burst[1] = <<c, 2 * n + 1>> /\ burst[2] = <<c, 2 * n + 2>>
    BY <1>1, <1>2, <2>1, <2>2
  <2>4. Message = <<burst[1], burst[2]>>
    BY <1>6, <2>2 DEF Message
  <2>5. 2 <= b /\ r - b + 2 = 2 * (n + 1)
    BY <1>4, <2>1, <2>2
  <2> QED
    BY <1>5, <2>2, <2>3, <2>4, <2>5 DEF n, c, b, r
<1>7. CASE ~Fresh
  <2>1. pending[slot] = << <<c, 2 * n + 1>> >> /\ r - b = 2 * n + 1
    BY <1>1, <1>7 DEF Fits, Fresh
  <2>2. ~Complete
    <3>1. Len(pending[slot]) = 1
      BY <2>1
    <3> QED
      BY <3>1 DEF Complete
  <2>3. burst[1] = <<c, 2 * n + 2>>
    BY <1>1, <1>2, <1>4, <2>1
  <2>4. Message = Append(pending[slot], burst[1])
    BY <1>3, <1>7, <2>2 DEF Message
  <2>5. Message = Request(c, n + 1)
    BY <1>5, <2>1, <2>3, <2>4, AppendTwo
  <2>6. Without(1, Rest)
    BY <1>7, <2>2, RestIsSuffix
  <2>7. 1 <= b /\ r - b + 1 = 2 * (n + 1)
    BY <1>1, <1>4, <2>1
  <2> QED
    BY <2>5, <2>6, <2>7 DEF n, c, b, r
<1> QED
  BY <1>6, <1>7

\* A connection's answers with the next request's.
LEMMA AnswersGrow ==
  ASSUME NEW c, NEW a \in Seq(Seq(AnyUnit)), a = [k \in 1 .. Len(a) |-> Request(c, k)],
         NEW m \in Seq(AnyUnit), m = Request(c, Len(a) + 1)
  PROVE  /\ Len(Append(a, m)) = Len(a) + 1
         /\ Append(a, m) = [k \in 1 .. Len(Append(a, m)) |-> Request(c, k)]
<1> DEFINE n == Len(a)
           b == Append(a, m)
<1>1. n \in Nat /\ \A k \in 1 .. n : a[k] = Request(c, k)
  BY LenProperties
<1>2. /\ b \in Seq(Seq(AnyUnit)) /\ Len(b) = n + 1
      /\ \A k \in 1 .. n : b[k] = a[k]
      /\ b[n + 1] = m
  BY AppendProperties
<1>3. DOMAIN b = 1 .. n + 1 /\ b = [k \in DOMAIN b |-> b[k]]
  BY <1>2, LenProperties
<1> HIDE DEF n, b
<1>4. \A k \in 1 .. n + 1 : b[k] = Request(c, k)
  <2>1. \A k \in 1 .. n + 1 : k \in 1 .. n \/ k = n + 1
    BY <1>1
  <2> QED
    BY <1>1, <1>2, <2>1 DEF n
<1>5. b = [k \in 1 .. n + 1 |-> Request(c, k)]
  BY <1>3, <1>4
<1> QED
  BY <1>2, <1>5 DEF n, b

\* The answer goes to the connection whose request it is.
LEMMA MatchAnswer == ASSUME LoopInv, LoopInv', MatchInv, Answer PROVE MatchInv'
<1> SUFFICES ASSUME ~mixed' PROVE MatchInv'
  BY DEF MatchInv
<1>1. /\ burst # << >> /\ ~(Fresh /\ Alone) /\ UNCHANGED <<read, status>> /\ Handle
      /\ answers' = [answers EXCEPT ![Conn] = Append(@, Message)]
      /\ pending' = [pending EXCEPT ![slot] = << >>]
      /\ Advance(Rest)
  BY DEF Answer, Handle, Clear
<1>2. UNCHANGED <<socks, mixed>> /\ ~mixed
  BY <1>1 DEF Advance
<1> DEFINE c == Conn
           n == Answers(c)
<1>3. Message = Request(c, n + 1)
  BY <1>1, <1>2, MessageIsNext
<1>4. n \in Nat /\ c \in Conns /\ slot \in 1 .. Len(socks) /\ slot \in Slots
  BY <1>1, <1>2, SlotNow
<1>5. burst' = Rest /\ (burst' # << >> => slot' = slot)
  BY <1>1 DEF Advance
<1>6. Message \in Seq(AnyUnit)
  BY <1>1, MessageType
<1>7. answers'[c] = Append(answers[c], Message) /\ \A d \in Conns : d # c => answers'[d] = answers[d]
  BY <1>1, <1>4 DEF LoopInv, NetInv
<1>8. answers[c] \in Seq(Seq(AnyUnit)) /\ answers[c] = [k \in 1 .. Len(answers[c]) |-> Request(c, k)]
  BY <1>2, <1>4 DEF LoopInv, NetInv, MatchInv
<1>9. /\ Len(answers'[c]) = n + 1
      /\ answers'[c] = [k \in 1 .. Len(answers'[c]) |-> Request(c, k)]
  BY <1>3, <1>6, <1>7, <1>8, AnswersGrow DEF Answers
<1>10. \A d \in Conns : answers'[d] = [k \in 1 .. Len(answers'[d]) |-> Request(d, k)]
  <2> SUFFICES ASSUME NEW d \in Conns
               PROVE  answers'[d] = [k \in 1 .. Len(answers'[d]) |-> Request(d, k)]
    OBVIOUS
  <2>1. CASE d = c
    BY <2>1, <1>9
  <2>2. CASE d # c
    BY <2>2, <1>2, <1>7 DEF MatchInv
  <2> QED
    BY <2>1, <2>2
<1>11. /\ \A t \in Slots : t # slot => pending'[t] = pending[t]
       /\ pending'[slot] = << >>
  BY <1>1, <1>4 DEF LoopInv, RoundInv
<1>12. ASSUME NEW s \in 1 .. Len(socks) PROVE SlotOK(s)'
  <2>1. CASE s = slot
    <3>1. PICK d \in Nat : /\ d <= Len(burst) /\ Without(d, Rest)
                            /\ read[c] - Len(burst) + d = 2 * (n + 1)
      BY <1>1, <1>2, MessageIsNext
    <3>2. Taken(s)' = read[c] - Len(burst) + d /\ socks'[s] = c
      BY <1>1, <1>2, <1>5, <2>1, <3>1, ThisSlot
    <3>3. Taken(s)' = 2 * (n + 1)
      BY <3>1, <3>2
    <3> HIDE DEF n, c
    <3> QED
      BY <3>2, <3>3, <2>1, <1>9, <1>11, SlotFitsNext DEF Fits
  <2>2. CASE s # slot
    <3>1. s \in Slots /\ socks[s] # c /\ socks[s] \in Conns
      BY <2>2, <1>4, SlotTypes DEF LoopInv, ListInv, Conn
    <3> QED
      BY <1>1, <1>2, <1>5, <1>7, <1>11, <2>2, <3>1, OtherSlots
  <2> QED
    BY <2>1, <2>2
<1>13. \A s \in Slots : s \notin 1 .. Len(socks) => pending'[s] = << >>
  BY <1>2, <1>11 DEF MatchInv
<1> HIDE DEF n, c
<1>14. HandledOK /\ repeated = {} /\ status # "unknown command"
  BY <1>2 DEF MatchInv, HandledOK
<1>15. Message \notin handled
  <2> SUFFICES ASSUME NEW d \in Conns, NEW m \in 1 .. Len(answers[d]), Request(c, n + 1) = Request(d, m)
               PROVE  FALSE
    BY <1>3, <1>14 DEF HandledOK
  <2>1. n + 1 \in Nat /\ m \in Nat /\ n = Len(answers[c])
    BY <1>4 DEF n, Answers
  <2>2. c = d /\ n + 1 = m
    BY <2>1, RequestInjective
  <2> QED
    BY <2>1, <2>2, <1>4
<1>16. HandledOK'
  <2>1. handled' = handled \cup {Message}
    BY <1>1 DEF Handle
  <2>2. n + 1 \in 1 .. Len(answers'[c])
    BY <1>4, <1>9
  <2>3. \A d \in Conns : \A k \in 1 .. Len(answers[d]) : k \in 1 .. Len(answers'[d])
    <3> SUFFICES ASSUME NEW d \in Conns, NEW k \in 1 .. Len(answers[d]) PROVE k \in 1 .. Len(answers'[d])
      OBVIOUS
    <3>1. n = Len(answers[c])
      BY DEF n, Answers
    <3>2. CASE d = c
      BY <3>1, <3>2, <1>4, <1>9
    <3>3. CASE d # c
      BY <3>3, <1>7
    <3> QED
      BY <3>2, <3>3
  <2> QED
    BY <1>3, <1>4, <1>14, <2>1, <2>2, <2>3 DEF HandledOK
<1>17. repeated' = {}
  BY <1>1, <1>14, <1>15 DEF Handle
<1> QED
  BY <1>1, <1>2, <1>10, <1>12, <1>13, <1>14, <1>16, <1>17, MatchParts

\* A connection that leaves with all the pending buffers from its slot on empty
\* leaves the others theirs.
LEMMA MatchReset == ASSUME LoopInv, LoopInv', MatchInv, RecvReset PROVE MatchInv'
<1> SUFFICES ASSUME ~mixed' PROVE MatchInv'
  BY DEF MatchInv
<1>1. /\ pc = "scan" /\ burst = << >> /\ slot < NSocks
      /\ UNCHANGED <<link, read, answers, pending, handled, repeated, status, pc>> /\ Remove
  BY DEF RecvReset, Scanning, netVars
<1>2. ~mixed /\ \A t \in slot .. MaxSocks - 1 : pending[t] = << >>
  BY <1>1 DEF Remove
<1>3. pending' \in [Slots -> Seq(AnyUnit)]
  BY <1>1 DEF LoopInv, RoundInv
<1>4. /\ burst' = << >> /\ Len(socks') = Len(socks) - 1
      /\ \A i \in 1 .. Len(socks') : socks'[i] = IF i < slot THEN socks[i] ELSE socks[i + 1]
  BY <1>1, <1>3, RemoveStep
<1>5. /\ Len(socks) \in Nat /\ slot \in 1 .. Len(socks) /\ Len(socks) <= MaxSocks - 1
      /\ MaxSocks \in Nat
  BY <1>1, Here
<1>6. ASSUME NEW s \in 1 .. Len(socks') PROVE SlotOK(s)'
  <2> DEFINE t == IF s < slot THEN s ELSE s + 1
  <2>1. t \in 1 .. Len(socks) /\ socks'[s] = socks[t]
    BY <1>4, <1>5
  <2>2. pending[s] = pending[t]
    <3>1. CASE s < slot
      BY <3>1
    <3>2. CASE ~(s < slot)
      <4>1. s \in slot .. MaxSocks - 1 /\ t \in slot .. MaxSocks - 1
        BY <3>2, <1>4, <1>5
      <4> QED
        BY <4>1, <1>2
    <3> QED
      BY <3>1, <3>2
  <2> HIDE DEF t
  <2>3. SlotOK(t) /\ Taken(t) = read[socks[t]]
    BY <1>1, <1>2, <2>1, TakenElsewhere DEF MatchInv
  <2>4. Taken(s)' = read'[socks'[s]]
    BY <1>4, TakenElsewhereNext
  <2> QED
    BY <1>1, <2>1, <2>2, <2>3, <2>4, SlotFits, SlotFitsNext DEF Answers
<1>7. ASSUME NEW s \in Slots, s \notin 1 .. Len(socks') PROVE pending'[s] = << >>
  <2>1. s \notin 1 .. Len(socks) \/ s \in slot .. MaxSocks - 1
    BY <1>4, <1>5, <1>7 DEF Slots
  <2> QED
    BY <1>1, <1>2, <2>1 DEF MatchInv
<1>8. HandledOK'
  BY <1>1, <1>2 DEF MatchInv, HandledOK
<1> QED
  BY <1>1, <1>2, <1>6, <1>7, <1>8, MatchParts DEF MatchInv

LEMMA MessageFull == ASSUME LoopInv, burst # << >> PROVE Message # << >>
<1>1. slot \in Slots /\ Head(burst) \in AnyUnit
  BY BurstFacts, Here
<1>2. pending[slot] \in Seq(AnyUnit)
  BY <1>1 DEF LoopInv, RoundInv
<1>3. CASE Complete
  BY <1>3, EmptySeq DEF Message, Complete
<1>4. CASE Fresh /\ ~Complete
  BY <1>4 DEF Message
<1>5. CASE ~Fresh /\ ~Complete
  BY <1>5, <1>1, <1>2, AppendProperties DEF Message
<1> QED
  BY <1>3, <1>4, <1>5

\* A failed send leaves its message in the slot, which the next connection gets.
LEMMA MatchFail == ASSUME LoopInv, AnswerReset PROVE mixed'
<1>1. /\ burst # << >> /\ ~(Fresh /\ Alone)
      /\ pending' = [pending EXCEPT ![slot] = Message] /\ Remove
  BY DEF AnswerReset, Handle
<1>2. slot \in Slots
  BY <1>1, BurstFacts, Here
<1>4. Message # << >>
  BY <1>1, MessageFull
<1>5. pending'[slot] = Message
  BY <1>1, <1>2 DEF LoopInv, RoundInv
<1>6. slot \in slot .. MaxSocks - 1
  BY <1>2, SyncAssumption DEF Slots
<1> QED
  BY <1>1, <1>4, <1>5, <1>6 DEF Remove

\* A new connection gets an empty slot.
LEMMA MatchAccept == ASSUME LoopInv, LoopInv', MatchInv, Accept PROVE MatchInv'
<1> SUFFICES ASSUME ~mixed' PROVE MatchInv'
  BY DEF MatchInv
<1>1. /\ UNCHANGED <<read, answers, pending, handled, repeated, mixed, burst>>
      /\ slot = NSocks /\ ~mixed
      /\ status' = status \/ status' = "max connections"
  BY DEF Accept
<1>2. burst = << >>
  BY <1>1, EndOfRound
<1>3. CASE socks' = socks
  BY <1>1, <1>2, <1>3, MatchKeep
<1>4. ASSUME NEW c \in Conns, link[c] = "backlog", socks' = Append(socks, c), ~Full PROVE MatchInv'
  <2> DEFINE n == Len(socks)
  <2>1. n \in Nat /\ socks \in Seq(Conns)
    BY LenProperties DEF LoopInv, ListInv
  <2>2. /\ Len(socks') = n + 1 /\ socks'[n + 1] = c
        /\ \A i \in 1 .. n : socks'[i] = socks[i]
    BY <1>4, <2>1, AppendProperties
  <2>3. read[c] = 0 /\ Len(answers[c]) = 0
    <3>1. sent[c] = 0 /\ answers[c] = << >> /\ read[c] \in Nat /\ read[c] <= sent[c]
      BY <1>4 DEF LoopInv, NetInv
    <3> QED
      BY <3>1, EmptySeq
  <2>4. n + 1 \in Slots /\ n + 1 \notin 1 .. n
    <3>1. NSocks' <= MaxSocks /\ NSocks' = 1 + (n + 1) /\ MaxSocks \in Nat
      BY <2>2, SyncAssumption DEF LoopInv, ListInv, NSocks
    <3> QED
      BY <2>1, <3>1 DEF Slots
  <2>5. pending[n + 1] = << >>
    BY <1>1, <2>4 DEF MatchInv
  <2> HIDE DEF n
  <2>6. ASSUME NEW s \in 1 .. n + 1 PROVE SlotOK(s)'
    <3>1. Taken(s)' = read[socks'[s]]
      BY <1>1, <1>2, <2>2, TakenElsewhereNext
    <3>2. CASE s = n + 1
      <4>1. socks'[s] = c /\ pending'[s] = << >>
        BY <3>2, <1>1, <2>2, <2>5
      <4>2. Taken(s)' = 2 * 0 /\ Len(answers'[socks'[s]]) = 0
        <5>1. read[socks'[s]] = 0 /\ answers'[socks'[s]] = answers[c]
          BY <4>1, <1>1, <2>3
        <5>2. 2 * 0 = 0
          OBVIOUS
        <5>3. Taken(s)' = 2 * 0
          BY <3>1, <5>1, <5>2
        <5> QED
          BY <5>1, <5>3, <2>3
      <4> QED
        BY <4>1, <4>2, SlotFitsNext DEF Fits
    <3>3. CASE s # n + 1
      <4>1. s \in 1 .. Len(socks)
        BY <3>3, <2>1 DEF n
      <4>2. SlotOK(s) /\ Taken(s) = read[socks[s]] /\ socks'[s] = socks[s]
        BY <1>1, <1>2, <2>2, <4>1, TakenElsewhere DEF MatchInv, n
      <4> QED
        BY <3>1, <4>2, <1>1, SlotFits, SlotFitsNext DEF Answers
    <3> QED
      BY <3>2, <3>3
  <2>7. \A s \in Slots : s \notin 1 .. n + 1 => pending'[s] = << >>
    <3>1. \A s \in 1 .. n : s \in 1 .. n + 1
      BY <2>1
    <3> QED
      BY <1>1, <3>1 DEF MatchInv, n
  <2>8. HandledOK'
    BY <1>1 DEF MatchInv, HandledOK
  <2> QED
    BY <1>1, <2>2, <2>6, <2>7, <2>8, MatchParts DEF MatchInv
<1> QED
  BY <1>3, <1>4 DEF Accept

\* Nothing is mixed at the start.
LEMMA MatchInvInit == Init => MatchInv
<1> SUFFICES ASSUME Init PROVE MatchInv
  OBVIOUS
<1>1. /\ socks = << >> /\ pending = [s \in Slots |-> << >>] /\ handled = {} /\ repeated = {}
      /\ status = "run" /\ answers = [c \in Conns |-> << >>]
  BY DEF Init
<1>2. Len(socks) = 0 /\ 1 .. Len(socks) = {}
  BY <1>1, EmptySeq
<1>3. \A c \in Conns : answers[c] = [n \in 1 .. Len(answers[c]) |-> Request(c, n)]
  <2> TAKE c \in Conns
  <2>1. answers[c] = << >> /\ Len(<< >>) = 0
    BY <1>1, EmptySeq
  <2>2. << >> = [n \in 1 .. 0 |-> Request(c, n)]
    OBVIOUS
  <2> QED
    BY <2>1, <2>2
<1> QED
  BY <1>1, <1>2, <1>3 DEF MatchInv

\* Slots and answers through a step of anyone.
LEMMA MatchInvNext == LoopInv /\ MatchInv /\ [Next]_vars => MatchInv'
<1> SUFFICES ASSUME LoopInv, MatchInv, [Next]_vars PROVE MatchInv'
  OBVIOUS
<1>1. LoopInv'
  BY LoopInvNext
<1>2. CASE UNCHANGED vars \/ \E c \in Conns : Client(c)
  <2>1. UNCHANGED <<socks, pending, read, answers, handled, repeated, mixed, burst, slot, status>>
    BY <1>2 DEF vars, netVars, Client, Connect, Send, Close
  <2> QED
    BY <1>1, <2>1, MatchKeep
<1>3. CASE Poll
  <2>1. /\ UNCHANGED <<socks, pending, read, answers, handled, repeated, mixed, burst, status>>
        /\ burst = << >>
    BY <1>3 DEF Poll, netVars, LoopInv, RoundInv
  <2> QED
    BY <1>1, <2>1, MatchKeep
<1>4. CASE AnswerReset
  BY <1>4, MatchFail DEF MatchInv
<1> QED
  BY <1>1, <1>2, <1>3, <1>4, MatchRecv, MatchKeepUnit, MatchExit, MatchAnswer, MatchReset, MatchAccept
     DEF Next, run_service
-----------------------------------------------------------------------------
(* Buffers *)

Received == UNION {{c} \X (1 .. read[c]) : c \in Conns}
Known == Spare \cup came

\* A slot with nothing pending has no buffer, and one with something has one.
SlotsInv ==
  \A s \in Slots : IF pending[s] = << >> THEN addr[s] = {} ELSE \E b \in Known : addr[s] = {b}

\* The buffers of pool B, clients O, bulk L, slots H and the lost ones Z are those
\* of A, apart but for the spoiled ones S.
Apart(B, O, L, H, Z, S, A) ==
  /\ \A x : x \in A <=> (x \in B \/ x \in O \/ x \in L \/ x \in Z \/ \E s \in Slots : x \in H[s])
  /\ \A x \in S : x \in B \/ x \in O \/ \E s \in Slots : x \in H[s]
  /\ \A x \in L : x \notin B /\ x \notin O /\ x \notin Z /\ x \notin S /\ \A s \in Slots : x \notin H[s]
  /\ \A x : x \in O /\ x \in B => x \in S
  /\ \A x \in Z : x \in B \/ x \in O => x \in S
  /\ \A s \in Slots : \A x \in H[s] : x \in B \/ x \in O \/ x \in Z => x \in S
  /\ \A s, t \in Slots : \A x \in H[s] : s # t /\ x \in H[t] => x \in S

\* The parts of BufInv.
LEMMA BufParts ==
  BufInv <=> /\ HomeInv /\ SlotsInv /\ addr \in [Slots -> SUBSET Known]
             /\ came \subseteq Received /\ lost \cup spoiled \subseteq came
             /\ Apart(pool, out, Left, addr, lost, spoiled, Known)
<1> HIDE DEF Left, HomeInv
<1>1. \A x : x \in Held <=> \E s \in Slots : x \in addr[s]
  BY DEF Held
<1> HIDE DEF Held
<1>2. (pool \cup out \cup Left \cup Held \cup lost = Known) <=>
        \A x : x \in Known <=> (x \in pool \/ x \in out \/ x \in Left \/ x \in lost \/ x \in Held)
  OBVIOUS
<1>3. (\A s, t \in Slots : s # t => addr[s] \cap addr[t] \subseteq spoiled) <=>
        \A s, t \in Slots : \A x \in addr[s] : s # t /\ x \in addr[t] => x \in spoiled
  OBVIOUS
<1>4. (Held \cap (pool \cup out) \subseteq spoiled /\ lost \cap (pool \cup out \cup Held) \subseteq spoiled) <=>
        /\ \A x \in lost : x \in pool \/ x \in out => x \in spoiled
        /\ \A s \in Slots : \A x \in addr[s] : x \in pool \/ x \in out \/ x \in lost => x \in spoiled
  BY <1>1
<1>5. Left \cap (pool \cup out \cup Held \cup lost \cup spoiled) = {} <=>
        \A x \in Left : /\ x \notin pool /\ x \notin out /\ x \notin lost /\ x \notin spoiled
                        /\ \A s \in Slots : x \notin addr[s]
  BY <1>1
<1>6. spoiled \subseteq pool \cup out \cup Held <=>
        \A x \in spoiled : x \in pool \/ x \in out \/ \E s \in Slots : x \in addr[s]
  BY <1>1
<1>7. pool \cap out \subseteq spoiled <=> \A x : x \in out /\ x \in pool => x \in spoiled
  OBVIOUS
<1>8. Apart(pool, out, Left, addr, lost, spoiled, Known) <=>
        /\ pool \cup out \cup Left \cup Held \cup lost = Known
        /\ spoiled \subseteq pool \cup out \cup Held
        /\ Left \cap (pool \cup out \cup Held \cup lost \cup spoiled) = {}
        /\ pool \cap out \subseteq spoiled
        /\ lost \cap (pool \cup out \cup Held) \subseteq spoiled
        /\ Held \cap (pool \cup out) \subseteq spoiled
        /\ \A s, t \in Slots : s # t => addr[s] \cap addr[t] \subseteq spoiled
  BY <1>1, <1>2, <1>3, <1>4, <1>5, <1>6, <1>7, Zenon DEF Apart
<1> QED
  BY <1>8, Zenon DEF BufInv, SlotsInv, Received, Known

\* A buffer of the bulk becomes the pending one.
LEMMA ApartStay ==
  ASSUME NEW B, NEW O, NEW L, NEW H, NEW Z, NEW S, NEW A, Apart(B, O, L, H, Z, S, A),
         NEW x \in L, NEW s \in Slots, H[s] = {},
         NEW M, \A y : y \in M <=> y \in L /\ y # x,
         NEW G, G[s] = {x}, \A t \in Slots : t # s => G[t] = H[t]
  PROVE  Apart(B, O, M, G, Z, S, A)
<1>1. \A y : (\E t \in Slots : y \in G[t]) <=> (y = x \/ \E t \in Slots : y \in H[t])
  OBVIOUS
<1>2. \A y : y \in A <=> (y \in B \/ y \in O \/ y \in M \/ y \in Z \/ \E t \in Slots : y \in G[t])
  BY <1>1 DEF Apart
<1>3. \A t \in Slots : \A y \in G[t] : y = x \/ (t # s /\ y \in H[t])
  OBVIOUS
<1>4. \A t, u \in Slots : \A y \in G[t] : t # u /\ y \in G[u] => y \in S
  BY <1>3 DEF Apart
<1>5. \A t \in Slots : \A y \in G[t] : y \in B \/ y \in O \/ y \in Z => y \in S
  BY <1>3 DEF Apart
<1>6. \A y \in M : y \notin B /\ y \notin O /\ y \notin Z /\ y \notin S /\ \A t \in Slots : y \notin G[t]
  BY <1>3 DEF Apart
<1>7. \A y \in S : y \in B \/ y \in O \/ \E t \in Slots : y \in G[t]
  BY <1>1 DEF Apart
<1> QED
  BY <1>2, <1>4, <1>5, <1>6, <1>7 DEF Apart

\* A buffer of the pool becomes the pending one, and one of the bulk is lost.
LEMMA ApartRelocate ==
  ASSUME NEW B, NEW O, NEW L, NEW H, NEW Z, NEW S, NEW A, Apart(B, O, L, H, Z, S, A),
         NEW x \in L, NEW b \in B, NEW s \in Slots, H[s] = {},
         NEW M, \A y : y \in M <=> y \in L /\ y # x,
         NEW C, \A y : y \in C <=> y \in B /\ y # b,
         NEW Y, \A y : y \in Y <=> y \in Z \/ y = x,
         NEW G, G[s] = {b}, \A t \in Slots : t # s => G[t] = H[t]
  PROVE  Apart(C, O, M, G, Y, S, A)
<1>1. \A y : (\E t \in Slots : y \in G[t]) <=> (y = b \/ \E t \in Slots : y \in H[t])
  OBVIOUS
<1>2. \A y : y \in A <=> (y \in C \/ y \in O \/ y \in M \/ y \in Y \/ \E t \in Slots : y \in G[t])
  BY <1>1 DEF Apart
<1>3. \A t \in Slots : \A y \in G[t] : y = b \/ (t # s /\ y \in H[t])
  OBVIOUS
<1>4. \A t, u \in Slots : \A y \in G[t] : t # u /\ y \in G[u] => y \in S
  BY <1>3 DEF Apart
<1>5. \A t \in Slots : \A y \in G[t] : y \in C \/ y \in O \/ y \in Y => y \in S
  BY <1>3 DEF Apart
<1>6. \A y \in M : y \notin C /\ y \notin O /\ y \notin Y /\ y \notin S /\ \A t \in Slots : y \notin G[t]
  BY <1>3 DEF Apart
<1>7. \A y \in S : y \in C \/ y \in O \/ \E t \in Slots : y \in G[t]
  BY <1>1 DEF Apart
<1>8. \A y \in Y : y \in C \/ y \in O => y \in S
  BY DEF Apart
<1> QED
  BY <1>2, <1>4, <1>5, <1>6, <1>7, <1>8 DEF Apart

\* The pending buffer moves to a client, and buffers E of the bulk to the pool.
LEMMA ApartAnswer ==
  ASSUME NEW B, NEW O, NEW L, NEW H, NEW Z, NEW S, NEW A, Apart(B, O, L, H, Z, S, A),
         NEW s \in Slots, NEW z, H[s] = {z}, NEW E, \A y \in E : y \in L,
         NEW M, \A y : y \in M <=> y \in L /\ y \notin E,
         NEW C, \A y : y \in C <=> y \in B \/ y \in E,
         NEW P, \A y : y \in P <=> y \in O \/ y = z,
         NEW G, G[s] = {}, \A t \in Slots : t # s => G[t] = H[t]
  PROVE  Apart(C, P, M, G, Z, S, A)
<1>1. \A y : (\E t \in Slots : y \in H[t]) <=> (y = z \/ \E t \in Slots : y \in G[t])
  OBVIOUS
<1>2. \A y : y \in A <=> (y \in C \/ y \in P \/ y \in M \/ y \in Z \/ \E t \in Slots : y \in G[t])
  BY <1>1 DEF Apart
<1>3. \A t \in Slots : \A y \in G[t] : t # s /\ y \in H[t]
  OBVIOUS
<1>4. \A t, u \in Slots : \A y \in G[t] : t # u /\ y \in G[u] => y \in S
  BY <1>3 DEF Apart
<1>5. \A t \in Slots : \A y \in G[t] : y \in C \/ y \in P \/ y \in Z => y \in S
  BY <1>3 DEF Apart
<1>6. \A y \in M : y \notin C /\ y \notin P /\ y \notin Z /\ y \notin S /\ \A t \in Slots : y \notin G[t]
  BY <1>3 DEF Apart
<1>7. \A y \in S : y \in C \/ y \in P \/ \E t \in Slots : y \in G[t]
  BY <1>1 DEF Apart
<1>8. z \notin L /\ (z \in B \/ z \in O \/ z \in Z => z \in S)
  BY DEF Apart
<1>9. (\A y : y \in P /\ y \in C => y \in S) /\ (\A y \in Z : y \in C \/ y \in P => y \in S)
  BY <1>8 DEF Apart
<1> QED
  BY <1>2, <1>4, <1>5, <1>6, <1>7, <1>9 DEF Apart

\* A buffer moves from the bulk, or from the pool, to a client.
LEMMA ApartSend ==
  ASSUME NEW B, NEW O, NEW L, NEW H, NEW Z, NEW S, NEW A, Apart(B, O, L, H, Z, S, A),
         NEW x, NEW C, NEW M, NEW P, \A y : y \in P <=> y \in O \/ y = x,
         \/ x \in L /\ C = B /\ \A y : y \in M <=> y \in L /\ y # x
         \/ x \in B /\ M = L /\ \A y : y \in C <=> y \in B /\ y # x
  PROVE  Apart(C, P, M, H, Z, S, A)
<1>1. CASE x \in L /\ C = B /\ \A y : y \in M <=> y \in L /\ y # x
  BY <1>1 DEF Apart
<1>2. CASE x \in B /\ M = L /\ \A y : y \in C <=> y \in B /\ y # x
  BY <1>2 DEF Apart
<1> QED
  BY <1>1, <1>2

\* Buffers D, with all that is left of the bulk, are put back; the buffer of slot s
\* is the one it had, one of D, or one of Y, taken from the pool.
PutBack(B, L, H, S, A, D, Y, s, C, T, G) ==
  /\ (\A y \in L : y \in D) /\ (\A y \in D : y \in A) /\ (\A y \in Y : y \in B)
  /\ \A y : y \in C <=> y \in D \/ (y \in B /\ y \notin Y)
  /\ \A y : y \in T <=> y \in S \/ y \in D
  /\ \A y \in G[s] : y \in H[s] \/ y \in D \/ y \in Y
  /\ \A y : y \in H[s] \/ y \in Y => y \in G[s]
  /\ \A t \in Slots : t # s => G[t] = H[t]

LEMMA ApartReset ==
  ASSUME NEW B, NEW O, NEW L, NEW H, NEW Z, NEW S, NEW A, Apart(B, O, L, H, Z, S, A),
         NEW D, NEW Y, NEW s \in Slots, NEW C, NEW T, NEW G, PutBack(B, L, H, S, A, D, Y, s, C, T, G)
  PROVE  Apart(C, O, {}, G, Z, T, A)
<1> USE DEF PutBack
<1>1. \A y : (\E t \in Slots : y \in H[t]) \/ y \in Y => \E t \in Slots : y \in G[t]
  OBVIOUS
<1>2. \A t \in Slots : \A y \in G[t] : y \in H[t] \/ (t = s /\ (y \in D \/ y \in Y))
  OBVIOUS
<1>3. \A y : (\E t \in Slots : y \in G[t]) => (\E t \in Slots : y \in H[t]) \/ y \in D \/ y \in B
  BY <1>2
<1>4. \A y : y \in A <=> (y \in C \/ y \in O \/ y \in Z \/ \E t \in Slots : y \in G[t])
  BY <1>1, <1>3 DEF Apart
<1>5. \A t \in Slots : \A y \in G[t] : y \in C \/ y \in O \/ y \in Z => y \in T
  BY <1>2 DEF Apart
<1>6. \A t, u \in Slots : \A y \in G[t] : t # u /\ y \in G[u] => y \in T
  BY <1>2 DEF Apart
<1>7. \A y \in T : y \in C \/ y \in O \/ \E t \in Slots : y \in G[t]
  BY <1>1 DEF Apart
<1>8. (\A y : y \in O /\ y \in C => y \in T) /\ (\A y \in Z : y \in C \/ y \in O => y \in T)
  BY DEF Apart
<1> QED
  BY <1>4, <1>5, <1>6, <1>7, <1>8 DEF Apart

\* New buffers arrive, while there is no bulk.
LEMMA ApartRecv ==
  ASSUME NEW B, NEW O, NEW H, NEW Z, NEW S, NEW A, Apart(B, O, {}, H, Z, S, A),
         NEW M, \A y \in M : y \notin A, \A y \in S : y \in A,
         NEW D, \A y : y \in D <=> y \in A \/ y \in M
  PROVE  Apart(B, O, M, H, Z, S, D)
BY DEF Apart

\* The buffer of the descriptor under process is the bulk's.
LEMMA SourceLeft ==
  ASSUME LoopInv, burst # << >>
  PROVE  /\ \A y : y \in Left <=> \E k \in 1 .. Len(burst) : y = home[burst[k]]
         /\ Source = home[burst[1]] /\ Source \in Left
<1>1. Len(burst) \in Nat \ {0} /\ Head(burst) = burst[1] /\ DOMAIN burst = 1 .. Len(burst)
  BY BurstFacts, LenProperties DEF LoopInv, RoundInv
<1>2. \A y : y \in Left <=> \E k \in 1 .. Len(burst) : y = home[burst[k]]
  BY <1>1 DEF Left
<1>3. 1 \in 1 .. Len(burst)
  BY <1>1
<1> QED
  BY <1>1, <1>2, <1>3 DEF Source

\* The loop goes on with what is left when d units were processed.
Onwards(d) ==
  /\ d \in Nat /\ d <= Len(burst) /\ Without(d, burst')
  /\ home' = IF burst' = << >> THEN << >> ELSE home

LEMMA LeftWithout ==
  ASSUME LoopInv, burst # << >>, NEW d, Onwards(d)
  PROVE  \A y : y \in Left' <=> \E k \in d + 1 .. Len(burst) : y = home[burst[k]]
<1> DEFINE n == Len(burst)
<1>1. /\ n \in Nat \ {0} /\ d \in Nat /\ d <= n /\ burst' \in Seq(AnyUnit) /\ Len(burst') = n - d
      /\ \A k \in 1 .. n - d : burst'[k] = burst[k + d]
  BY BurstFacts DEF Onwards, Without
<1>2. DOMAIN burst' = 1 .. n - d
  BY <1>1, LenProperties
<1>3. CASE burst' = << >>
  <2>1. n - d = 0
    BY <1>1, <1>3, EmptySeq
  <2>2. d + 1 .. n = {} /\ 1 .. n - d = {}
    BY <1>1, <2>1
  <2> QED
    BY <1>2, <2>2 DEF Left
<1>4. CASE burst' # << >>
  <2>1. \A y : y \in Left' <=> \E k \in 1 .. n - d : y = home[burst[k + d]]
    <3>1. home' = home
      BY <1>4 DEF Onwards
    <3>2. Left' = {home[burst'[k]] : k \in 1 .. n - d}
      BY <1>2, <3>1 DEF Left
    <3>3. \A k \in 1 .. n - d : burst'[k] = burst[k + d]
      BY <1>1
    <3> HIDE DEF n
    <3> QED
      BY <3>2, <3>3, Zenon
  <2> HIDE DEF n
  <2>2. \A k \in 1 .. n - d : k + d \in d + 1 .. n
    BY <1>1
  <2>3. \A k \in d + 1 .. n : k - d \in 1 .. n - d /\ (k - d) + d = k
    BY <1>1
  <2>4. \A y : (\E k \in 1 .. n - d : y = home[burst[k + d]]) <=> \E k \in d + 1 .. n : y = home[burst[k]]
    BY <2>2, <2>3
  <2> QED
    BY <2>1, <2>4 DEF n
<1> QED
  BY <1>3, <1>4

\* Its buffers are the ones before, but for one all of whose units were processed.
LEMMA LeftAfter ==
  ASSUME LoopInv, HomeInv, burst # << >>, NEW d, Onwards(d)
  PROVE  /\ (d = 1 /\ Alone) \/ (d = 2 /\ Pair) => \A y : y \in Left' <=> y \in Left /\ y # Source
         /\ d = 0 \/ (d = 1 /\ ~Alone) \/ (d = 2 /\ ~Alone /\ ~Pair) => \A y : y \in Left' <=> y \in Left
<1> DEFINE n == Len(burst)
           f(k) == home[burst[k]]
<1>1. n \in Nat \ {0} /\ DOMAIN burst = 1 .. n /\ d \in Nat /\ d <= n
  BY BurstFacts, LenProperties DEF LoopInv, RoundInv, Onwards
<1>2. \A y : y \in Left' <=> \E k \in d + 1 .. n : y = f(k)
  BY LeftWithout
<1>3. /\ \A y : y \in Left <=> \E k \in 1 .. n : y = f(k)
      /\ Source = f(1)
  BY SourceLeft
<1>4. Alone <=> \A k \in 2 .. n : f(k) # Source
  BY DEF Alone
<1>5. Pair <=> ~Alone /\ \A k \in 3 .. n : f(k) # Source
  BY DEF Pair
<1>6. \A i, j, k \in 1 .. n : i <= j /\ j <= k /\ f(i) = f(k) => f(j) = f(i)
  BY <1>1 DEF HomeInv
<1> HIDE DEF n, f
<1>7. \A k \in 1 .. n : k = 1 \/ k \in 2 .. n
  BY <1>1
<1>8. \A k \in 2 .. n : k \in 1 .. n /\ (k = 2 \/ k \in 3 .. n)
  BY <1>1
<1>9. \A k \in 3 .. n : k \in 1 .. n /\ k \in 2 .. n /\ 1 \in 1 .. n /\ 2 \in 1 .. n /\ 1 <= 2 /\ 2 <= k
  BY <1>1
<1>10. CASE d = 0
  <2>1. d + 1 = 1
    BY <1>10
  <2> QED
    BY <1>10, <1>2, <1>3, <2>1
<1>11. CASE d = 1
  <2>1. d + 1 = 2
    BY <1>11
  <2>2. \A y : y \in Left' <=> \E k \in 2 .. n : y = f(k)
    BY <1>2, <2>1
  <2>3. CASE Alone
    BY <1>11, <2>2, <2>3, <1>3, <1>4, <1>7, <1>8
  <2>4. CASE ~Alone
    BY <1>11, <2>2, <2>4, <1>3, <1>4, <1>7, <1>8 DEF Pair
  <2> QED
    BY <2>3, <2>4
<1>12. CASE d = 2
  <2>1. d + 1 = 3
    BY <1>12
  <2>2. \A y : y \in Left' <=> \E k \in 3 .. n : y = f(k)
    BY <1>2, <2>1
  <2>3. CASE Pair
    <3>1. PICK k \in 2 .. n : f(k) = Source
      BY <2>3, <1>4, <1>5
    <3>2. f(2) = Source
      BY <3>1, <2>3, <1>5, <1>8
    <3> QED
      BY <1>12, <2>2, <2>3, <3>2, <1>3, <1>5, <1>7, <1>8, <1>9
  <2>4. CASE ~Alone /\ ~Pair
    <3>1. PICK k \in 3 .. n : f(k) = Source
      BY <2>4, <1>5
    <3>2. f(2) = Source
      BY <3>1, <1>3, <1>6, <1>9
    <3> QED
      BY <1>12, <2>2, <2>4, <3>1, <3>2, <1>3, <1>7, <1>8, <1>9
  <2> QED
    BY <1>12, <2>3, <2>4
<1> QED
  BY <1>10, <1>11, <1>12

LEMMA LeftLess ==
  ASSUME LoopInv, HomeInv, burst # << >>, (Onwards(1) /\ Alone) \/ (Onwards(2) /\ Pair)
  PROVE  \A y : y \in Left' <=> y \in Left /\ y # Source
<1>1. ASSUME NEW d, Onwards(d), (d = 1 /\ Alone) \/ (d = 2 /\ Pair)
      PROVE  \A y : y \in Left' <=> y \in Left /\ y # Source
  BY <1>1, LeftAfter
<1>2. CASE Onwards(1) /\ Alone
  BY <1>1, <1>2
<1>3. CASE Onwards(2) /\ Pair
  BY <1>1, <1>3
<1> QED
  BY <1>2, <1>3

LEMMA LeftSame ==
  ASSUME LoopInv, HomeInv, burst # << >>,
         Onwards(0) \/ (Onwards(1) /\ ~Alone) \/ (Onwards(2) /\ ~Alone /\ ~Pair)
  PROVE  \A y : y \in Left' <=> y \in Left
<1>1. ASSUME NEW d, Onwards(d), d = 0 \/ (d = 1 /\ ~Alone) \/ (d = 2 /\ ~Alone /\ ~Pair)
      PROVE  \A y : y \in Left' <=> y \in Left
  BY <1>1, LeftAfter
<1>2. CASE Onwards(0)
  BY <1>1, <1>2
<1>3. CASE Onwards(1) /\ ~Alone
  BY <1>1, <1>3
<1>4. CASE Onwards(2) /\ ~Alone /\ ~Pair
  BY <1>1, <1>4
<1> QED
  BY <1>2, <1>3, <1>4

LEMMA HomeAfter ==
  ASSUME LoopInv, HomeInv, burst # << >>, NEW d, Onwards(d), came' = came
  PROVE  HomeInv'
<1> DEFINE n == Len(burst)
<1>1. /\ n \in Nat \ {0} /\ d \in Nat /\ d <= n /\ burst' \in Seq(AnyUnit) /\ Len(burst') = n - d
      /\ \A k \in 1 .. n - d : burst'[k] = burst[k + d]
      /\ DOMAIN burst = 1 .. n
  BY BurstFacts, LenProperties DEF Onwards, Without, LoopInv, RoundInv
<1>2. DOMAIN burst' = 1 .. n - d
  BY <1>1, LenProperties
<1>3. CASE burst' = << >>
  <2>1. home' = << >>
    BY <1>3 DEF Onwards
  <2> QED
    BY <1>3, <2>1 DEF HomeInv
<1>4. CASE burst' # << >>
  <2>1. home' = home
    BY <1>4 DEF Onwards
  <2> HIDE DEF n
  <2>2. \A k \in 1 .. n - d : k + d \in 1 .. n
    BY <1>1
  <2>3. \A k \in 1 .. n - d : burst'[k] \in DOMAIN home
    BY <1>1, <2>2 DEF HomeInv
  <2>4. ASSUME NEW i \in 1 .. n - d, NEW j \in 1 .. n - d, NEW k \in 1 .. n - d, i <= j, j <= k,
               home[burst'[i]] = home[burst'[k]]
        PROVE  home[burst'[j]] = home[burst'[i]]
    <3>1. i + d <= j + d /\ j + d <= k + d
      BY <1>1, <2>4
    <3>2. i + d \in DOMAIN burst /\ j + d \in DOMAIN burst /\ k + d \in DOMAIN burst
      BY <1>1, <2>2
    <3>3. home[burst[i + d]] = home[burst[k + d]]
      BY <1>1, <2>4
    <3>4. home[burst[j + d]] = home[burst[i + d]]
      BY <3>1, <3>2, <3>3 DEF HomeInv
    <3> QED
      BY <1>1, <3>4
  <2> QED
    BY <1>2, <2>1, <2>3, <2>4 DEF HomeInv
<1> QED
  BY <1>3, <1>4

\* The slots when slot s gets pending data p and buffers X.
LEMMA SlotSet ==
  ASSUME LoopInv, addr \in [Slots -> SUBSET Known], NEW s \in Slots, NEW p, NEW X,
         pending' = [pending EXCEPT ![s] = p], addr' = [addr EXCEPT ![s] = X]
  PROVE  /\ addr'[s] = X /\ \A t \in Slots : t # s => addr'[t] = addr[t]
         /\ pending'[s] = p /\ \A t \in Slots : t # s => pending'[t] = pending[t]
         /\ X \subseteq Known => addr' \in [Slots -> SUBSET Known]
BY DEF LoopInv, RoundInv

\* BufInv after a step, from its parts.
LEMMA BufPartsNext ==
  ASSUME HomeInv', SlotsInv', addr' \in [Slots -> SUBSET Known'],
         came' \subseteq Received', lost' \cup spoiled' \subseteq came',
         NEW B, NEW O, NEW L, NEW H, NEW Z, NEW S, NEW A, Apart(B, O, L, H, Z, S, A),
         pool' = B, out' = O, Left' = L, addr' = H, lost' = Z, spoiled' = S, Known' = A
  PROVE  BufInv'
<1>1. Apart(pool, out, Left, addr, lost, spoiled, Known)'
  BY DEF Apart
<1>2. (BufInv <=> /\ HomeInv /\ SlotsInv /\ addr \in [Slots -> SUBSET Known]
                  /\ came \subseteq Received /\ lost \cup spoiled \subseteq came
                  /\ Apart(pool, out, Left, addr, lost, spoiled, Known))'
  BY BufParts, PTL
<1> QED
  BY <1>1, <1>2

\* A step that touches no buffer.
LEMMA BufKeep ==
  ASSUME BufInv, UNCHANGED <<read, pending, bufVars, burst, home>>
  PROVE  BufInv'
<1>1. HomeInv' /\ Left' = Left /\ Held' = Held
  BY DEF BufInv, HomeInv, Left, Held, bufVars
<1> QED
  BY <1>1 DEF BufInv, bufVars

\* What a reception brings is new, and cut into descriptors.
LEMMA RecvHome ==
  ASSUME LoopInv, BufInv, Recv
  PROVE  /\ HomeInv'
         /\ \A y \in Left' : y \notin Known
         /\ \A y : y \in came' <=> y \in came \/ y \in Left'
         /\ came' \subseteq Received'
<1> DEFINE c == Conn
           r == read[Conn]
           Nth(k) == <<c, r + k>>
<1>1. c \in Conns /\ r \in Nat /\ read \in [Conns -> Nat]
  BY Here DEF Recv, Scanning, LoopInv, NetInv
<1>2. PICK n \in 1 .. sent[c] - r : \E h \in Cuttings(n) :
        /\ read' = [read EXCEPT ![c] = @ + n]
        /\ burst' = [k \in 1 .. n |-> Nth(k)]
        /\ home' = [u \in {Nth(k) : k \in 1 .. n} |-> Nth(h[u[2] - r])]
        /\ came' = came \cup {Nth(h[k]) : k \in 1 .. n}
  BY DEF Recv
<1>3. PICK h \in Cuttings(n) :
        /\ read' = [read EXCEPT ![c] = @ + n]
        /\ burst' = [k \in 1 .. n |-> Nth(k)]
        /\ home' = [u \in {Nth(k) : k \in 1 .. n} |-> Nth(h[u[2] - r])]
        /\ came' = came \cup {Nth(h[k]) : k \in 1 .. n}
  BY <1>2
<1>4. n \in Nat /\ sent[c] \in Nat
  BY Here DEF Recv, Scanning
<1>5. \A k \in 1 .. n : h[k] \in 1 .. n /\ h[k] <= k /\ \A j \in h[k] .. k : h[j] = h[k]
  BY DEF Cuttings
<1>6. ASSUME NEW k \in 1 .. n PROVE home'[Nth(k)] = Nth(h[k]) /\ Nth(k) \in DOMAIN home'
  <2>1. Nth(k)[2] - r = k
    BY <1>1, <1>4
  <2>2. Nth(k) \in {Nth(j) : j \in 1 .. n}
    OBVIOUS
  <2> HIDE DEF Nth
  <2> QED
    BY <1>3, <2>1, <2>2
<1>7. \A u \in DOMAIN home' : \E k \in 1 .. n : home'[u] = Nth(h[k])
  <2> SUFFICES ASSUME NEW u \in DOMAIN home' PROVE \E k \in 1 .. n : home'[u] = Nth(h[k])
    OBVIOUS
  <2>1. DOMAIN home' = {Nth(k) : k \in 1 .. n}
    BY <1>3
  <2>2. PICK k \in 1 .. n : u = Nth(k)
    BY <2>1
  <2> QED
    BY <1>6, <2>2
<1>8. \A j, k \in 1 .. n : Nth(j) = Nth(k) => j = k
  <2> SUFFICES ASSUME NEW j \in 1 .. n, NEW k \in 1 .. n, r + j = r + k PROVE j = k
    OBVIOUS
  <2> HIDE DEF r
  <2> QED
    BY <1>1, <1>4
<1>9. read'[c] = r + n /\ \A d \in Conns : d # c => read'[d] = read[d]
  BY <1>1, <1>3
<1>10. \A k \in 1 .. n : Nth(k) \in Received' /\ Nth(k) \notin Received /\ Nth(k) \in Conns \X Nat
  <2> SUFFICES ASSUME NEW k \in 1 .. n
               PROVE  Nth(k) \in Received' /\ Nth(k) \notin Received /\ Nth(k) \in Conns \X Nat
    OBVIOUS
  <2>1. r + k \in 1 .. r + n /\ r + k \notin 1 .. r /\ r + k \in Nat
    BY <1>1, <1>4
  <2>2. Nth(k) \in {c} \X (1 .. read'[c])
    BY <2>1, <1>9
  <2>3. Nth(k) \in Received'
    BY <2>2, <1>1 DEF Received
  <2>4. \A d \in Conns : Nth(k) \notin {d} \X (1 .. read[d])
    BY <2>1
  <2> QED
    BY <1>1, <2>1, <2>3, <2>4 DEF Received
<1>11. \A y \in Received : y \in Received'
  <2> SUFFICES ASSUME NEW d \in Conns, NEW y \in {d} \X (1 .. read[d]) PROVE y \in Received'
    BY DEF Received
  <2>1. read[d] <= read'[d] /\ read[d] \in Nat /\ read'[d] \in Nat
    BY <1>1, <1>4, <1>9
  <2>2. y \in {d} \X (1 .. read'[d])
    BY <2>1
  <2> QED
    BY <2>2 DEF Received
<1> HIDE DEF Nth, r, c
<1>12. \A y : y \in Left' <=> \E k \in 1 .. n : y = Nth(h[k])
  <2>1. DOMAIN burst' = 1 .. n /\ \A k \in 1 .. n : home'[burst'[k]] = Nth(h[k])
    BY <1>3, <1>6
  <2> QED
    BY <2>1 DEF Left
<1>13. HomeInv'
  <2>1. DOMAIN burst' = 1 .. n /\ \A k \in 1 .. n : burst'[k] \in DOMAIN home' /\ home'[burst'[k]] = Nth(h[k])
    BY <1>3, <1>6
  <2>2. \A u \in DOMAIN home' : home'[u] \in came'
    BY <1>3, <1>7
  <2>3. ASSUME NEW i \in 1 .. n, NEW j \in 1 .. n, NEW k \in 1 .. n, i <= j, j <= k, Nth(h[i]) = Nth(h[k])
        PROVE  Nth(h[j]) = Nth(h[i])
    <3>1. h[i] = h[k]
      BY <2>3, <1>5, <1>8
    <3>2. j \in h[k] .. k
      BY <2>3, <3>1, <1>4, <1>5
    <3> QED
      BY <3>1, <3>2, <1>5
  <2> QED
    BY <2>1, <2>2, <2>3 DEF HomeInv
<1>14. came \subseteq Received /\ Spare \cap (Conns \X Nat) = {}
  BY SyncAssumption DEF BufInv, Received
<1> HIDE DEF Received
<1>15. \A y \in Left' : y \notin Known /\ y \in Received'
  BY <1>5, <1>10, <1>12, <1>14 DEF Known
<1>16. \A y : y \in came' <=> y \in came \/ y \in Left'
  BY <1>3, <1>12
<1> QED
  BY <1>11, <1>13, <1>14, <1>15, <1>16

LEMMA BufRecv == ASSUME LoopInv, BufInv, Recv PROVE BufInv'
<1>1. UNCHANGED <<pending, addr, pool, out, lost, spoiled>> /\ burst = << >>
  BY DEF Recv
<1>2. Left = {}
  BY <1>1 DEF Left
<1>3. /\ SlotsInv /\ addr \in [Slots -> SUBSET Known] /\ lost \cup spoiled \subseteq came
      /\ Apart(pool, out, {}, addr, lost, spoiled, Known)
  BY <1>2, BufParts
<1>4. /\ HomeInv' /\ came' \subseteq Received' /\ \A y \in Left' : y \notin Known
      /\ \A y : y \in came' <=> y \in came \/ y \in Left'
  BY RecvHome
<1>5. \A y : y \in Known' <=> y \in Known \/ y \in Left'
  BY <1>4 DEF Known
<1>6. SlotsInv' /\ addr' \in [Slots -> SUBSET Known'] /\ lost' \cup spoiled' \subseteq came'
  BY <1>1, <1>3, <1>4, <1>5 DEF SlotsInv
<1>7. \A y \in spoiled : y \in Known
  BY <1>3 DEF Known
<1>8. \A M, D : M = Left' /\ D = Known' => Apart(pool, out, M, addr, lost, spoiled, D)
  BY <1>3, <1>4, <1>5, <1>7, ApartRecv
<1> QED
  BY <1>1, <1>4, <1>6, <1>8, BufPartsNext

\* The kept unit's buffer becomes the pending one, or is lost.
LEMMA BufKeepUnit == ASSUME LoopInv, BufInv, Keep PROVE BufInv'
<1>1. /\ burst # << >> /\ pending[slot] = << >> /\ Alone
      /\ UNCHANGED <<read, out, came, spoiled>>
      /\ pending' = [pending EXCEPT ![slot] = <<Head(burst)>>] /\ Advance(Tail(burst))
  BY DEF Keep, netVars, Fresh
<1>2. slot \in Slots /\ Len(burst) \in Nat \ {0}
  BY <1>1, BurstFacts, Here
<1>3. /\ HomeInv /\ SlotsInv /\ addr \in [Slots -> SUBSET Known]
      /\ came \subseteq Received /\ lost \cup spoiled \subseteq came
      /\ Apart(pool, out, Left, addr, lost, spoiled, Known)
  BY BufParts
<1>4. Onwards(1)
  BY <1>1, <1>2, WithoutOne DEF Onwards, Advance
<1>5. HomeInv' /\ \A y : y \in Left' <=> y \in Left /\ y # Source
  BY <1>1, <1>3, <1>4, HomeAfter, LeftLess
<1>6. Source \in Left /\ Source \in Known /\ Source \in came /\ addr[slot] = {}
  <2>1. Source \in Left /\ Source = home[burst[1]]
    BY <1>1, SourceLeft
  <2>2. 1 \in DOMAIN burst
    BY <1>2, LenProperties DEF LoopInv, RoundInv
  <2> QED
    BY <2>1, <2>2, <1>1, <1>2, <1>3 DEF HomeInv, SlotsInv, Known
<1>7. Known' = Known /\ Received' = Received
  BY <1>1 DEF Known, Received
<1>8. <<Head(burst)>> # << >>
  OBVIOUS
<1>9. ASSUME NEW b \in Known, addr' = [addr EXCEPT ![slot] = {b}]
      PROVE  /\ SlotsInv' /\ addr' \in [Slots -> SUBSET Known']
             /\ addr'[slot] = {b} /\ \A t \in Slots : t # slot => addr'[t] = addr[t]
  <2>1. /\ addr'[slot] = {b} /\ \A t \in Slots : t # slot => addr'[t] = addr[t]
        /\ pending'[slot] = <<Head(burst)>> /\ \A t \in Slots : t # slot => pending'[t] = pending[t]
        /\ addr' \in [Slots -> SUBSET Known]
    <3>1. PICK X : X = {b}
      OBVIOUS
    <3>2. PICK p : p = <<Head(burst)>>
      OBVIOUS
    <3>3. pending' = [pending EXCEPT ![slot] = p] /\ slot \in Slots
      BY <1>1, <1>2, <3>2, Zenon
    <3>4. addr' = [addr EXCEPT ![slot] = X] /\ X \subseteq Known
      BY <1>9, <3>1
    <3>5. /\ addr'[slot] = X /\ \A t \in Slots : t # slot => addr'[t] = addr[t]
          /\ pending'[slot] = p /\ \A t \in Slots : t # slot => pending'[t] = pending[t]
          /\ addr' \in [Slots -> SUBSET Known]
      BY <1>2, <1>3, <3>3, <3>4, SlotSet
    <3> QED
      BY <3>1, <3>2, <3>5
  <2> QED
    BY <1>3, <1>7, <1>8, <2>1 DEF SlotsInv
<1> HIDE DEF Left, Known
<1>10. CASE Stay
  <2>1. addr' = [addr EXCEPT ![slot] = {Source}] /\ UNCHANGED <<pool, lost>>
    BY <1>10 DEF Stay
  <2>2. /\ SlotsInv' /\ addr' \in [Slots -> SUBSET Known']
        /\ addr'[slot] = {Source} /\ \A t \in Slots : t # slot => addr'[t] = addr[t]
    BY <1>6, <1>9, <2>1
  <2>3. \A M, G : M = Left' /\ G = addr' => Apart(pool, out, M, G, lost, spoiled, Known)
    BY <1>2, <1>3, <1>5, <1>6, <2>2, ApartStay
  <2> QED
    BY <1>1, <1>3, <1>5, <1>7, <2>1, <2>2, <2>3, BufPartsNext
<1>11. CASE Relocate
  <2>1. PICK b \in pool : /\ addr' = [addr EXCEPT ![slot] = {b}]
                          /\ pool' = pool \ {b} /\ lost' = lost \cup {Source}
    BY <1>11 DEF Relocate, Abandoned
  <2>2. b \in Known
    BY <1>3 DEF Apart
  <2>3. /\ SlotsInv' /\ addr' \in [Slots -> SUBSET Known']
        /\ addr'[slot] = {b} /\ \A t \in Slots : t # slot => addr'[t] = addr[t]
    BY <1>9, <2>1, <2>2
  <2>4. (\A y : y \in pool' <=> y \in pool /\ y # b) /\ (\A y : y \in lost' <=> y \in lost \/ y = Source)
    BY <2>1
  <2>5. \A C, M, G, Y : C = pool' /\ M = Left' /\ G = addr' /\ Y = lost' =>
          Apart(C, out, M, G, Y, spoiled, Known)
    BY <1>2, <1>3, <1>5, <1>6, <2>3, <2>4, ApartRelocate
  <2>6. lost' \cup spoiled' \subseteq came'
    BY <1>1, <1>3, <1>6, <2>1
  <2> QED
    BY <1>1, <1>3, <1>5, <1>7, <2>3, <2>5, <2>6, BufPartsNext
<1> QED
  BY <1>10, <1>11 DEF Keep

\* The buffer of a message is the pending one, the descriptor's or the pool's.
LEMMA MessageBuffer ==
  ASSUME LoopInv, BufInv, burst # << >>, ~(Fresh /\ Alone), NEW b \in Buffers
  PROVE  /\ b \in Known
         /\ ~Fresh => addr[slot] = {b} /\ Got(b) = {}
         /\ Fresh => addr[slot] = {} /\ Emptied = {}
         /\ Pair /\ Fresh => b = Source /\ Got(b) = {}
         /\ Split => b \in pool /\ Got(b) = {b}
<1>1. slot \in Slots
  BY BurstFacts, Here
<1>2. SlotsInv /\ Apart(pool, out, Left, addr, lost, spoiled, Known)
  BY BufParts
<1>3. Source \in Known
  <2>1. Source \in Left
    BY SourceLeft
  <2> HIDE DEF Left, Known
  <2> QED
    BY <1>2, <2>1 DEF Apart
<1>4. \A y \in pool : y \in Known
  <2> HIDE DEF Left, Known
  <2> QED
    BY <1>2 DEF Apart
<1>5. CASE ~Fresh
  BY <1>1, <1>2, <1>5 DEF Buffers, Split, Got, SlotsInv, Fresh
<1>6. CASE Fresh
  BY <1>1, <1>2, <1>3, <1>4, <1>6 DEF Buffers, Split, Got, SlotsInv, Fresh, Emptied
<1> QED
  BY <1>5, <1>6

\* The buffer of the message leaves with the answer, and one it was copied from
\* goes back.
LEMMA BufAnswer == ASSUME LoopInv, BufInv, Answer PROVE BufInv'
<1>1. /\ burst # << >> /\ ~(Fresh /\ Alone) /\ UNCHANGED <<read, came, lost, spoiled>> /\ Advance(Rest)
  BY DEF Answer, Handle
<1>2. PICK b \in Buffers : /\ Clear(b) /\ pool' = (pool \ Got(b)) \cup Emptied /\ out' = out \cup {b}
  BY DEF Answer
<1>3. slot \in Slots /\ Len(burst) \in Nat \ {0}
  BY <1>1, BurstFacts, Here
<1>4. /\ HomeInv /\ SlotsInv /\ addr \in [Slots -> SUBSET Known]
      /\ came \subseteq Received /\ lost \cup spoiled \subseteq came
      /\ Apart(pool, out, Left, addr, lost, spoiled, Known)
  BY BufParts
<1>5. /\ b \in Known
      /\ ~Fresh => addr[slot] = {b} /\ Got(b) = {}
      /\ Fresh => addr[slot] = {} /\ Emptied = {}
      /\ Pair /\ Fresh => b = Source /\ Got(b) = {}
      /\ Split => b \in pool /\ Got(b) = {b}
  BY <1>1, MessageBuffer
<1>6. /\ addr'[slot] = {} /\ \A t \in Slots : t # slot => addr'[t] = addr[t]
      /\ pending'[slot] = << >> /\ \A t \in Slots : t # slot => pending'[t] = pending[t]
      /\ addr' \in [Slots -> SUBSET Known]
  BY <1>2, <1>3, <1>4, SlotSet DEF Clear
<1>7. Known' = Known /\ Received' = Received
  BY <1>1 DEF Known, Received
<1>8. SlotsInv' /\ addr' \in [Slots -> SUBSET Known']
  BY <1>4, <1>6, <1>7 DEF SlotsInv
<1>9. burst' = Rest /\ home' = IF burst' = << >> THEN << >> ELSE home
  BY <1>1 DEF Advance
<1>10. /\ Complete => Onwards(0)
       /\ Fresh => ~Complete /\ Onwards(2)
       /\ ~Complete /\ ~Fresh => Onwards(1)
  BY <1>1, <1>3, <1>9, RestIsSuffix DEF Onwards
<1>11. HomeInv'
  BY <1>1, <1>4, <1>10, HomeAfter
<1>12. Source \in Left
  BY <1>1, SourceLeft
<1> HIDE DEF Left, Known
<1>13. \A C, P, M, G : C = pool' /\ P = out' /\ M = Left' /\ G = addr' =>
         Apart(C, P, M, G, lost, spoiled, Known)
  <2> SUFFICES ASSUME NEW C, NEW P, NEW M, NEW G, C = pool', P = out', M = Left', G = addr'
               PROVE  Apart(C, P, M, G, lost, spoiled, Known)
    OBVIOUS
  <2>1. /\ \A y : y \in P <=> y \in out \/ y = b
        /\ \A y : y \in C <=> (y \in pool /\ y \notin Got(b)) \/ y \in Emptied
    BY <1>2
  <2>2. G[slot] = {} /\ \A t \in Slots : t # slot => G[t] = addr[t]
    BY <1>6
  <2>3. CASE ~Fresh
    <3>1. \A y \in Emptied : y \in Left
      BY <1>12 DEF Emptied
    <3>2. \A y : y \in M <=> y \in Left /\ y \notin Emptied
      <4>1. CASE Complete
        <5>1. Emptied = {} /\ Onwards(0)
          BY <4>1, <1>10 DEF Emptied
        <5> QED
          BY <5>1, <1>1, <1>4, LeftSame
      <4>2. CASE ~Complete /\ Alone
        <5>1. Emptied = {Source} /\ Onwards(1)
          BY <4>2, <2>3, <1>10 DEF Emptied
        <5> QED
          BY <5>1, <4>2, <1>1, <1>4, LeftLess
      <4>3. CASE ~Complete /\ ~Alone
        <5>1. Emptied = {} /\ Onwards(1)
          BY <4>3, <2>3, <1>10 DEF Emptied
        <5> QED
          BY <5>1, <4>3, <1>1, <1>4, LeftSame
      <4> QED
        BY <4>1, <4>2, <4>3
    <3>3. \A y : y \in C <=> y \in pool \/ y \in Emptied
      BY <2>1, <2>3, <1>5
    <3>4. addr[slot] = {b}
      BY <2>3, <1>5
    <3>5. \A H, E : H = addr /\ E = Emptied => Apart(C, P, M, G, lost, spoiled, Known)
      <4> SUFFICES ASSUME NEW H, NEW E, H = addr, E = Emptied
                   PROVE  Apart(C, P, M, G, lost, spoiled, Known)
        OBVIOUS
      <4>1. /\ Apart(pool, out, Left, H, lost, spoiled, Known) /\ slot \in Slots /\ H[slot] = {b}
            /\ G[slot] = {} /\ \A t \in Slots : t # slot => G[t] = H[t]
        BY <1>3, <1>4, <2>2, <3>4
      <4>2. /\ \A y \in E : y \in Left
            /\ \A y : y \in M <=> y \in Left /\ y \notin E
            /\ \A y : y \in C <=> y \in pool \/ y \in E
            /\ \A y : y \in P <=> y \in out \/ y = b
        BY <2>1, <3>1, <3>2, <3>3
      <4> QED
        BY <4>1, <4>2, ApartAnswer
    <3> QED
      BY <3>5
  <2>4. CASE Fresh
    <3>1. G = addr
      <4>1. G[slot] = addr[slot]
        BY <2>2, <2>4, <1>5
      <4>2. G \in [Slots -> SUBSET Known]
        BY <1>6
      <4>3. \A t \in Slots : G[t] = addr[t]
        BY <4>1, <2>2
      <4>4. addr \in [Slots -> SUBSET Known]
        BY <1>4
      <4> QED
        BY <4>2, <4>3, <4>4
    <3>2. Onwards(2) /\ ~Alone
      BY <2>4, <1>1, <1>10
    <3>3. CASE Pair
      <4>1. b = Source /\ C = pool
        BY <3>3, <2>4, <1>2, <1>5
      <4>2. \A y : y \in M <=> y \in Left /\ y # b
        BY <4>1, <3>2, <3>3, <1>1, <1>4, LeftLess
      <4> QED
        BY <4>1, <4>2, <3>1, <1>4, <1>12, <2>1, ApartSend
    <3>4. CASE ~Pair
      <4>1. b \in pool /\ \A y : y \in C <=> y \in pool /\ y # b
        BY <3>4, <2>4, <2>1, <1>5 DEF Split
      <4>2. \A y : y \in M <=> y \in Left
        BY <3>2, <3>4, <1>1, <1>4, LeftSame
      <4>3. M = Left
        BY <4>2
      <4> QED
        BY <4>1, <4>3, <3>1, <1>4, <2>1, ApartSend
    <3> QED
      BY <3>3, <3>4
  <2> QED
    BY <2>3, <2>4
<1> QED
  BY <1>1, <1>4, <1>7, <1>8, <1>11, <1>13, BufPartsNext

\* A failed send puts back the bulk, and keeps the buffer of its message.
LEMMA BufReset == ASSUME LoopInv, BufInv, AnswerReset PROVE BufInv'
<1>1. /\ burst # << >> /\ ~(Fresh /\ Alone) /\ UNCHANGED <<read, out, came, lost>>
      /\ burst' = << >> /\ home' = << >> /\ spoiled' = spoiled \cup Descs
      /\ pending' = [pending EXCEPT ![slot] = Message]
  BY DEF AnswerReset, Handle, Remove, netVars
<1>2. PICK b \in Buffers : /\ addr' = [addr EXCEPT ![slot] = {b}]
                           /\ pool' = (pool \ Got(b)) \cup Emptied \cup Descs
  BY DEF AnswerReset
<1>3. slot \in Slots /\ Message # << >>
  BY <1>1, BurstFacts, Here, MessageFull
<1>4. /\ HomeInv /\ SlotsInv /\ addr \in [Slots -> SUBSET Known]
      /\ came \subseteq Received /\ lost \cup spoiled \subseteq came
      /\ Apart(pool, out, Left, addr, lost, spoiled, Known)
  BY BufParts
<1>5. /\ b \in Known
      /\ ~Fresh => addr[slot] = {b} /\ Got(b) = {}
      /\ Fresh => addr[slot] = {} /\ Emptied = {}
      /\ Pair /\ Fresh => b = Source /\ Got(b) = {}
      /\ Split => b \in pool /\ Got(b) = {b}
  BY <1>1, MessageBuffer
<1>6. /\ addr'[slot] = {b} /\ \A t \in Slots : t # slot => addr'[t] = addr[t]
      /\ pending'[slot] = Message /\ \A t \in Slots : t # slot => pending'[t] = pending[t]
      /\ addr' \in [Slots -> SUBSET Known]
  <2>1. {b} \subseteq Known /\ addr' = [addr EXCEPT ![slot] = {b}]
    BY <1>2, <1>5
  <2> HIDE DEF Known
  <2> QED
    BY <1>1, <1>3, <1>4, <2>1, SlotSet
<1>7. Known' = Known /\ Received' = Received
  BY <1>1 DEF Known, Received
<1>8. SlotsInv' /\ addr' \in [Slots -> SUBSET Known']
  BY <1>3, <1>4, <1>5, <1>6, <1>7 DEF SlotsInv
<1>9. HomeInv' /\ Left' = {}
  BY <1>1 DEF HomeInv, Left
<1>10. (\A y \in Left : y \in Descs) /\ (\A y \in Descs : y \in came) /\ (\A y \in Descs : y \in Known)
  BY <1>4 DEF Left, Descs, HomeInv, Known
<1>11. Source \in Left
  BY <1>1, SourceLeft
<1>12. \A y \in Emptied : y \in Descs
  BY <1>10, <1>11 DEF Emptied
<1> HIDE DEF Left, Known, Descs
<1>13. \A C, T, G : C = pool' /\ T = spoiled' /\ G = addr' => Apart(C, out, {}, G, lost, T, Known)
  <2> SUFFICES ASSUME NEW C, NEW T, NEW G, C = pool', T = spoiled', G = addr'
               PROVE  Apart(C, out, {}, G, lost, T, Known)
    OBVIOUS
  <2>1. \A y : y \in C <=> y \in Descs \/ (y \in pool /\ y \notin Got(b))
    BY <1>2, <1>12
  <2>2. \A y : y \in T <=> y \in spoiled \/ y \in Descs
    BY <1>1
  <2>3. G[slot] = {b} /\ \A t \in Slots : t # slot => G[t] = addr[t]
    BY <1>6
  <2>4. /\ \A y \in Got(b) : y \in pool
        /\ \A y \in G[slot] : y \in addr[slot] \/ y \in Descs \/ y \in Got(b)
        /\ \A y : y \in addr[slot] \/ y \in Got(b) => y \in G[slot]
    <3>1. CASE ~Fresh
      BY <3>1, <1>5, <2>3
    <3>2. CASE Fresh /\ Pair
      BY <3>2, <1>5, <1>10, <1>11, <2>3
    <3>3. CASE Fresh /\ ~Pair
      BY <3>3, <1>5, <2>3 DEF Split
    <3> QED
      BY <3>1, <3>2, <3>3
  <2>5. \A H, D, Y : H = addr /\ D = Descs /\ Y = Got(b) => Apart(C, out, {}, G, lost, T, Known)
    <3> SUFFICES ASSUME NEW H, NEW D, NEW Y, H = addr, D = Descs, Y = Got(b)
                 PROVE  Apart(C, out, {}, G, lost, T, Known)
      OBVIOUS
    <3>1. /\ Apart(pool, out, Left, H, lost, spoiled, Known) /\ slot \in Slots
          /\ \A t \in Slots : t # slot => G[t] = H[t]
          /\ (\A y \in Left : y \in D) /\ (\A y \in D : y \in Known)
      BY <1>3, <1>4, <1>10, <2>3
    <3>2. /\ \A y \in Y : y \in pool
          /\ \A y : y \in C <=> y \in D \/ (y \in pool /\ y \notin Y)
          /\ \A y : y \in T <=> y \in spoiled \/ y \in D
          /\ \A y \in G[slot] : y \in H[slot] \/ y \in D \/ y \in Y
          /\ \A y : y \in H[slot] \/ y \in Y => y \in G[slot]
      BY <2>1, <2>2, <2>4
    <3>3. PutBack(pool, Left, H, spoiled, Known, D, Y, slot, C, T, G)
      BY <3>1, <3>2 DEF PutBack
    <3> QED
      BY <3>1, <3>3, ApartReset
  <2> QED
    BY <2>5
<1>14. lost' \cup spoiled' \subseteq came'
  BY <1>1, <1>4, <1>10
<1> QED
  BY <1>1, <1>4, <1>7, <1>8, <1>9, <1>13, <1>14, BufPartsNext

\* The pool's buffers are all there are at the start.
LEMMA BufInvInit == Init => BufInv
<1> SUFFICES ASSUME Init PROVE BufInv
  OBVIOUS
<1>1. /\ pending = [s \in Slots |-> << >>] /\ addr = [s \in Slots |-> {}] /\ burst = << >>
      /\ home = << >> /\ pool = Spare /\ out = {} /\ came = {} /\ lost = {} /\ spoiled = {}
  BY DEF Init
<1>2. Left = {} /\ HomeInv
  BY <1>1 DEF Left, HomeInv
<1>3. SlotsInv /\ addr \in [Slots -> SUBSET Known] /\ came \subseteq Received /\ lost \cup spoiled \subseteq came
  BY <1>1 DEF SlotsInv
<1>4. Apart(pool, out, {}, addr, lost, spoiled, Known)
  BY <1>1 DEF Apart, Known
<1> QED
  BY <1>2, <1>3, <1>4, BufParts

\* Buffers through a step of anyone.
LEMMA BufInvNext == LoopInv /\ BufInv /\ [Next]_vars => BufInv'
<1> SUFFICES ASSUME LoopInv, BufInv, [Next]_vars PROVE BufInv'
  OBVIOUS
<1>1. CASE \/ UNCHANGED vars \/ (\E c \in Conns : Client(c))
           \/ Poll \/ Accept \/ Reject \/ NoBuffer
  <2>1. UNCHANGED <<read, pending, bufVars, burst, home>>
    BY <1>1 DEF vars, netVars, Client, Connect, Send, Close, Poll, Accept, Reject, NoBuffer
  <2> QED
    BY <2>1, BufKeep
<1>2. CASE RecvReset
  <2>1. UNCHANGED <<read, pending, bufVars>> /\ burst = << >> /\ burst' = << >> /\ home' = << >>
    BY <1>2 DEF RecvReset, Remove, netVars
  <2>2. HomeInv' /\ Left' = Left
    BY <2>1 DEF HomeInv, Left
  <2> QED
    BY <2>1, <2>2 DEF BufInv, Held, bufVars
<1> QED
  BY <1>1, <1>2, BufRecv, BufKeepUnit, BufAnswer, BufReset DEF Next, run_service

\* A buffer that is not spoiled is in one place, or in none when it is lost; one
\* that is spoiled is in some place.
LEMMA OnePlace ==
  ASSUME LoopInv, BufInv, NEW b \in Known
  PROVE  IF b \in spoiled THEN Places(b) # {}
         ELSE Cardinality(Places(b)) = IF b \in lost THEN 0 ELSE 1
<1> DEFINE P1 == {<<"pool", 0>> : x \in {b} \cap pool}
           P2 == {<<"client", 0>> : x \in {b} \cap out}
           P3 == {<<"bulk", 0>> : k \in {j \in DOMAIN burst : home[burst[j]] = b}}
           P4 == {<<"slot", s>> : s \in {r \in Slots : b \in addr[r]}}
<1>1. Places(b) = P1 \cup P2 \cup P3 \cup P4
  BY DEF Places
<1>2. Apart(pool, out, Left, addr, lost, spoiled, Known)
  BY BufParts
<1>3. b \in Left <=> \E k \in DOMAIN burst : home[burst[k]] = b
  BY DEF Left
<1>4. /\ b \in pool => P1 = {<<"pool", 0>>}
      /\ b \notin pool => P1 = {}
      /\ b \in out => P2 = {<<"client", 0>>}
      /\ b \notin out => P2 = {}
  OBVIOUS
<1>5. (b \in Left => P3 = {<<"bulk", 0>>}) /\ (b \notin Left => P3 = {})
  BY <1>3
<1>6. (\A s \in Slots : b \notin addr[s]) => P4 = {}
  OBVIOUS
<1>7. \A s \in Slots : b \in addr[s] => <<"slot", s>> \in P4
  OBVIOUS
<1>8. \A s \in Slots : b \in addr[s] /\ (\A t \in Slots : b \in addr[t] => t = s) => P4 = {<<"slot", s>>}
  OBVIOUS
<1> HIDE DEF P1, P2, P3, P4, Left, Known
<1>9. CASE b \in spoiled
  <2>1. b \in pool \/ b \in out \/ \E s \in Slots : b \in addr[s]
    BY <1>2, <1>9 DEF Apart
  <2> QED
    BY <2>1, <1>1, <1>4, <1>7, <1>9
<1>10. CASE b \notin spoiled /\ b \in lost
  <2>1. b \notin pool /\ b \notin out /\ b \notin Left /\ \A s \in Slots : b \notin addr[s]
    BY <1>2, <1>10 DEF Apart
  <2>2. Places(b) = {}
    BY <2>1, <1>1, <1>4, <1>5, <1>6
  <2> QED
    BY <2>2, <1>10, FS_EmptySet
<1>11. CASE b \notin spoiled /\ b \notin lost
  <2>1. CASE b \in pool
    BY <2>1, <1>11, <1>1, <1>2, <1>4, <1>5, <1>6, FS_Singleton DEF Apart
  <2>2. CASE b \in out
    BY <2>2, <1>11, <1>1, <1>2, <1>4, <1>5, <1>6, FS_Singleton DEF Apart
  <2>3. CASE b \in Left
    <3>1. b \notin pool /\ b \notin out /\ \A s \in Slots : b \notin addr[s]
      BY <2>3, <1>2 DEF Apart
    <3>2. P1 = {} /\ P2 = {} /\ P3 = {<<"bulk", 0>>} /\ P4 = {}
      BY <2>3, <3>1, <1>4, <1>5, <1>6
    <3>3. Places(b) = {<<"bulk", 0>>}
      BY <1>1, <3>2
    <3> QED
      BY <3>3, <1>11, FS_Singleton
  <2>4. CASE \E s \in Slots : b \in addr[s]
    <3>1. PICK s \in Slots : b \in addr[s]
      BY <2>4
    <3>2. \A t \in Slots : b \in addr[t] => t = s
      BY <3>1, <1>2, <1>11 DEF Apart
    <3>3. P4 = {<<"slot", s>>}
      BY <1>8, <3>1, <3>2
    <3>4. P1 = {} /\ P2 = {} /\ P3 = {}
      BY <3>1, <1>2, <1>4, <1>5, <1>11 DEF Apart
    <3>5. Places(b) = {<<"slot", s>>}
      BY <1>1, <3>3, <3>4
    <3> QED
      BY <3>5, <1>11, FS_Singleton
  <2> QED
    BY <1>2, <1>11, <2>1, <2>2, <2>3, <2>4 DEF Apart
<1> QED
  BY <1>9, <1>10, <1>11
-----------------------------------------------------------------------------
(* The theorems *)

\* The loop, the slots and the buffers of the event loop of service_sync.h:
\* the conjunction is inductive.
THEOREM SyncInvariant == Spec => [](LoopInv /\ MatchInv /\ BufInv)
<1> DEFINE I == LoopInv /\ MatchInv /\ BufInv
<1>1. Init => I
  BY LoopInvInit, MatchInvInit, BufInvInit
<1>2. I /\ [Next]_vars => I'
  BY LoopInvNext, MatchInvNext, BufInvNext
<1> QED
  BY <1>1, <1>2, PTL DEF Spec

\* Until a slot with data in its pending buffer changes hands each connection gets
\* the answers to its own requests, whole, once each and in order: the bytes of
\* one connection are not taken for another's (service_sync.h:50).
THEOREM AnswersGoHome == Spec => []AnswersMatchRequests
<1>1. MatchInv => AnswersMatchRequests
  BY DEF MatchInv, AnswersMatchRequests
<1> QED
  BY <1>1, SyncInvariant, PTL

\* A request is handled twice, or its rest taken for a header, only after a slot
\* with data changed hands, which only a close does (service_sync.h:127).
THEOREM DamageHasCause == Spec => []DamageNeedsMixing
<1>1. MatchInv => DamageNeedsMixing
  BY DEF MatchInv, DamageNeedsMixing
<1> QED
  BY <1>1, SyncInvariant, PTL

\* Each buffer is in exactly one of the pool, a client, the bulk and a pending
\* buffer, but one that relocation emptied (service.h:189), which is in none, and
\* those of a bulk put back for a failed send (service_sync.h:54), each in one or
\* more: what that goes wrong with is confined to the buffers of its bulk.
THEOREM BuffersNeverLost == Spec => []BuffersAccounted
<1>1. LoopInv /\ BufInv => BuffersAccounted
  BY OnePlace DEF BuffersAccounted, Known
<1> QED
  BY <1>1, SyncInvariant, PTL

-----------------------------------------------------------------------------
(* Types *)

\* The units are those that clients send, and a message is two of them, whatever
\* has become of the slots.
UnitInv ==
  /\ \A c \in Conns : sent[c] <= 2 * Asks[c]
  /\ answers \in [Conns -> Seq(Unit \X Unit)]
  /\ pending \in [Slots -> Seq(Unit)]
  /\ \A s \in Slots : Len(pending[s]) <= 2
  /\ handled \subseteq Unit \X Unit /\ repeated \subseteq handled
  /\ burst \in Seq(Unit)
  /\ DOMAIN home \subseteq Unit

TurnInv ==
  /\ mixed \in BOOLEAN
  /\ pc \in {"poll", "scan"}
  /\ ready \in [Slots -> BOOLEAN]
  /\ slot \in 0 .. MaxSocks
  /\ status \in {"run", "unknown command", "no buffers", "max connections"}

LEMMA UnitIs ==
  ASSUME NEW c \in Conns, NEW k \in Nat, k >= 1, k <= 2 * Asks[c]
  PROVE  <<c, k>> \in Unit
<1>1. 2 * Asks[c] \in Nat
  BY SyncAssumption
<1>2. <<c, k>> \in {c} \X (1 .. 2 * Asks[c])
  BY <1>1
<1> QED
  BY <1>2 DEF Unit

\* A sequence of two is a pair, and one that is neither empty nor two is of one.
LEMMA TwoOfThem ==
  ASSUME NEW S, NEW q \in Seq(S), Len(q) = 2
  PROVE  q \in S \X S
<1>1. q[1] \in S /\ q[2] \in S
  BY ElementOfSeq
<1> DEFINE r == <<q[1], q[2]>>
<1>2. r \in Seq(S) /\ Len(r) = 2 /\ r[1] = q[1] /\ r[2] = q[2]
  BY <1>1
<1> HIDE DEF r
<1>3. \A k \in 1 .. 2 : q[k] = r[k]
  BY <1>2
<1>4. q = r
  BY <1>2, <1>3, SeqEqual
<1> QED
  BY <1>1, <1>4 DEF r

LEMMA OneOfThem == \A S : \A x \in S : <<x>> \in Seq(S) /\ Len(<<x>>) = 1
OBVIOUS

LEMMA PairOfUnits ==
  ASSUME NEW S, NEW q \in S \X S
  PROVE  q \in Seq(S) /\ Len(q) = 2 /\ q[1] \in S
<1>1. q = <<q[1], q[2]>> /\ q[1] \in S /\ q[2] \in S
  OBVIOUS
<1>2. \A a, b \in S : <<a, b>> \in Seq(S) /\ Len(<<a, b>>) = 2
  OBVIOUS
<1> QED
  BY <1>1, <1>2

\* What is handled is two units (process_desc returns 1 for nothing else), also when the
\* pending buffer is that of another connection or was never cleared.
LEMMA MessageIsTwo ==
  ASSUME LoopInv, UnitInv, burst # << >>, ~(Fresh /\ Alone)
  PROVE  Message \in Unit \X Unit
<1>1. slot \in Slots /\ burst \in Seq(Unit)
  BY BurstFacts, Here DEF UnitInv
<1>2. CASE Fresh
  <2>1. Len(burst) >= 2 /\ Len(burst) \in Nat /\ ~Complete
    BY <1>2, RestIsSuffix, BurstFacts
  <2>2. burst[1] \in Unit /\ burst[2] \in Unit
    BY <1>1, <2>1, ElementOfSeq
  <2>3. Message = <<burst[1], burst[2]>>
    BY <1>2, <2>1 DEF Message
  <2> QED
    BY <2>2, <2>3
<1>3. CASE Complete
  <2>1. pending[slot] \in Seq(Unit) /\ Len(pending[slot]) = 2
    BY <1>1, <1>3 DEF UnitInv, Complete
  <2> QED
    BY <1>3, <2>1, TwoOfThem DEF Message
<1>4. CASE ~Fresh /\ ~Complete
  <2>1. PICK q \in Seq(Unit) : q = pending[slot] /\ Len(q) = 1
    <3>1. PICK q \in Seq(Unit) : q = pending[slot] /\ Len(q) <= 2
      BY <1>1 DEF UnitInv
    <3>2. Len(q) \in Nat /\ Len(q) # 0 /\ Len(q) # 2
      BY <1>4, <3>1, LenProperties, EmptySeq DEF Fresh, Complete
    <3>3. Len(q) = 1
      <4> DEFINE l == Len(q)
      <4>1. l \in Nat /\ l # 0 /\ l # 2 /\ l <= 2
        BY <3>1, <3>2
      <4> HIDE DEF l
      <4>2. l = 1
        BY <4>1
      <4> QED
        BY <4>2 DEF l
    <3> QED
      BY <3>1, <3>3
  <2>2. PICK u \in Unit : u = Head(burst)
    BY <1>1, HeadTailProperties
  <2>6. Append(q, u) \in Seq(Unit) /\ Len(Append(q, u)) = Len(q) + 1
    BY AppendProperties
  <2>3. PICK r \in Seq(Unit) : r = Append(q, u) /\ Len(r) = Len(q) + 1
    BY <2>6
  <2>5. Len(r) = 2
    BY <2>1, <2>3
  <2>4. r \in Unit \X Unit
    BY <2>3, <2>5, TwoOfThem
  <2> QED
    BY <1>4, <2>1, <2>2, <2>3, <2>4 DEF Message
<1> QED
  BY <1>2, <1>3, <1>4

LEMMA UnitInvInit == Init => UnitInv
<1> SUFFICES ASSUME Init PROVE UnitInv
  OBVIOUS
<1>1. \A c \in Conns : sent[c] <= 2 * Asks[c]
  BY SyncAssumption DEF Init
<1>2. answers \in [Conns -> Seq(Unit \X Unit)] /\ pending \in [Slots -> Seq(Unit)]
  BY EmptySeq DEF Init
<1>3. \A s \in Slots : Len(pending[s]) <= 2
  BY EmptySeq DEF Init
<1>4. burst \in Seq(Unit) /\ DOMAIN home = {}
  BY EmptySeq DEF Init
<1> QED
  BY <1>1, <1>2, <1>3, <1>4 DEF Init, UnitInv

\* Clients send what they have to ask and no more.
LEMMA UnitClient == ASSUME LoopInv, UnitInv, NEW c \in Conns, Client(c) PROVE UnitInv'
<1>1. UNCHANGED <<answers, pending, handled, repeated, burst, home>>
  BY DEF Client, Connect, Send, Close
<1>2. ASSUME NEW d \in Conns PROVE sent'[d] <= 2 * Asks[d]
  <2>1. sent[d] \in Nat /\ sent[d] <= 2 * Asks[d] /\ Asks[d] \in Nat /\ sent \in [Conns -> Nat]
    BY SyncAssumption DEF LoopInv, NetInv, UnitInv
  <2>2. CASE Send(c) /\ c = d
    <3>1. sent'[d] = sent[d] + 1 /\ sent[d] < 2 * Asks[d]
      BY <2>1, <2>2 DEF Send
    <3> QED
      BY <2>1, <3>1
  <2>3. CASE ~(Send(c) /\ c = d)
    <3>1. sent'[d] = sent[d]
      BY <2>1, <2>3 DEF Client, Connect, Send, Close
    <3> QED
      BY <2>1, <3>1
  <2> QED
    BY <2>2, <2>3
<1> QED
  BY <1>1, <1>2 DEF UnitInv

LEMMA UnitRecv == ASSUME LoopInv, UnitInv, Recv PROVE UnitInv'
<1>1. PICK n \in Nat \ {0} :
        /\ read[Conn] + n <= sent[Conn]
        /\ burst' \in Seq(AnyUnit) /\ Len(burst') = n
        /\ \A k \in 1 .. n : burst'[k] = <<Conn, read[Conn] + k>>
  BY RecvFacts
<1>2. Conn \in Conns /\ read[Conn] \in Nat /\ sent[Conn] \in Nat
  BY Here DEF Recv, Scanning
<1>3. ASSUME NEW k \in 1 .. n PROVE burst'[k] \in Unit
  <2>1. read[Conn] + k \in Nat /\ read[Conn] + k >= 1 /\ read[Conn] + k <= sent[Conn]
    BY <1>1, <1>2
  <2>2. read[Conn] + k <= 2 * Asks[Conn]
    <3>1. sent[Conn] <= 2 * Asks[Conn] /\ Asks[Conn] \in Nat
      BY <1>2, SyncAssumption DEF UnitInv
    <3>2. PICK b \in Nat : b = 2 * Asks[Conn]
      BY <3>1
    <3> QED
      BY <1>2, <2>1, <3>1, <3>2
  <2> QED
    BY <1>1, <1>2, <2>1, <2>2, UnitIs
<1>4. burst' \in Seq(Unit)
  <2>1. burst' = [k \in 1 .. n |-> burst'[k]]
    BY <1>1, LenProperties
  <2>2. burst' \in [1 .. n -> Unit]
    BY <1>3, <2>1
  <2> QED
    BY <2>2, SeqDef
<1>5. UNCHANGED <<sent, answers, pending, handled, repeated>>
  BY DEF Recv
<1>6. DOMAIN home' \subseteq Unit
  <2>1. PICK m \in 1 .. sent[Conn] - read[Conn] : \E h \in Cuttings(m) :
          /\ burst' = [k \in 1 .. m |-> <<Conn, read[Conn] + k>>]
          /\ home' = [u \in {<<Conn, read[Conn] + k>> : k \in 1 .. m} |->
                        <<Conn, read[Conn] + h[u[2] - read[Conn]]>>]
    BY DEF Recv
  <2>2. \A k \in 1 .. m : burst'[k] = <<Conn, read[Conn] + k>> /\ k \in DOMAIN burst'
    BY <2>1
  <2>3. DOMAIN burst' = 1 .. n
    BY <1>1, LenProperties
  <2>4. \A k \in 1 .. m : <<Conn, read[Conn] + k>> \in Unit
    BY <1>3, <2>2, <2>3
  <2>5. DOMAIN home' = {<<Conn, read[Conn] + k>> : k \in 1 .. m}
    BY <2>1
  <2> QED
    BY <2>4, <2>5
<1> QED
  BY <1>4, <1>5, <1>6 DEF UnitInv

\* A step that goes on in the bulk leaves units in it.
LEMMA UnitAdvance ==
  ASSUME LoopInv, UnitInv, NEW rest \in Seq(Unit), Advance(rest)
  PROVE  burst' \in Seq(Unit) /\ DOMAIN home' \subseteq Unit
BY DEF Advance, UnitInv

\* What becomes of the pending buffers when slot s gets q.
LEMMA UnitPending ==
  ASSUME UnitInv, NEW s \in Slots, NEW q \in Seq(Unit), Len(q) <= 2,
         pending' = [pending EXCEPT ![s] = q]
  PROVE  pending' \in [Slots -> Seq(Unit)] /\ \A t \in Slots : Len(pending'[t]) <= 2
<1>1. pending' \in [Slots -> Seq(Unit)]
  BY DEF UnitInv
<1>2. \A t \in Slots : pending'[t] = q \/ pending'[t] = pending[t]
  BY DEF UnitInv
<1> QED
  BY <1>1, <1>2 DEF UnitInv

LEMMA UnitKeep == ASSUME LoopInv, UnitInv, Keep PROVE UnitInv'
<1>1. /\ burst # << >> /\ UNCHANGED <<sent, answers, handled, repeated>>
      /\ pending' = [pending EXCEPT ![slot] = <<Head(burst)>>] /\ Advance(Tail(burst))
  BY DEF Keep, netVars
<1>2. burst \in Seq(Unit) /\ slot \in Slots
  BY <1>1, BurstFacts, Here DEF UnitInv
<1>3. Head(burst) \in Unit /\ Tail(burst) \in Seq(Unit)
  BY <1>1, <1>2, HeadTailProperties
<1>4. PICK q \in Seq(Unit) : q = <<Head(burst)>> /\ Len(q) = 1
  BY <1>3, OneOfThem
<1>5. Len(q) <= 2
  BY <1>4
<1>6. pending' \in [Slots -> Seq(Unit)] /\ \A t \in Slots : Len(pending'[t]) <= 2
  BY <1>1, <1>2, <1>4, <1>5, UnitPending
<1>7. burst' \in Seq(Unit) /\ DOMAIN home' \subseteq Unit
  BY <1>1, <1>3, UnitAdvance
<1> QED
  BY <1>1, <1>6, <1>7 DEF UnitInv

\* What is left of the bulk is units.
LEMMA UnitRest ==
  ASSUME LoopInv, UnitInv, burst # << >>, ~(Fresh /\ Alone) PROVE Rest \in Seq(Unit)
<1>1. burst \in Seq(Unit) /\ Tail(burst) \in Seq(Unit) /\ Len(Tail(burst)) = Len(burst) - 1
  BY HeadTailProperties DEF UnitInv
<1>2. CASE Fresh
  <2>1. Len(burst) >= 2 /\ Len(burst) \in Nat /\ ~Complete
    BY <1>2, RestIsSuffix, BurstFacts
  <2>2. Tail(burst) # << >>
    <3>1. Len(burst) - 1 # 0
      <4> DEFINE l == Len(burst)
      <4>1. l \in Nat /\ l >= 2
        BY <2>1
      <4> HIDE DEF l
      <4>2. l - 1 # 0
        BY <4>1
      <4> QED
        BY <4>2 DEF l
    <3>2. Len(<< >>) = 0
      BY EmptySeq
    <3> QED
      BY <1>1, <3>1, <3>2
  <2>3. Tail(Tail(burst)) \in Seq(Unit)
    BY <1>1, <2>2, HeadTailProperties
  <2> QED
    BY <1>2, <2>1, <2>3 DEF Rest
<1>3. CASE ~Fresh
  BY <1>1, <1>3 DEF Rest
<1> QED
  BY <1>2, <1>3

\* What is handled.
LEMMA UnitHandle ==
  ASSUME LoopInv, UnitInv, Handle
  PROVE  /\ Message \in Unit \X Unit
         /\ handled' \subseteq Unit \X Unit /\ repeated' \subseteq handled'
<1>1. Message \in Unit \X Unit
  BY MessageIsTwo DEF Handle
<1> QED
  BY <1>1 DEF Handle, UnitInv

LEMMA UnitAnswer == ASSUME LoopInv, UnitInv, Answer PROVE UnitInv'
<1>1. /\ burst # << >> /\ ~(Fresh /\ Alone) /\ Handle /\ sent' = sent
      /\ answers' = [answers EXCEPT ![Conn] = Append(@, Message)]
      /\ pending' = [pending EXCEPT ![slot] = << >>]
      /\ Advance(Rest)
  BY DEF Answer, Handle, Clear
<1>2. /\ Message \in Unit \X Unit
      /\ handled' \subseteq Unit \X Unit /\ repeated' \subseteq handled'
  BY <1>1, UnitHandle
<1>3. Conn \in Conns /\ slot \in Slots
  BY <1>1, BurstFacts, Here
<1>4. answers' \in [Conns -> Seq(Unit \X Unit)]
  <2>1. answers \in [Conns -> Seq(Unit \X Unit)]
    BY DEF UnitInv
  <2>2. Append(answers[Conn], Message) \in Seq(Unit \X Unit)
    BY <1>2, <1>3, <2>1, AppendProperties
  <2> QED
    BY <1>1, <1>3, <2>1, <2>2
<1>5. burst' \in Seq(Unit) /\ DOMAIN home' \subseteq Unit
  <2>1. Rest \in Seq(Unit)
    BY <1>1, UnitRest
  <2> QED
    BY <1>1, <2>1, UnitAdvance
<1>6. PICK q \in Seq(Unit) : q = << >> /\ Len(q) <= 2
  <2>1. << >> \in Seq(Unit) /\ Len(<< >>) = 0
    BY EmptySeq
  <2>2. Len(<< >>) <= 2
    BY <2>1
  <2> QED
    BY <2>1, <2>2
<1>7. pending' \in [Slots -> Seq(Unit)] /\ \A t \in Slots : Len(pending'[t]) <= 2
  BY <1>1, <1>3, <1>6, UnitPending
<1> QED
  BY <1>1, <1>2, <1>4, <1>5, <1>7 DEF UnitInv

LEMMA UnitReset == ASSUME LoopInv, UnitInv, RecvReset \/ AnswerReset PROVE UnitInv'
<1>1. UNCHANGED <<sent, answers>> /\ burst' \in Seq(Unit) /\ DOMAIN home' \subseteq Unit
  <2>1. UNCHANGED <<sent, answers>> /\ burst' = << >> /\ home' = << >>
    BY DEF RecvReset, AnswerReset, Remove, netVars
  <2>2. << >> \in Seq(Unit) /\ DOMAIN << >> = {}
    BY EmptySeq
  <2> QED
    BY <2>1, <2>2
<1>2. CASE RecvReset
  BY <1>1, <1>2 DEF RecvReset, UnitInv
<1>3. CASE AnswerReset
  <2>1. burst # << >> /\ Handle /\ pending' = [pending EXCEPT ![slot] = Message]
    BY <1>3 DEF AnswerReset, Handle
  <2>2. slot \in Slots
    BY <2>1, BurstFacts, Here
  <2>3. /\ Message \in Unit \X Unit
        /\ handled' \subseteq Unit \X Unit /\ repeated' \subseteq handled'
    BY <2>1, UnitHandle
  <2>4. PICK q \in Seq(Unit) : q = Message /\ Len(q) = 2
    BY <2>3, PairOfUnits
  <2>5. Len(q) <= 2
    BY <2>4
  <2>6. pending' \in [Slots -> Seq(Unit)] /\ \A t \in Slots : Len(pending'[t]) <= 2
    BY <2>1, <2>2, <2>4, <2>5, UnitPending
  <2> QED
    BY <1>1, <2>3, <2>6 DEF UnitInv
<1> QED
  BY <1>2, <1>3

LEMMA UnitInvNext == ASSUME LoopInv, UnitInv, [Next]_vars PROVE UnitInv'
<1>1. CASE UNCHANGED <<sent, answers, pending, handled, repeated, burst, home>>
  BY <1>1 DEF UnitInv
<1>2. CASE Poll \/ Accept \/ Reject \/ NoBuffer \/ UNCHANGED vars
  BY <1>1, <1>2 DEF Poll, Accept, Reject, NoBuffer, vars, netVars
<1> QED
  BY <1>2, UnitClient, UnitRecv, UnitKeep, UnitAnswer, UnitReset DEF Next, run_service

LEMMA TurnInvInit == Init => TurnInv
<1> SUFFICES ASSUME Init PROVE TurnInv
  OBVIOUS
<1>1. slot \in 0 .. MaxSocks
  BY SyncAssumption DEF Init
<1>2. ready \in [Slots -> BOOLEAN]
  BY DEF Init
<1> QED
  BY <1>1, <1>2 DEF Init, TurnInv

LEMMA TurnInvNext == ASSUME LoopInv, LoopInv', TurnInv, [Next]_vars PROVE TurnInv'
<1>1. ASSUME pc' = "scan" PROVE slot' \in 0 .. MaxSocks
  <2>1. slot' \in 1 .. NSocks' /\ NSocks' <= MaxSocks /\ NSocks' = 1 + Len(socks')
        /\ socks' \in Seq(Conns)
    BY <1>1 DEF LoopInv, ListInv, RoundInv, NSocks
  <2>2. Len(socks') \in Nat /\ MaxSocks \in Nat
    BY <2>1, LenProperties, SyncAssumption
  <2> QED
    BY <2>1, <2>2
<1>2. /\ NSocks <= MaxSocks /\ NSocks = 1 + Len(socks) /\ Len(socks) \in Nat /\ MaxSocks \in Nat
  BY LenProperties, SyncAssumption DEF LoopInv, ListInv, NSocks
<1>3. ASSUME Remove PROVE ready' \in [Slots -> BOOLEAN] /\ (mixed \in BOOLEAN => mixed' \in BOOLEAN)
  <2>1. ASSUME NEW t \in Slots, t < NSocks - 1 PROVE t + 1 \in Slots
    BY <1>2, <2>1 DEF Slots
  <2>2. ready' = ShiftReady
    BY <1>3 DEF Remove
  <2>3. ready' \in [Slots -> BOOLEAN]
    BY <1>2, <2>1, <2>2 DEF ShiftReady, TurnInv, Slots
  <2> QED
    BY <1>3, <2>3 DEF Remove
<1>4. ASSUME UNCHANGED <<mixed, pc, ready, slot, status>> PROVE TurnInv'
  BY <1>4 DEF TurnInv
<1>5. CASE Poll
  <2>1. ready' \in [Slots -> BOOLEAN]
    BY <1>5 DEF Poll, Polled
  <2> QED
    BY <1>1, <1>5, <2>1 DEF Poll, TurnInv
<1>6. CASE Recv
  BY <1>4, <1>6 DEF Recv
<1>7. CASE RecvReset
  <2>1. pc' = pc /\ pc = "scan"
    BY <1>7 DEF RecvReset, Scanning
  <2> QED
    BY <1>1, <1>3, <1>7, <2>1 DEF RecvReset, TurnInv
<1>8. CASE Keep \/ Answer
  <2>1. UNCHANGED <<mixed, pc, ready, status>> /\ pc = "scan"
    BY <1>8 DEF Keep, Answer, Handle, Scanning, Advance
  <2> QED
    BY <1>1, <2>1 DEF TurnInv
<1>9. CASE Reject \/ NoBuffer
  BY <1>9 DEF Reject, NoBuffer, TurnInv
<1>10. CASE AnswerReset
  <2>1. pc' = pc /\ pc = "scan"
    BY <1>10 DEF AnswerReset, Handle, Scanning
  <2> QED
    BY <1>1, <1>3, <1>10, <2>1 DEF AnswerReset, TurnInv
<1>11. CASE Accept
  <2>1. /\ mixed' = mixed /\ pc' = "poll" /\ ready' = [s \in Slots |-> FALSE] /\ slot' = 0
        /\ status' = status \/ status' = "max connections"
    BY <1>11 DEF Accept
  <2>2. ready' \in [Slots -> BOOLEAN]
    BY <2>1
  <2>3. slot' \in 0 .. MaxSocks
    <3>1. slot' = 0
      BY <2>1
    <3>2. MaxSocks \in Nat
      BY SyncAssumption
    <3> QED
      BY <3>1, <3>2
  <2>4. mixed' \in BOOLEAN /\ pc' \in {"poll", "scan"}
    BY <2>1 DEF TurnInv
  <2>5. status' \in {"run", "unknown command", "no buffers", "max connections"}
    BY <2>1 DEF TurnInv
  <2> QED
    BY <2>2, <2>3, <2>4, <2>5 DEF TurnInv
<1>12. ASSUME NEW c \in Conns, Client(c) PROVE TurnInv'
  BY <1>4, <1>12 DEF Client
<1>13. CASE UNCHANGED vars
  BY <1>4, <1>13 DEF vars
<1> QED
  BY <1>5, <1>6, <1>7, <1>8, <1>9, <1>10, <1>11, <1>12, <1>13 DEF Next, run_service

\* Every variable has its type, also after a slot changed hands with data in it
\* and after a send failed: a pending buffer never holds more than one message
\* (service_sync.h:40), a message handled is two units, and the list of sockets
\* fits its array (service_sync.h:140).
THEOREM TypeCorrect == Spec => []TypeOK
<1>1. LoopInv /\ BufInv /\ UnitInv /\ TurnInv => TypeOK
  <2> SUFFICES ASSUME LoopInv, BufInv, UnitInv, TurnInv PROVE TypeOK
    OBVIOUS
  <2>1. ASSUME NEW c \in Conns PROVE sent[c] \in 0 .. 2 * Asks[c] /\ read[c] \in 0 .. sent[c]
    BY SyncAssumption DEF LoopInv, NetInv, UnitInv
  <2>2. came \subseteq Unit
    <3>1. ASSUME NEW c \in Conns, NEW k \in 1 .. read[c] PROVE <<c, k>> \in Unit
      <4>1. k \in 1 .. 2 * Asks[c]
        BY <2>1, SyncAssumption
      <4> QED
        BY <4>1 DEF Unit
    <3>2. \A u \in came : \E c \in Conns : \E k \in 1 .. read[c] : u = <<c, k>>
      BY DEF BufInv
    <3> QED
      BY <3>1, <3>2
  <2>3. /\ addr \in [Slots -> SUBSET Buffer] /\ pool \subseteq Buffer /\ out \subseteq Buffer
        /\ lost \subseteq came /\ spoiled \subseteq came
    <3>1. Spare \cup came \subseteq Buffer
      BY <2>2 DEF Buffer
    <3>2. addr \in [Slots -> SUBSET (Spare \cup came)]
      BY DEF BufInv
    <3> QED
      BY <3>1, <3>2 DEF BufInv
  <2>4. \A u \in DOMAIN home : u \in Unit /\ home[u] \in Unit
    BY <2>2 DEF BufInv, HomeInv, UnitInv
  <2> QED
    BY <2>1, <2>2, <2>3, <2>4 DEF LoopInv, NetInv, ListInv, UnitInv, TurnInv, TypeOK
<1>2. LoopInv /\ UnitInv /\ [Next]_vars => UnitInv'
  BY UnitInvNext
<1>3. LoopInv /\ LoopInv' /\ TurnInv /\ [Next]_vars => TurnInv'
  BY TurnInvNext
<1> QED
  BY <1>1, <1>2, <1>3, UnitInvInit, TurnInvInit, SyncInvariant, PTL DEF Spec

=============================================================================
