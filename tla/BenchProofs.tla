---------------------------- MODULE BenchProofs ----------------------------
(***************************************************************************)
(* Proofs about the benchmarks, for all their options, every number of     *)
(* connections and rounds, and all sizes of messages, buffers and pools:   *)
(* unless a client reuses buffers it does not get back, no buffer is in    *)
(* two places, and a client that comes to its end has returned all that it *)
(* used.                                                                   *)
(***************************************************************************)
EXTENDS Bench, SequenceTheorems, FiniteSetTheorems, WellFoundedInduction, TLAPS

-----------------------------------------------------------------------------
(* Where buffers are *)

\* The places that hold descriptors: the two directions of a connection, the
\* client's for a connection, and the server's partial request.
Spots == {"client", "server", "own", "part"} \X Conns

\* The descriptors of descs[k] that are the client's.
OwnLen(k) ==
  IF opt.prog = "throughput"
  THEN IF opt.reuse /\ \/ c.at = "connect" /\ k < c.i
                       \/ c.at = "send" /\ k \in c.i .. opt.conns
                       \/ c.at = "again" /\ k = NextReady
       THEN ndescs ELSE 0
  ELSE IF k # 1 THEN 0
       ELSE IF c.at = "recv" THEN c.i
       ELSE IF opt.reuse /\ c.at \in {"send", "end"} THEN ndescs ELSE 0

Lines ==
  [x \in Spots |-> IF x[1] \in Ends THEN Bufs(wire[x[1]][x[2]])
                   ELSE IF x[1] = "own" THEN SubSeq(descs[x[2]], 1, OwnLen(x[2]))
                   ELSE IF x = <<"part", 1>> THEN Bufs(partial) ELSE << >>]

\* The buffers of a line, none of them twice; the buffers in a pool.
Elems(q) == {q[i] : i \in 1 .. Len(q)}
Distinct(q) == \A i, j \in 1 .. Len(q) : q[i] = q[j] => i = j
Free(p) == {b \in Buffers : p[b] > 0}

\* With lines L and pool p, of n buffers, each buffer is in one place at most.
Apart(L, p, n) ==
  /\ \A x \in Spots : L[x] \in Seq(Buffers) /\ Distinct(L[x]) /\ Elems(L[x]) \subseteq 1 .. n
  /\ \A b \in Buffers : p[b] \in {0, 1}
  /\ Free(p) \subseteq 1 .. n
  /\ \A x, y \in Spots : x # y => Elems(L[x]) \cap Elems(L[y]) = {}
  /\ \A x \in Spots : Elems(L[x]) \cap Free(p) = {}

\* The buffers that are nowhere.
Stray(L, p, n) == {b \in (1 .. n) \ Free(p) : \A x \in Spots : b \notin Elems(L[x])}

-----------------------------------------------------------------------------
(* The invariant *)

Desc == [buf : Buffers, size : Nat]
Wires == [Ends -> [Conns -> Seq(Desc)]]
Running == c.at \notin {"exit", "refused"}

\* The bytes of an answer the client has received.
Received == {0} \cup {0 + Bytes(ds) : ds \in Seq(Desc)}

ClientStates ==
  [at : {"connect", "send", "poll", "round", "again", "final", "recv", "end",
         "done", "exit", "refused"},
   i : Nat, ready : SUBSET (1 .. opt.conns), n : Nat, rsize : Received]

ServerStates ==
  [at : {"off", "poll", "scan", "accept", "recv", "done", "exit"}, i : Nat \ {0},
   ready : SUBSET Nat, socks : Seq(Conns), started : BOOLEAN]

BenchTypes ==
  /\ opt \in Options /\ (opt.prog = "latency" => opt.conns = 1)
  /\ c \in ClientStates
  /\ s \in ServerStates
  /\ descs \in [Conns -> Seq(Buffers)]
  /\ partial \in Seq(Desc)
  /\ wire \in Wires
  /\ backlog \in Seq(Conns)
  /\ s.at = "scan" /\ 0 \in s.ready => backlog # << >>
  /\ opt.prog = "throughput" => partial = << >>
  /\ partial = << >> \/ wire["server"][1] = << >>

\* The throughput client waits for an answer on connection k.
Awaits(k) ==
  /\ k <= opt.conns
  /\ \/ c.at = "send" /\ k < c.i
     \/ c.at \in {"poll", "round"}
     \/ c.at = "again" /\ k # NextReady
     \/ c.at = "final" /\ k >= c.i

\* A request of the throughput client is on its way, or its answer is, or it
\* was lost with the server.
TOutstanding(k) ==
  \/ /\ Len(wire["server"][k]) = ndescs /\ wire["client"][k] = << >>
     /\ opt.reuse => Bufs(wire["server"][k]) = descs[k]
  \/ /\ wire["server"][k] = << >> /\ Len(wire["client"][k]) \in {0, NAnswer}
     /\ opt.reuse /\ Len(wire["client"][k]) = ndescs => Bufs(wire["client"][k]) = descs[k]

Connected == IF c.at = "connect" THEN c.i - 1 ELSE opt.conns
Quiet(k) == wire["server"][k] = << >> /\ wire["client"][k] = << >>

TAt ==
  /\ c.at \in {"connect", "send", "poll", "round", "again", "final", "done"}
  /\ c.at \in {"connect", "send", "final"} => c.i \in 1 .. opt.conns
  /\ c.at = "again" => c.ready # {}

TLine(k) == IF Awaits(k) THEN TOutstanding(k) ELSE Quiet(k)

TDescs ==
  opt.reuse /\ c.at \notin {"final", "done"} =>
    \A k \in Conns : k <= Connected => Len(descs[k]) = ndescs

\* Unless a request was lost, the client alone has lost buffers: the ones it
\* got for its connections and does not use.
TStray ==
  (\A k \in Conns : Awaits(k) => ~Quiet(k)) =>
    Cardinality(Stray(Lines, pool, opt.buffers)) = IF opt.reuse THEN 0 ELSE Connected * ndescs

TInv == (\A k \in Conns : TLine(k)) /\ TDescs /\ TStray

\* So with the latency client's one request.
LInv ==
  /\ c.at \in {"connect", "send", "recv", "end", "done"}
  /\ \A k \in Conns : k # 1 => Quiet(k)
  /\ opt.reuse /\ c.at \in {"send", "end"} => Len(descs[1]) >= ndescs
  /\ c.at = "recv" /\ c.i = 0 => c.rsize = 0
  /\ IF c.at = "recv"
     THEN /\ c.i <= Len(descs[1])
          /\ \/ /\ Len(wire["server"][1]) = ndescs /\ wire["client"][1] = << >>
                /\ partial = << >> /\ c.i = 0
             \/ Quiet(1) /\ Len(partial) = ndescs /\ c.i = 0
             \/ /\ Len(wire["client"][1]) = NAnswer /\ wire["server"][1] = << >>
                /\ partial = << >> /\ c.i = 0
             \/ Quiet(1) /\ partial = << >> /\ c.i \in {0, NAnswer}
     ELSE Quiet(1) /\ partial = << >>
  /\ (c.at = "recv" => ~(Quiet(1) /\ partial = << >> /\ c.i = 0))
       => Stray(Lines, pool, opt.buffers) = {}

Sound == BenchTypes /\ Apart(Lines, pool, opt.buffers)

BenchInv ==
  ~Stale =>
    /\ Sound
    /\ Running => IF opt.prog = "throughput" THEN TAt /\ (NAnswer <= ndescs => TInv) ELSE LInv

-----------------------------------------------------------------------------
(* Messages *)

\* The options, and the buffers they give the pool.
LEMMA OptionFacts ==
  ASSUME opt \in Options
  PROVE  /\ opt.conns \in Conns /\ opt.conns \in Nat \ {0} /\ opt.buffers \in Nat
         /\ 1 .. opt.buffers \subseteq Buffers
         /\ opt.csize \in Nat \ {0} /\ opt.ssize \in Nat \ {0}
         /\ opt.reuse \in BOOLEAN /\ opt.shttp \in BOOLEAN
<1>1. /\ opt.conns \in Conns /\ opt.buffers \in Pools /\ opt.csize \in Sizes /\ opt.ssize \in Sizes
      /\ opt.reuse \in BOOLEAN /\ opt.shttp \in BOOLEAN
  BY DEF Options
<1>2. \E k \in Pools : \A m \in Pools : m <= k
  BY LinkAssumption
<1>3. PICK n \in Pools : Buffers = 1 .. n /\ \A m \in Pools : m <= n
  BY <1>2 DEF Buffers
<1>4. n \in Nat /\ opt.buffers \in Nat /\ opt.buffers <= n
  BY <1>1, <1>3, LinkAssumption
<1>5. 1 .. opt.buffers \subseteq Buffers
  BY <1>3, <1>4
<1>6. opt.conns \in Nat \ {0}
  BY <1>1, LinkAssumption DEF Conns
<1>7. opt.csize \in Nat \ {0} /\ opt.ssize \in Nat \ {0}
  BY <1>1, LinkAssumption
<1> QED
  BY <1>1, <1>4, <1>5, <1>6, <1>7

\* There are finitely many buffers.
LEMMA BuffersFinite ==
  \E n \in Nat : Buffers = 1 .. n /\ IsFiniteSet(Buffers)
<1>1. PICK n \in Pools : Buffers = 1 .. n
  BY LinkAssumption DEF Buffers
<1>2. n \in Nat
  BY <1>1, LinkAssumption
<1>3. IsFiniteSet(1 .. n)
  BY <1>2, FS_Interval
<1> QED
  BY <1>1, <1>2, <1>3

\* A message takes at least one buffer.
LEMMA NDescsType == ASSUME NEW size \in Nat \ {0} PROVE NDescs(size) \in Nat \ {0}
<1>1. Available \in Nat \ {0}
  BY LinkAssumption
<1>2. \A a \in Nat, d \in Nat \ {0} : a \div d \in Nat
  OBVIOUS
<1>3. size - 1 \in Nat
  OBVIOUS
<1>4. (size - 1) \div Available \in Nat
  BY <1>1, <1>2, <1>3
<1> QED
  BY <1>4 DEF NDescs

LEMMA MessageFacts ==
  ASSUME opt \in Options
  PROVE  ndescs \in Nat \ {0} /\ NAnswer \in Nat \ {0}
         /\ NAnswer = NSend(ndescs) /\ \A n \in Nat \ {0} : NSend(n) \in Nat \ {0}
BY OptionFacts, NDescsType DEF ndescs, NAnswer, NSend

\* Descriptors of given buffers.
LEMMA SizedFacts ==
  ASSUME NEW bufs \in Seq(Buffers), NEW size \in Nat \ {0}
  PROVE  /\ Sized(bufs, size) \in Seq(Desc) /\ Len(Sized(bufs, size)) = Len(bufs)
         /\ Bufs(Sized(bufs, size)) = bufs
<1> DEFINE last == ((size - 1) % Available) + 1
<1>1. Available \in Nat \ {0} /\ last \in Nat
  <2>1. \A a \in Nat, d \in Nat \ {0} : a % d \in Nat
    OBVIOUS
  <2>2. size - 1 \in Nat /\ Available \in Nat \ {0}
    BY LinkAssumption
  <2>3. (size - 1) % Available \in Nat
    BY <2>1, <2>2
  <2> QED
    BY <2>2, <2>3
<1> HIDE DEF last
<1>2. Sized(bufs, size) = [k \in DOMAIN bufs |-> [buf |-> bufs[k], size |-> IF k < Len(bufs) THEN Available ELSE last]]
  BY DEF Sized, last
<1>3. DOMAIN bufs = 1 .. Len(bufs) /\ Len(bufs) \in Nat /\ \A k \in 1 .. Len(bufs) : bufs[k] \in Buffers
  BY LenProperties, ElementOfSeq
<1>4. Sized(bufs, size) \in [1 .. Len(bufs) -> Desc]
  BY <1>1, <1>2, <1>3 DEF Desc
<1>5. Sized(bufs, size) \in Seq(Desc) /\ Len(Sized(bufs, size)) = Len(bufs)
  BY <1>3, <1>4, SeqDef, LenProperties
<1>6. \A k \in 1 .. Len(bufs) : Sized(bufs, size)[k].buf = bufs[k]
  BY <1>2, <1>3
<1>7. DOMAIN Sized(bufs, size) = 1 .. Len(bufs)
  BY <1>2, <1>3
<1>8. Bufs(Sized(bufs, size)) = [k \in 1 .. Len(bufs) |-> bufs[k]]
  BY <1>6, <1>7 DEF Bufs
<1>9. bufs = [k \in 1 .. Len(bufs) |-> bufs[k]]
  BY <1>3, LenProperties
<1> QED
  BY <1>5, <1>8, <1>9

\* The buffers of descriptors.
LEMMA BufsFacts ==
  ASSUME NEW ds \in Seq(Desc)
  PROVE  /\ Bufs(ds) \in Seq(Buffers) /\ Len(Bufs(ds)) = Len(ds) /\ Len(ds) \in Nat
         /\ \A k \in 1 .. Len(ds) : Bufs(ds)[k] = ds[k].buf
         /\ Bufs(ds) = << >> <=> ds = << >>
<1>1. DOMAIN ds = 1 .. Len(ds) /\ Len(ds) \in Nat /\ \A k \in 1 .. Len(ds) : ds[k] \in Desc
  BY LenProperties, ElementOfSeq
<1>2. Bufs(ds) \in [1 .. Len(ds) -> Buffers] /\ \A k \in 1 .. Len(ds) : Bufs(ds)[k] = ds[k].buf
  BY <1>1 DEF Bufs, Desc
<1>3. Bufs(ds) \in Seq(Buffers) /\ Len(Bufs(ds)) = Len(ds)
  BY <1>1, <1>2, SeqDef, LenProperties
<1>4. Len(ds) = 0 <=> ds = << >>
  BY EmptySeq, LenProperties
<1>5. Len(Bufs(ds)) = 0 <=> Bufs(ds) = << >>
  BY <1>3, EmptySeq, LenProperties
<1> QED
  BY <1>1, <1>2, <1>3, <1>4, <1>5

\* The elements of two sequences one after the other, and of a part of one.
LEMMA Joining ==
  ASSUME NEW S, NEW s1 \in Seq(S), NEW s2 \in Seq(S), NEW r, r = s1 \o s2
  PROVE  /\ r \in Seq(S) /\ Len(r) = Len(s1) + Len(s2) /\ Len(s1) \in Nat /\ Len(s2) \in Nat
         /\ \A i \in 1 .. Len(s1) : r[i] = s1[i]
         /\ \A i \in 1 .. Len(s2) : r[Len(s1) + i] = s2[i]
<1>1. Len(s1) \in Nat /\ Len(s2) \in Nat
  BY LenProperties
<1>2. /\ r \in Seq(S) /\ Len(r) = Len(s1) + Len(s2)
      /\ \A i \in 1 .. Len(s1) + Len(s2) : r[i] = IF i <= Len(s1) THEN s1[i] ELSE s2[i - Len(s1)]
  BY ConcatProperties
<1>3. ASSUME NEW i \in 1 .. Len(s2) PROVE r[Len(s1) + i] = s2[i]
  <2>1. Len(s1) + i \in 1 .. Len(s1) + Len(s2) /\ ~(Len(s1) + i <= Len(s1)) /\ (Len(s1) + i) - Len(s1) = i
    BY <1>1
  <2> QED
    BY <1>2, <2>1
<1>4. ASSUME NEW i \in 1 .. Len(s1) PROVE r[i] = s1[i]
  <2>1. i \in 1 .. Len(s1) + Len(s2) /\ i <= Len(s1)
    BY <1>1
  <2> QED
    BY <1>2, <2>1
<1> QED
  BY <1>1, <1>2, <1>3, <1>4

LEMMA Cutting ==
  ASSUME NEW S, NEW q \in Seq(S), NEW i \in Nat \ {0}, NEW j \in Nat, j <= Len(q), i <= j + 1,
         NEW r, r = SubSeq(q, i, j)
  PROVE  /\ r \in Seq(S) /\ Len(r) = j - i + 1 /\ Len(q) \in Nat
         /\ \A k \in 1 .. j - i + 1 : i + k - 1 \in 1 .. Len(q) /\ r[k] = q[i + k - 1]
<1>1. Len(q) \in Nat
  BY LenProperties
<1>2. \A k \in i .. j : k \in 1 .. Len(q) /\ q[k] \in S
  BY <1>1, ElementOfSeq
<1>3. i \in Int /\ j \in Int
  OBVIOUS
<1>4. /\ r \in Seq(S) /\ Len(r) = (IF i <= j THEN j - i + 1 ELSE 0)
      /\ \A k \in 1 .. j - i + 1 : r[k] = q[i + k - 1]
  BY <1>2, <1>3, SubSeqProperties
<1>5. \A k \in 1 .. j - i + 1 : i + k - 1 \in 1 .. Len(q)
  BY <1>1
<1>6. Len(r) = j - i + 1
  BY <1>4
<1> QED
  BY <1>1, <1>4, <1>5, <1>6

LEMMA BufsConcat ==
  ASSUME NEW ds \in Seq(Desc), NEW es \in Seq(Desc)
  PROVE  Bufs(ds \o es) = Bufs(ds) \o Bufs(es)
<1>1. PICK a : a = Bufs(ds)
  OBVIOUS
<1>2. PICK b : b = Bufs(es)
  OBVIOUS
<1>3. PICK f : f = ds \o es
  OBVIOUS
<1>4. PICK g : g = a \o b
  OBVIOUS
<1>5. /\ a \in Seq(Buffers) /\ Len(a) = Len(ds) /\ Len(ds) \in Nat /\ \A k \in 1 .. Len(ds) : a[k] = ds[k].buf
  BY <1>1, BufsFacts
<1>6. /\ b \in Seq(Buffers) /\ Len(b) = Len(es) /\ Len(es) \in Nat /\ \A k \in 1 .. Len(es) : b[k] = es[k].buf
  BY <1>2, BufsFacts
<1>7. /\ f \in Seq(Desc) /\ Len(f) = Len(ds) + Len(es)
      /\ \A i \in 1 .. Len(ds) : f[i] = ds[i]
      /\ \A i \in 1 .. Len(es) : f[Len(ds) + i] = es[i]
  BY <1>3, Joining
<1>8. /\ g \in Seq(Buffers) /\ Len(g) = Len(a) + Len(b)
      /\ \A i \in 1 .. Len(a) : g[i] = a[i]
      /\ \A i \in 1 .. Len(b) : g[Len(a) + i] = b[i]
  <2>1. a \in Seq(Buffers) /\ b \in Seq(Buffers)
    BY <1>5, <1>6
  <2> QED
    BY <1>4, <2>1, Joining
<1>9. Bufs(f) \in Seq(Buffers) /\ Len(Bufs(f)) = Len(f) /\ \A k \in 1 .. Len(f) : Bufs(f)[k] = f[k].buf
  BY <1>7, BufsFacts
<1>10. \A i \in 1 .. Len(f) : Bufs(f)[i] = g[i]
  <2> SUFFICES ASSUME NEW i \in 1 .. Len(f) PROVE f[i].buf = g[i]
    BY <1>9
  <2>1. CASE i \in 1 .. Len(ds)
    BY <1>5, <1>7, <1>8, <2>1
  <2>2. CASE i \notin 1 .. Len(ds)
    <3>1. PICK j \in 1 .. Len(es) : i = Len(ds) + j
      <4>1. i - Len(ds) \in 1 .. Len(es) /\ i = Len(ds) + (i - Len(ds))
        BY <1>5, <1>6, <1>7, <2>2
      <4> QED
        BY <4>1
    <3> QED
      BY <1>5, <1>6, <1>7, <1>8, <3>1
  <2> QED
    BY <2>1, <2>2
<1>11. Len(Bufs(f)) = Len(g)
  BY <1>5, <1>6, <1>7, <1>8, <1>9
<1>12. Bufs(f) = g
  BY <1>8, <1>9, <1>10, <1>11, SeqEqual
<1> QED
  BY <1>1, <1>2, <1>3, <1>4, <1>12

LEMMA BufsSubSeq ==
  ASSUME NEW ds \in Seq(Desc), NEW i \in Nat \ {0}, NEW j \in Nat, j <= Len(ds), i <= j + 1
  PROVE  /\ Bufs(SubSeq(ds, i, j)) = SubSeq(Bufs(ds), i, j)
         /\ SubSeq(ds, i, j) \in Seq(Desc) /\ Len(SubSeq(ds, i, j)) = j - i + 1
<1>1. Len(ds) \in Nat /\ \A k \in i .. j : ds[k] \in Desc
  BY ElementOfSeq, LenProperties
<1>2. /\ SubSeq(ds, i, j) \in Seq(Desc) /\ Len(SubSeq(ds, i, j)) = j - i + 1
      /\ \A k \in 1 .. j - i + 1 : SubSeq(ds, i, j)[k] = ds[i + k - 1]
  <2>1. i \in Int /\ j \in Int
    OBVIOUS
  <2> QED
    BY <1>1, <2>1, SubSeqProperties
<1>3. /\ Bufs(ds) \in Seq(Buffers) /\ Len(Bufs(ds)) = Len(ds)
      /\ \A k \in 1 .. Len(ds) : Bufs(ds)[k] = ds[k].buf
  BY BufsFacts
<1>4. /\ SubSeq(Bufs(ds), i, j) \in Seq(Buffers) /\ Len(SubSeq(Bufs(ds), i, j)) = j - i + 1
      /\ \A k \in 1 .. j - i + 1 : SubSeq(Bufs(ds), i, j)[k] = Bufs(ds)[i + k - 1]
  <2>1. i \in Int /\ j \in Int
    OBVIOUS
  <2>2. \A k \in i .. j : Bufs(ds)[k] \in Buffers
    BY <1>1, <1>3, ElementOfSeq
  <2> QED
    BY <2>1, <2>2, SubSeqProperties
<1>5. /\ Bufs(SubSeq(ds, i, j)) \in Seq(Buffers) /\ Len(Bufs(SubSeq(ds, i, j))) = j - i + 1
      /\ \A k \in 1 .. j - i + 1 : Bufs(SubSeq(ds, i, j))[k] = SubSeq(ds, i, j)[k].buf
  BY <1>2, BufsFacts
<1>6. \A k \in 1 .. j - i + 1 : i + k - 1 \in 1 .. Len(ds)
  BY <1>1
<1>7. \A k \in 1 .. j - i + 1 : Bufs(SubSeq(ds, i, j))[k] = SubSeq(Bufs(ds), i, j)[k]
  BY <1>2, <1>3, <1>4, <1>5, <1>6
<1> QED
  BY <1>2, <1>4, <1>5, <1>7, SeqEqual

-----------------------------------------------------------------------------
(* Moving buffers keeps them apart *)

LEMMA ElemsOf ==
  ASSUME NEW q \in Seq(Buffers)
  PROVE  Elems(q) \subseteq Buffers /\ (q = << >> <=> Elems(q) = {})
<1>1. Len(q) \in Nat /\ \A i \in 1 .. Len(q) : q[i] \in Buffers
  BY LenProperties, ElementOfSeq
<1>2. q = << >> <=> Len(q) = 0
  BY EmptySeq, LenProperties
<1>3. Len(q) # 0 => 1 \in 1 .. Len(q)
  BY <1>1
<1>4. Len(q) = 0 => 1 .. Len(q) = {}
  BY <1>1
<1> QED
  BY <1>1, <1>2, <1>3, <1>4 DEF Elems

LEMMA NoElems == Elems(<< >>) = {} /\ Distinct(<< >>) /\ << >> \in Seq(Buffers) /\ Len(<< >>) = 0
<1>1. << >> \in Seq(Buffers) /\ Len(<< >>) = 0
  BY EmptySeq
<1>2. 1 .. 0 = {}
  OBVIOUS
<1> QED
  BY <1>1, <1>2 DEF Elems, Distinct

\* Two lines one after the other.
LEMMA ElemsJoin ==
  ASSUME NEW a \in Seq(Buffers), NEW b \in Seq(Buffers), NEW r, r = a \o b
  PROVE  /\ r \in Seq(Buffers) /\ Len(r) = Len(a) + Len(b) /\ Elems(r) = Elems(a) \cup Elems(b)
         /\ Distinct(a) /\ Distinct(b) /\ Elems(a) \cap Elems(b) = {} => Distinct(r)
<1>1. PICK k \in Nat : k = Len(a)
  BY LenProperties
<1>2. PICK l \in Nat : l = Len(b)
  BY LenProperties
<1>3. r \in Seq(Buffers) /\ Len(r) = k + l
  BY <1>1, <1>2, Joining
<1>4. (\A i \in 1 .. k : r[i] = a[i]) /\ \A i \in 1 .. l : r[k + i] = b[i]
  BY <1>1, <1>2, Joining
<1>5. \A i \in 1 .. k : i \in 1 .. k + l
  OBVIOUS
<1>6. \A i \in 1 .. l : k + i \in 1 .. k + l
  OBVIOUS
<1>7. \A i \in 1 .. k + l : i \notin 1 .. k => i - k \in 1 .. l /\ k + (i - k) = i
  OBVIOUS
<1>8. Elems(r) = {r[i] : i \in 1 .. k + l} /\ Elems(a) = {a[i] : i \in 1 .. k} /\ Elems(b) = {b[i] : i \in 1 .. l}
  BY <1>1, <1>2, <1>3 DEF Elems
<1>9. Elems(r) \subseteq Elems(a) \cup Elems(b)
  <2> SUFFICES ASSUME NEW i \in 1 .. k + l PROVE r[i] \in Elems(a) \cup Elems(b)
    BY <1>8
  <2>1. CASE i \in 1 .. k
    BY <1>4, <1>8, <2>1
  <2>2. CASE i \notin 1 .. k
    <3>1. i - k \in 1 .. l /\ r[i] = b[i - k]
      BY <1>4, <1>7, <2>2
    <3> QED
      BY <1>8, <3>1
  <2> QED
    BY <2>1, <2>2
<1>10. Elems(a) \cup Elems(b) \subseteq Elems(r)
  BY <1>4, <1>5, <1>6, <1>8
<1>11. ASSUME Distinct(a), Distinct(b), Elems(a) \cap Elems(b) = {} PROVE Distinct(r)
  <2> SUFFICES ASSUME NEW i \in 1 .. k + l, NEW j \in 1 .. k + l, r[i] = r[j] PROVE i = j
    BY <1>3 DEF Distinct
  <2>1. (\A u, v \in 1 .. k : a[u] = a[v] => u = v) /\ (\A u, v \in 1 .. l : b[u] = b[v] => u = v)
    BY <1>1, <1>2, <1>11 DEF Distinct
  <2>2. \A u \in 1 .. k, v \in 1 .. l : a[u] # b[v]
    BY <1>8, <1>11
  <2>3. CASE i \in 1 .. k /\ j \in 1 .. k
    BY <1>4, <2>1, <2>3
  <2>4. CASE i \notin 1 .. k /\ j \notin 1 .. k
    <3>1. i - k \in 1 .. l /\ j - k \in 1 .. l /\ b[i - k] = b[j - k]
      BY <1>4, <1>7, <2>4
    <3>2. i - k = j - k
      BY <2>1, <3>1
    <3> QED
      BY <3>2
  <2>5. CASE i \in 1 .. k /\ j \notin 1 .. k
    <3>1. j - k \in 1 .. l /\ a[i] = b[j - k]
      BY <1>4, <1>7, <2>5
    <3> QED
      BY <2>2, <2>5, <3>1
  <2>6. CASE i \notin 1 .. k /\ j \in 1 .. k
    <3>1. i - k \in 1 .. l /\ a[j] = b[i - k]
      BY <1>4, <1>7, <2>6
    <3> QED
      BY <2>2, <2>6, <3>1
  <2> QED
    BY <2>3, <2>4, <2>5, <2>6
<1> QED
  BY <1>1, <1>2, <1>3, <1>9, <1>10, <1>11

\* A part of a line, and the rest of it.
Parts(q, a, b) ==
  /\ a \in Seq(Buffers) /\ b \in Seq(Buffers)
  /\ Elems(a) \cup Elems(b) = Elems(q)
  /\ Distinct(q) => Distinct(a) /\ Distinct(b) /\ Elems(a) \cap Elems(b) = {}

LEMMA CutParts ==
  ASSUME NEW q \in Seq(Buffers), NEW m \in Nat, m <= Len(q),
         NEW a, a = SubSeq(q, 1, m), NEW b, b = SubSeq(q, m + 1, Len(q))
  PROVE  Parts(q, a, b) /\ Len(a) = m /\ Len(b) = Len(q) - m
<1>1. PICK k \in Nat : k = Len(q)
  BY LenProperties
<1>2. a \in Seq(Buffers) /\ Len(a) = m /\ \A i \in 1 .. m : i \in 1 .. k /\ a[i] = q[i]
  <2>1. /\ a \in Seq(Buffers) /\ Len(a) = m - 1 + 1
        /\ \A i \in 1 .. m - 1 + 1 : 1 + i - 1 \in 1 .. Len(q) /\ a[i] = q[1 + i - 1]
    BY Cutting
  <2>2. m - 1 + 1 = m /\ \A i \in 1 .. m : 1 + i - 1 = i
    OBVIOUS
  <2> QED
    BY <1>1, <2>1, <2>2
<1>3. b \in Seq(Buffers) /\ Len(b) = k - m /\ \A i \in 1 .. k - m : m + i \in 1 .. k /\ b[i] = q[m + i]
  <2>1. m + 1 \in Nat \ {0} /\ m + 1 <= k + 1 /\ k <= k
    BY <1>1
  <2>2. b = SubSeq(q, m + 1, k)
    BY <1>1
  <2>3. PICK g \in Nat \ {0} : g = m + 1
    BY <2>1
  <2>4. /\ b \in Seq(Buffers) /\ Len(b) = k - g + 1
        /\ \A i \in 1 .. k - g + 1 : g + i - 1 \in 1 .. k /\ b[i] = q[g + i - 1]
    BY <1>1, <2>1, <2>2, <2>3, Cutting
  <2>5. k - g + 1 = k - m /\ \A i \in Nat : g + i - 1 = m + i
    BY <2>3
  <2>6. \A i \in 1 .. k - m : i \in Nat
    OBVIOUS
  <2> QED
    BY <2>4, <2>5, <2>6
<1>4. \A i \in 1 .. k : i \notin 1 .. m => i - m \in 1 .. k - m /\ m + (i - m) = i
  OBVIOUS
<1>5. Elems(q) = {q[i] : i \in 1 .. k} /\ Elems(a) = {a[i] : i \in 1 .. m} /\ Elems(b) = {b[i] : i \in 1 .. k - m}
  BY <1>1, <1>2, <1>3 DEF Elems
<1>6. Elems(a) \cup Elems(b) \subseteq Elems(q)
  BY <1>2, <1>3, <1>5
<1>7. ASSUME NEW i \in 1 .. k PROVE q[i] \in Elems(a) \cup Elems(b)
  <2>1. CASE i \in 1 .. m
    BY <1>2, <1>5, <2>1
  <2>2. CASE i \notin 1 .. m
    <3>1. i - m \in 1 .. k - m /\ q[i] = b[i - m]
      BY <1>3, <1>4, <2>2
    <3> QED
      BY <1>5, <3>1
  <2> QED
    BY <2>1, <2>2
<1>8. ASSUME Distinct(q) PROVE Distinct(a) /\ Distinct(b) /\ Elems(a) \cap Elems(b) = {}
  <2>1. \A i, j \in 1 .. k : q[i] = q[j] => i = j
    BY <1>1, <1>8 DEF Distinct
  <2>2. ASSUME NEW i \in 1 .. m, NEW j \in 1 .. m, a[i] = a[j] PROVE i = j
    BY <1>2, <2>1, <2>2
  <2>3. ASSUME NEW i \in 1 .. k - m, NEW j \in 1 .. k - m, b[i] = b[j] PROVE i = j
    <3>1. m + i = m + j
      BY <1>3, <2>1, <2>3
    <3> QED
      BY <3>1
  <2>4. ASSUME NEW i \in 1 .. m, NEW j \in 1 .. k - m PROVE a[i] # b[j]
    <3>1. i # m + j
      OBVIOUS
    <3> QED
      BY <1>2, <1>3, <2>1, <3>1
  <2>5. Elems(a) \cap Elems(b) = {}
    BY <1>5, <2>4
  <2>6. 1 .. Len(a) = 1 .. m /\ 1 .. Len(b) = 1 .. k - m
    BY <1>2, <1>3
  <2>7. Distinct(a)
    BY <2>2, <2>6 DEF Distinct
  <2>8. Distinct(b)
    BY <2>3, <2>6 DEF Distinct
  <2> QED
    BY <2>5, <2>7, <2>8
<1> QED
  BY <1>1, <1>2, <1>3, <1>5, <1>6, <1>7, <1>8 DEF Parts

\* Two lines and the pool exchange buffers, or lose some, and other lines may be
\* lost: what was apart stays apart.
LEMMA Reshuffled ==
  ASSUME NEW n, NEW L, NEW p, Apart(L, p, n), NEW x \in Spots, NEW y \in Spots,
         NEW M, NEW q, \A b \in Buffers : q[b] \in {0, 1},
         M[x] \in Seq(Buffers), Distinct(M[x]), M[y] \in Seq(Buffers), Distinct(M[y]),
         \A z \in Spots : z # x /\ z # y => M[z] = L[z] \/ M[z] = << >>,
         x # y => Elems(M[x]) \cap Elems(M[y]) = {},
         Elems(M[x]) \cap Free(q) = {}, Elems(M[y]) \cap Free(q) = {},
         Elems(M[x]) \cup Elems(M[y]) \cup Free(q) \subseteq Elems(L[x]) \cup Elems(L[y]) \cup Free(p)
  PROVE  Apart(M, q, n)
<1>1. /\ \A z \in Spots : L[z] \in Seq(Buffers) /\ Distinct(L[z])
      /\ \A z \in Spots : Elems(L[z]) \subseteq 1 .. n
      /\ Free(p) \subseteq 1 .. n
      /\ \A z, w \in Spots : z # w => Elems(L[z]) \cap Elems(L[w]) = {}
      /\ \A z \in Spots : Elems(L[z]) \cap Free(p) = {}
  BY DEF Apart
<1>2. \A z \in Spots : M[z] \in Seq(Buffers) /\ Distinct(M[z])
  BY <1>1, NoElems
<1>3. \A z \in Spots : z # x /\ z # y => Elems(M[z]) \subseteq Elems(L[z])
  BY NoElems
<1>4. (\A z \in Spots : Elems(M[z]) \subseteq 1 .. n) /\ Free(q) \subseteq 1 .. n
  BY <1>1, <1>3
<1>5. \A z \in Spots : z # x /\ z # y =>
        Elems(M[z]) \cap (Elems(M[x]) \cup Elems(M[y]) \cup Free(q)) = {}
  BY <1>1, <1>3
<1>6. ASSUME NEW z \in Spots, NEW w \in Spots, z # w PROVE Elems(M[z]) \cap Elems(M[w]) = {}
  <2>1. CASE z # x /\ z # y /\ w # x /\ w # y
    <3>1. Elems(M[z]) \subseteq Elems(L[z]) /\ Elems(M[w]) \subseteq Elems(L[w]) /\ Elems(L[z]) \cap Elems(L[w]) = {}
      BY <1>1, <1>3, <1>6, <2>1
    <3> QED
      BY <3>1
  <2>2. CASE z # x /\ z # y /\ w \in {x, y}
    BY <1>5, <2>2
  <2>3. CASE z \in {x, y} /\ w # x /\ w # y
    BY <1>5, <2>3
  <2>4. CASE z \in {x, y} /\ w \in {x, y}
    BY <1>6, <2>4
  <2> QED
    BY <2>1, <2>2, <2>3, <2>4
<1>7. \A z \in Spots : Elems(M[z]) \cap Free(q) = {}
  BY <1>5
<1> QED
  BY <1>2, <1>4, <1>6, <1>7 DEF Apart

\* unimsg_buffer_put of buffers that are not in the pool.
LEMMA WithFree ==
  ASSUME NEW q \in Seq(Buffers), Distinct(q), \A b \in Buffers : pool[b] \in {0, 1},
         Elems(q) \cap Free(pool) = {}
  PROVE  (\A b \in Buffers : With(q)[b] \in {0, 1}) /\ Free(With(q)) = Free(pool) \cup Elems(q)
<1>1. DOMAIN q = 1 .. Len(q) /\ \A i \in 1 .. Len(q) : q[i] \in Buffers
  BY LenProperties, ElementOfSeq
<1>2. ASSUME NEW b \in Buffers
      PROVE  With(q)[b] = IF b \in Elems(q) THEN 1 ELSE pool[b]
  <2>1. With(q)[b] = pool[b] + Cardinality({k \in 1 .. Len(q) : q[k] = b})
    BY <1>1 DEF With
  <2>2. CASE b \in Elems(q)
    <3>1. PICK i \in 1 .. Len(q) : q[i] = b
      BY <2>2 DEF Elems
    <3>2. {k \in 1 .. Len(q) : q[k] = b} = {i}
      BY <3>1 DEF Distinct
    <3>3. Cardinality({k \in 1 .. Len(q) : q[k] = b}) = 1
      BY <3>2, FS_Singleton
    <3>4. pool[b] = 0
      BY <2>2 DEF Free
    <3> QED
      BY <2>1, <2>2, <3>3, <3>4
  <2>3. CASE b \notin Elems(q)
    <3>1. {k \in 1 .. Len(q) : q[k] = b} = {}
      BY <2>3 DEF Elems
    <3>2. Cardinality({k \in 1 .. Len(q) : q[k] = b}) = 0
      BY <3>1, FS_EmptySet
    <3> QED
      BY <2>1, <2>3, <3>2
  <2> QED
    BY <2>2, <2>3
<1>3. Elems(q) \subseteq Buffers
  BY <1>1 DEF Elems
<1>4. \A b \in Buffers : With(q)[b] \in {0, 1} /\ (With(q)[b] > 0 <=> b \in Elems(q) \/ pool[b] > 0)
  BY <1>2
<1> QED
  BY <1>3, <1>4 DEF Free

\* A set of numbers has a least one.
LEMMA LeastNat == ASSUME NEW T \in SUBSET Nat, T # {} PROVE \E t \in T : \A u \in T : t <= u
<1>1. PICK t \in T : \A u \in T : ~(<<u, t>> \in OpToRel(<, Nat))
  BY NatLessThanWellFounded, WFMin
<1>2. \A u \in T : ~(u < t)
  BY <1>1 DEF OpToRel
<1> QED
  BY <1>2

\* Every buffer of the pool has a rank, and every rank below their number a buffer.
LEMMA Ranked ==
  ASSUME NEW F \in SUBSET Nat, IsFiniteSet(F), NEW k \in Nat, k < Cardinality(F)
  PROVE  \E b \in F : Cardinality({a \in F : a < b}) = k
<1>1. Cardinality(F) \in Nat
  BY FS_CardinalityType
<1> DEFINE T == {j \in Nat : j < Cardinality(F) /\ ~\E b \in F : Cardinality({a \in F : a < b}) = j}
<1>2. SUFFICES ASSUME T # {} PROVE FALSE
  OBVIOUS
<1>3. PICK j \in T : \A u \in T : j <= u
  <2>1. T \in SUBSET Nat
    OBVIOUS
  <2> QED
    BY <1>2, <2>1, LeastNat
<1>4. j \in Nat /\ j < Cardinality(F) /\ ~\E b \in F : Cardinality({a \in F : a < b}) = j
  OBVIOUS
<1> SUFFICES \E b \in F : Cardinality({a \in F : a < b}) = j
  BY <1>4
<1>5. CASE j = 0
  <2>1. F # {}
    BY <1>4, <1>5, FS_EmptySet
  <2>2. PICK b \in F : \A u \in F : b <= u
    BY <2>1, LeastNat
  <2>3. {a \in F : a < b} = {}
    <3>1. \A a \in F : a \in Nat /\ b \in Nat /\ b <= a
      BY <2>2
    <3>2. \A a \in F : ~(a < b)
      BY <3>1
    <3> QED
      BY <3>2
  <2> QED
    BY <1>5, <2>3, FS_EmptySet
<1>6. CASE j # 0
  <2>1. j - 1 \in Nat /\ j - 1 < Cardinality(F) /\ ~(j <= j - 1)
    BY <1>1, <1>4, <1>6
  <2>2. j - 1 \notin T
    BY <1>3, <2>1
  <2>3. PICK d \in F : Cardinality({a \in F : a < d}) = j - 1
    BY <2>1, <2>2
  <2> DEFINE A == {a \in F : a < d}
             U == {a \in F : a > d}
  <2>4. IsFiniteSet(A) /\ d \notin A
    <3>1. A \in SUBSET F /\ d \notin A
      OBVIOUS
    <3> QED
      BY <3>1, FS_Subset
  <2>5. Cardinality(A \cup {d}) = j
    <3>1. Cardinality(A \cup {d}) = Cardinality(A) + 1
      BY <2>4, FS_AddElement
    <3> QED
      BY <2>3, <3>1, <1>4
  <2>6. A \cup {d} # F
    <3>1. PICK V : V = A \cup {d}
      OBVIOUS
    <3>2. Cardinality(V) # Cardinality(F)
      BY <1>1, <1>4, <2>5, <3>1
    <3> QED
      BY <3>1, <3>2
  <2>7. U # {}
    <3>1. PICK a \in F : a \notin A \cup {d}
      BY <2>6
    <3>2. a \in Nat /\ d \in Nat /\ ~(a < d) /\ a # d
      BY <3>1
    <3>3. a > d
      BY <3>2
    <3> QED
      BY <3>3
  <2>8. PICK b \in U : \A u \in U : b <= u
    <3>1. U \in SUBSET Nat
      OBVIOUS
    <3> QED
      BY <2>7, <3>1, LeastNat
  <2>9. \A a \in F : a < b <=> a \in A \/ a = d
    <3>1. b \in Nat /\ d \in Nat /\ b > d
      BY <2>8
    <3>2. \A a \in F : a > d => ~(a < b)
      BY <2>8, <3>1
    <3>3. \A a \in F : a \in Nat
      OBVIOUS
    <3>4. \A a \in F : a > d \/ a = d \/ a < d
      BY <3>1, <3>3
    <3>5. \A a \in F : a < d => a < b
      BY <3>1, <3>3
    <3> QED
      BY <3>1, <3>2, <3>4, <3>5
  <2>10. {a \in F : a < b} = A \cup {d}
    BY <2>9
  <2>11. b \in F
    BY <2>8
  <2> QED
    BY <2>5, <2>10, <2>11
<1> QED
  BY <1>5, <1>6

\* unimsg_buffer_get of m buffers gives as many different ones of the pool.
LEMMA GotFree ==
  ASSUME NEW m \in Nat, CanGet(m), \A b \in Buffers : pool[b] \in {0, 1}, NEW g, g = Got(m)
  PROVE  /\ g \in Seq(Buffers) /\ Len(g) = m /\ Distinct(g) /\ Elems(g) \subseteq Free(pool)
         /\ \A b \in Buffers : Without(g)[b] \in {0, 1}
         /\ Free(Without(g)) = Free(pool) \ Elems(g)
<1>1. PICK F : F = Free(pool)
  OBVIOUS
<1>2. Free(pool) = {b \in Buffers : pool[b] > 0}
  BY DEF Free
<1>3. m <= Cardinality(F)
  BY <1>1, <1>2 DEF CanGet
<1>4. F \in SUBSET Nat /\ F \subseteq Buffers /\ IsFiniteSet(F)
  <2>1. PICK n \in Nat : Buffers = 1 .. n /\ IsFiniteSet(Buffers)
    BY BuffersFinite
  <2>2. F \in SUBSET Buffers
    BY <1>1, <1>2
  <2>3. IsFiniteSet(F)
    BY <2>1, <2>2, FS_Subset
  <2>4. F \in SUBSET Nat
    BY <2>1, <2>2
  <2> QED
    BY <2>2, <2>3, <2>4
<1>5. g = [k \in 1 .. m |-> CHOOSE b \in F : Cardinality({a \in F : a < b}) = k - 1]
  BY <1>1, <1>2 DEF Got
<1>6. \A k \in 1 .. m : \E b \in F : Cardinality({a \in F : a < b}) = k - 1
  <2> SUFFICES ASSUME NEW k \in 1 .. m PROVE \E b \in F : Cardinality({a \in F : a < b}) = k - 1
    OBVIOUS
  <2>1. Cardinality(F) \in Nat
    BY <1>4, FS_CardinalityType
  <2>2. k - 1 \in Nat /\ k - 1 < Cardinality(F)
    BY <1>3, <2>1
  <2> QED
    BY <1>4, <2>2, Ranked
<1>7. \A k \in 1 .. m : g[k] \in F /\ Cardinality({a \in F : a < g[k]}) = k - 1
  BY <1>5, <1>6
<1>8. g \in [1 .. m -> Buffers]
  BY <1>4, <1>5, <1>7
<1>9. g \in Seq(Buffers) /\ Len(g) = m /\ DOMAIN g = 1 .. m
  BY <1>8, SeqDef, LenProperties
<1>10. ASSUME NEW i \in 1 .. m, NEW j \in 1 .. m, g[i] = g[j] PROVE i = j
  <2>1. i - 1 = j - 1
    BY <1>7, <1>10
  <2> QED
    BY <2>1
<1>11. Distinct(g)
  BY <1>9, <1>10 DEF Distinct
<1>12. Elems(g) \subseteq F
  BY <1>7, <1>9 DEF Elems
<1>13. \A b \in Buffers : Without(g)[b] = IF b \in Elems(g) THEN pool[b] - 1 ELSE pool[b]
  BY <1>9 DEF Without, Elems
<1>14. \A b \in Elems(g) : b \in Buffers /\ pool[b] = 1
  BY <1>1, <1>2, <1>12
<1>15. \A b \in Buffers : Without(g)[b] \in {0, 1} /\ (Without(g)[b] > 0 <=> b \in Free(pool) /\ b \notin Elems(g))
  BY <1>2, <1>13, <1>14
<1>16. Free(Without(g)) = Free(pool) \ Elems(g)
  BY <1>2, <1>15 DEF Free
<1> QED
  BY <1>1, <1>9, <1>11, <1>12, <1>15, <1>16

-----------------------------------------------------------------------------
(* The lines in a step *)

LEMMA SpotsAre ==
  /\ \A k \in Conns : /\ <<"client", k>> \in Spots /\ <<"server", k>> \in Spots
                      /\ <<"own", k>> \in Spots /\ <<"part", k>> \in Spots
  /\ \A z \in Spots : \E k \in Conns : z \in {<<"client", k>>, <<"server", k>>, <<"own", k>>, <<"part", k>>}
BY DEF Spots

LinesAre ==
  \A k \in Conns :
    /\ Lines[<<"client", k>>] = Bufs(wire["client"][k])
    /\ Lines[<<"server", k>>] = Bufs(wire["server"][k])
    /\ Lines[<<"own", k>>] = SubSeq(descs[k], 1, OwnLen(k))
    /\ Lines[<<"part", k>>] = IF k = 1 THEN Bufs(partial) ELSE << >>
    /\ OwnLen(k) = 0 => Lines[<<"own", k>>] = << >>

LEMMA LinesAt == LinesAre
<1> SUFFICES ASSUME NEW k \in Conns
             PROVE  /\ Lines[<<"client", k>>] = Bufs(wire["client"][k])
                    /\ Lines[<<"server", k>>] = Bufs(wire["server"][k])
                    /\ Lines[<<"own", k>>] = SubSeq(descs[k], 1, OwnLen(k))
                    /\ Lines[<<"part", k>>] = IF k = 1 THEN Bufs(partial) ELSE << >>
                    /\ OwnLen(k) = 0 => Lines[<<"own", k>>] = << >>
  BY DEF LinesAre
<1>1. /\ <<"client", k>> \in Spots /\ <<"server", k>> \in Spots
      /\ <<"own", k>> \in Spots /\ <<"part", k>> \in Spots
  BY SpotsAre
<1>2. Lines[<<"client", k>>] = Bufs(wire["client"][k]) /\ Lines[<<"server", k>>] = Bufs(wire["server"][k])
  BY <1>1 DEF Lines, Ends
<1>3. Lines[<<"own", k>>] = SubSeq(descs[k], 1, OwnLen(k))
  BY <1>1 DEF Lines, Ends
<1>4. Lines[<<"part", k>>] = IF k = 1 THEN Bufs(partial) ELSE << >>
  BY <1>1 DEF Lines, Ends
<1>5. ASSUME OwnLen(k) = 0 PROVE Lines[<<"own", k>>] = << >>
  <2>1. PICK l : l = OwnLen(k) /\ l = 0
    BY <1>5
  <2>2. Lines[<<"own", k>>] = SubSeq(descs[k], 1, 0)
    BY <1>3, <2>1
  <2>3. 1 \in Int /\ 0 \in Int /\ 0 < 1
    OBVIOUS
  <2>4. SubSeq(descs[k], 1, 0) = << >>
    BY <2>3, SubSeqEmpty
  <2> QED
    BY <2>2, <2>4
<1> QED
  BY <1>2, <1>3, <1>4, <1>5

LEMMA LinesAtNext == LinesAre'
BY LinesAt, PTL

\* A step that changes no lines but two, and one that loses lines too.
Kept(x, y) ==
  /\ opt' = opt
  /\ \A k \in Conns :
       /\ <<"client", k>> \notin {x, y} => wire'["client"][k] = wire["client"][k]
       /\ <<"server", k>> \notin {x, y} => wire'["server"][k] = wire["server"][k]
       /\ <<"own", k>> \notin {x, y} =>
            OwnLen(k)' = OwnLen(k) /\ (OwnLen(k) = 0 \/ descs'[k] = descs[k])
  /\ <<"part", 1>> \notin {x, y} => partial' = partial

KeptOrLost(x, y) ==
  /\ opt' = opt
  /\ \A k \in Conns :
       /\ <<"client", k>> \notin {x, y} => wire'["client"][k] = wire["client"][k]
       /\ <<"server", k>> \notin {x, y} => wire'["server"][k] = wire["server"][k]
       /\ <<"own", k>> \notin {x, y} =>
            OwnLen(k)' = 0 \/ (OwnLen(k)' = OwnLen(k) /\ descs'[k] = descs[k])
  /\ <<"part", 1>> \notin {x, y} => partial' = partial

LEMMA OneIsConn == 1 \in Conns
BY LinkAssumption DEF Conns

LEMMA KeptLines ==
  ASSUME NEW x, NEW y, Kept(x, y)
  PROVE  \A z \in Spots : z # x /\ z # y => Lines'[z] = Lines[z]
<1> SUFFICES ASSUME NEW z \in Spots, z # x, z # y PROVE Lines'[z] = Lines[z]
  OBVIOUS
<1>1. PICK k \in Conns : z \in {<<"client", k>>, <<"server", k>>, <<"own", k>>, <<"part", k>>}
  BY SpotsAre
<1>2. /\ Lines'[<<"client", k>>] = Bufs(wire'["client"][k])
      /\ Lines'[<<"server", k>>] = Bufs(wire'["server"][k])
      /\ Lines'[<<"own", k>>] = SubSeq(descs'[k], 1, OwnLen(k)')
      /\ Lines'[<<"part", k>>] = IF k = 1 THEN Bufs(partial') ELSE << >>
      /\ OwnLen(k)' = 0 => Lines'[<<"own", k>>] = << >>
  BY LinesAtNext DEF LinesAre
<1>3. CASE z = <<"client", k>>
  BY <1>2, <1>3, LinesAt DEF Kept, LinesAre
<1>4. CASE z = <<"server", k>>
  BY <1>2, <1>4, LinesAt DEF Kept, LinesAre
<1>5. CASE z = <<"own", k>>
  <2>1. OwnLen(k)' = OwnLen(k) /\ (OwnLen(k) = 0 \/ descs'[k] = descs[k])
    BY <1>5 DEF Kept
  <2>2. CASE OwnLen(k) = 0
    BY <1>2, <1>5, <2>1, <2>2, LinesAt DEF LinesAre
  <2>3. CASE descs'[k] = descs[k]
    BY <1>2, <1>5, <2>1, <2>3, LinesAt DEF LinesAre
  <2> QED
    BY <2>1, <2>2, <2>3
<1>6. CASE z = <<"part", k>>
  BY <1>2, <1>6, LinesAt DEF Kept, LinesAre
<1> QED
  BY <1>1, <1>3, <1>4, <1>5, <1>6

LEMMA KeptOrLostLines ==
  ASSUME NEW x, NEW y, KeptOrLost(x, y)
  PROVE  \A z \in Spots : z # x /\ z # y => Lines'[z] = Lines[z] \/ Lines'[z] = << >>
<1> SUFFICES ASSUME NEW z \in Spots, z # x, z # y PROVE Lines'[z] = Lines[z] \/ Lines'[z] = << >>
  OBVIOUS
<1>1. PICK k \in Conns : z \in {<<"client", k>>, <<"server", k>>, <<"own", k>>, <<"part", k>>}
  BY SpotsAre
<1>2. /\ Lines'[<<"client", k>>] = Bufs(wire'["client"][k])
      /\ Lines'[<<"server", k>>] = Bufs(wire'["server"][k])
      /\ Lines'[<<"own", k>>] = SubSeq(descs'[k], 1, OwnLen(k)')
      /\ Lines'[<<"part", k>>] = IF k = 1 THEN Bufs(partial') ELSE << >>
      /\ OwnLen(k)' = 0 => Lines'[<<"own", k>>] = << >>
  BY LinesAtNext DEF LinesAre
<1>3. CASE z = <<"client", k>>
  BY <1>2, <1>3, LinesAt DEF KeptOrLost, LinesAre
<1>4. CASE z = <<"server", k>>
  BY <1>2, <1>4, LinesAt DEF KeptOrLost, LinesAre
<1>5. CASE z = <<"own", k>>
  <2>1. OwnLen(k)' = 0 \/ (OwnLen(k)' = OwnLen(k) /\ descs'[k] = descs[k])
    BY <1>5 DEF KeptOrLost
  <2>2. CASE OwnLen(k)' = 0
    BY <1>2, <1>5, <2>2
  <2>3. CASE OwnLen(k)' = OwnLen(k) /\ descs'[k] = descs[k]
    BY <1>2, <1>5, <2>3, LinesAt DEF LinesAre
  <2> QED
    BY <2>1, <2>2, <2>3
<1>6. CASE z = <<"part", k>>
  BY <1>2, <1>6, LinesAt DEF KeptOrLost, LinesAre
<1> QED
  BY <1>1, <1>3, <1>4, <1>5, <1>6

\* The two lines and the pool exchange buffers.
LEMMA Exchange ==
  ASSUME Apart(Lines, pool, opt.buffers), NEW x \in Spots, NEW y \in Spots, Kept(x, y),
         \A b \in Buffers : pool'[b] \in {0, 1},
         Lines'[x] \in Seq(Buffers), Distinct(Lines'[x]), Lines'[y] \in Seq(Buffers), Distinct(Lines'[y]),
         x # y => Elems(Lines'[x]) \cap Elems(Lines'[y]) = {},
         Elems(Lines'[x]) \cap Free(pool') = {}, Elems(Lines'[y]) \cap Free(pool') = {},
         Elems(Lines'[x]) \cup Elems(Lines'[y]) \cup Free(pool')
           = Elems(Lines[x]) \cup Elems(Lines[y]) \cup Free(pool)
  PROVE  /\ Apart(Lines, pool, opt.buffers)'
         /\ Stray(Lines, pool, opt.buffers)' = Stray(Lines, pool, opt.buffers)
<1>1. PICK L : L = Lines
  OBVIOUS
<1>2. PICK M : M = Lines'
  OBVIOUS
<1>3. PICK p : p = pool
  OBVIOUS
<1>4. PICK q : q = pool'
  OBVIOUS
<1>5. PICK n : n = opt.buffers /\ n = opt'.buffers
  BY DEF Kept
<1>6. \A z \in Spots : z # x /\ z # y => M[z] = L[z]
  BY <1>1, <1>2, KeptLines
<1>7. Elems(M[x]) \cup Elems(M[y]) \cup Free(q) = Elems(L[x]) \cup Elems(L[y]) \cup Free(p)
  BY <1>1, <1>2, <1>3, <1>4
<1>8. Apart(M, q, n)
  <2>1. Apart(L, p, n) /\ \A b \in Buffers : q[b] \in {0, 1}
    BY <1>1, <1>3, <1>4, <1>5
  <2>2. /\ M[x] \in Seq(Buffers) /\ Distinct(M[x]) /\ M[y] \in Seq(Buffers) /\ Distinct(M[y])
        /\ x # y => Elems(M[x]) \cap Elems(M[y]) = {}
        /\ Elems(M[x]) \cap Free(q) = {} /\ Elems(M[y]) \cap Free(q) = {}
    BY <1>2, <1>4
  <2>3. \A z \in Spots : z # x /\ z # y => M[z] = L[z] \/ M[z] = << >>
    BY <1>6
  <2>4. Elems(M[x]) \cup Elems(M[y]) \cup Free(q) \subseteq Elems(L[x]) \cup Elems(L[y]) \cup Free(p)
    BY <1>7
  <2> QED
    BY <2>1, <2>2, <2>3, <2>4, Reshuffled
<1>9. ASSUME NEW b
      PROVE  (b \notin Free(q) /\ \A z \in Spots : b \notin Elems(M[z]))
             <=> (b \notin Free(p) /\ \A z \in Spots : b \notin Elems(L[z]))
  BY <1>6, <1>7
<1>10. Stray(M, q, n) = Stray(L, p, n)
  BY <1>9 DEF Stray
<1> QED
  BY <1>1, <1>2, <1>3, <1>4, <1>5, <1>8, <1>10

\* Or some of them are lost.
LEMMA Shrink ==
  ASSUME Apart(Lines, pool, opt.buffers), NEW x \in Spots, NEW y \in Spots, KeptOrLost(x, y),
         \A b \in Buffers : pool'[b] \in {0, 1},
         Lines'[x] \in Seq(Buffers), Distinct(Lines'[x]), Lines'[y] \in Seq(Buffers), Distinct(Lines'[y]),
         x # y => Elems(Lines'[x]) \cap Elems(Lines'[y]) = {},
         Elems(Lines'[x]) \cap Free(pool') = {}, Elems(Lines'[y]) \cap Free(pool') = {},
         Elems(Lines'[x]) \cup Elems(Lines'[y]) \cup Free(pool')
           \subseteq Elems(Lines[x]) \cup Elems(Lines[y]) \cup Free(pool)
  PROVE  Apart(Lines, pool, opt.buffers)'
<1>1. PICK L : L = Lines
  OBVIOUS
<1>2. PICK M : M = Lines'
  OBVIOUS
<1>3. PICK p : p = pool
  OBVIOUS
<1>4. PICK q : q = pool'
  OBVIOUS
<1>5. PICK n : n = opt.buffers /\ n = opt'.buffers
  BY DEF KeptOrLost
<1>6. \A z \in Spots : z # x /\ z # y => M[z] = L[z] \/ M[z] = << >>
  BY <1>1, <1>2, KeptOrLostLines
<1>7. Elems(M[x]) \cup Elems(M[y]) \cup Free(q) \subseteq Elems(L[x]) \cup Elems(L[y]) \cup Free(p)
  BY <1>1, <1>2, <1>3, <1>4
<1>8. Apart(M, q, n)
  <2>1. Apart(L, p, n) /\ \A b \in Buffers : q[b] \in {0, 1}
    BY <1>1, <1>3, <1>4, <1>5
  <2>2. /\ M[x] \in Seq(Buffers) /\ Distinct(M[x]) /\ M[y] \in Seq(Buffers) /\ Distinct(M[y])
        /\ x # y => Elems(M[x]) \cap Elems(M[y]) = {}
        /\ Elems(M[x]) \cap Free(q) = {} /\ Elems(M[y]) \cap Free(q) = {}
    BY <1>2, <1>4
  <2> QED
    BY <1>6, <1>7, <2>1, <2>2, Reshuffled
<1> QED
  BY <1>2, <1>4, <1>5, <1>8

\* A connection's descriptors are replaced.
Put(v, o, k, ds) == [v EXCEPT ![o][k] = ds]
Replaced(v, w, o, k, ds) ==
  /\ w \in Wires
  /\ w[o][k] = ds
  /\ \A f \in Ends, j \in Conns : f # o \/ j # k => w[f][j] = v[f][j]

LEMMA PutAt ==
  ASSUME NEW v \in Wires, NEW o \in Ends, NEW k \in Conns, NEW ds \in Seq(Desc), NEW w, w = Put(v, o, k, ds)
  PROVE  Replaced(v, w, o, k, ds)
<1>1. PICK g : g = [v[o] EXCEPT ![k] = ds]
  OBVIOUS
<1>2. v[o] \in [Conns -> Seq(Desc)]
  BY DEF Wires
<1>3. g \in [Conns -> Seq(Desc)] /\ g[k] = ds /\ \A j \in Conns : j # k => g[j] = v[o][j]
  BY <1>1, <1>2
<1>4. w = [v EXCEPT ![o] = g]
  BY <1>1 DEF Put
<1>5. w \in Wires /\ w[o] = g /\ \A f \in Ends : f # o => w[f] = v[f]
  BY <1>3, <1>4 DEF Wires
<1> QED
  BY <1>3, <1>5 DEF Replaced

LEMMA WireAt == ASSUME NEW v \in Wires, NEW e \in Ends, NEW k \in Conns PROVE v[e][k] \in Seq(Desc)
BY DEF Wires

LEMMA PeersAre == Peer("client") = "server" /\ Peer("server") = "client" /\ "client" \in Ends /\ "server" \in Ends
BY DEF Peer, Ends

\* unimsg_send adds its descriptors to the peer's.
Extended(v, w, o, k, ds) ==
  /\ w \in Wires
  /\ w[o][k] = v[o][k] \o ds
  /\ Bufs(w[o][k]) = Bufs(v[o][k]) \o Bufs(ds)
  /\ Len(w[o][k]) = Len(v[o][k]) + Len(ds)
  /\ \A f \in Ends, j \in Conns : f # o \/ j # k => w[f][j] = v[f][j]

LEMMA ClientSent ==
  ASSUME NEW v \in Wires, NEW k \in Conns, NEW ds \in Seq(Desc), NEW w, w = Sent(v, "client", k, ds)
  PROVE  Extended(v, w, "server", k, ds)
<1>1. PICK o \in Ends : o = "server"
  BY PeersAre
<1>2. PICK d \in Seq(Desc) : d = v[o][k]
  BY WireAt
<1>3. PICK f : f = d \o ds
  OBVIOUS
<1>4. f \in Seq(Desc) /\ Bufs(f) = Bufs(d) \o Bufs(ds) /\ Len(f) = Len(d) + Len(ds)
  BY <1>3, BufsConcat, ConcatProperties
<1>5. w = Put(v, o, k, f)
  BY <1>1, <1>2, <1>3, PeersAre DEF Sent, Put
<1>6. Replaced(v, w, o, k, f)
  BY <1>4, <1>5, PutAt
<1> QED
  BY <1>1, <1>2, <1>3, <1>4, <1>6 DEF Extended, Replaced

LEMMA ServerSent ==
  ASSUME NEW v \in Wires, NEW k \in Conns, NEW ds \in Seq(Desc), NEW w, w = Sent(v, "server", k, ds)
  PROVE  Extended(v, w, "client", k, ds)
<1>1. PICK o \in Ends : o = "client"
  BY PeersAre
<1>2. PICK d \in Seq(Desc) : d = v[o][k]
  BY WireAt
<1>3. PICK f : f = d \o ds
  OBVIOUS
<1>4. f \in Seq(Desc) /\ Bufs(f) = Bufs(d) \o Bufs(ds) /\ Len(f) = Len(d) + Len(ds)
  BY <1>3, BufsConcat, ConcatProperties
<1>5. w = Put(v, o, k, f)
  BY <1>1, <1>2, <1>3, PeersAre DEF Sent, Put
<1>6. Replaced(v, w, o, k, f)
  BY <1>4, <1>5, PutAt
<1> QED
  BY <1>1, <1>2, <1>3, <1>4, <1>6 DEF Extended, Replaced

\* What is on the lines and in the pool is apart.
LEMMA ApartFacts ==
  ASSUME Sound
  PROVE  /\ \A x \in Spots : Lines[x] \in Seq(Buffers) /\ Distinct(Lines[x])
         /\ \A b \in Buffers : pool[b] \in {0, 1}
         /\ \A x, y \in Spots : x # y => Elems(Lines[x]) \cap Elems(Lines[y]) = {}
         /\ \A x \in Spots : Elems(Lines[x]) \cap Free(pool) = {}
BY DEF Sound, Apart

LEMMA SameOptions ==
  ASSUME opt' = opt
  PROVE  ndescs' = ndescs /\ NAnswer' = NAnswer /\ (Stale' <=> Stale)
BY DEF ndescs, NAnswer, NSend, Stale

\* The client ends with an error, which loses the buffers it has.
LEMMA ClientGone ==
  ASSUME Sound, c' = [c EXCEPT !.at = "exit"] \/ c' = [c EXCEPT !.at = "refused"],
         UNCHANGED <<opt, s, partial, wire>>, descs' \in [Conns -> Seq(Buffers)],
         backlog' \in Seq(Conns), backlog # << >> => backlog' # << >>,
         \A b \in Buffers : pool'[b] \in {0, 1}, Free(pool') \subseteq Free(pool)
  PROVE  Sound' /\ ~Running'
<1>1. BenchTypes
  BY DEF Sound
<1>2. c \in ClientStates
  BY <1>1 DEF BenchTypes
<1>3. c'.at \in {"exit", "refused"} /\ c' \in ClientStates /\ ClientStates' = ClientStates
  BY <1>2 DEF ClientStates
<1>4. BenchTypes'
  BY <1>1, <1>3 DEF BenchTypes
<1>5. ~Running'
  BY <1>3 DEF Running
<1>6. \A k \in Conns : OwnLen(k)' = 0
  BY <1>3 DEF OwnLen
<1>7. PICK x \in Spots : x = <<"part", 1>>
  BY OneIsConn, SpotsAre
<1>8. KeptOrLost(x, x)
  BY <1>6 DEF KeptOrLost
<1>9. Lines'[x] = Lines[x]
  BY <1>7, OneIsConn, LinesAt, LinesAtNext DEF LinesAre
<1>10. Lines[x] \in Seq(Buffers) /\ Distinct(Lines[x]) /\ Elems(Lines[x]) \cap Free(pool) = {}
  BY ApartFacts
<1>11. /\ Lines'[x] \in Seq(Buffers) /\ Distinct(Lines'[x]) /\ Elems(Lines'[x]) \cap Free(pool') = {}
       /\ Elems(Lines'[x]) \cup Elems(Lines'[x]) \cup Free(pool')
            \subseteq Elems(Lines[x]) \cup Elems(Lines[x]) \cup Free(pool)
  BY <1>9, <1>10
<1>12. Apart(Lines, pool, opt.buffers)'
  <2>1. Apart(Lines, pool, opt.buffers)
    BY DEF Sound
  <2> QED
    BY <1>8, <1>11, <2>1, Shrink
<1> QED
  BY <1>4, <1>5, <1>12 DEF Sound

-----------------------------------------------------------------------------
(* The throughput client *)

\* Buffers of the client's own, or new ones, are sent as a request on connection k.
LEMMA SendLines ==
  ASSUME Sound, opt.prog = "throughput", NEW k \in Conns, NEW next, ClientSend(k, next),
         opt.reuse => OwnLen(k) = ndescs /\ Len(descs[k]) = ndescs,
         next \in ClientStates,
         c' = next => \A j \in Conns : OwnLen(j)' = IF j = k THEN 0 ELSE OwnLen(j)
  PROVE  /\ Sound'
         /\ ~Running' \/ /\ c' = next
                         /\ Stray(Lines, pool, opt.buffers)' = Stray(Lines, pool, opt.buffers)
                         /\ Bufs(wire'["server"][k]) = Bufs(wire["server"][k]) \o descs'[k]
                         /\ Len(wire'["server"][k]) = Len(wire["server"][k]) + ndescs
                         /\ wire'["client"][k] = wire["client"][k]
                         /\ Len(descs'[k]) = ndescs
                         /\ \A j \in Conns : j # k => /\ descs'[j] = descs[j]
                                                      /\ wire'["client"][j] = wire["client"][j]
                                                      /\ wire'["server"][j] = wire["server"][j]
                         /\ opt.reuse => descs'[k] = descs[k]
<1>1. /\ BenchTypes /\ Apart(Lines, pool, opt.buffers) /\ opt \in Options
      /\ descs \in [Conns -> Seq(Buffers)] /\ wire \in Wires
  BY DEF Sound, BenchTypes
<1>2. UNCHANGED <<opt, s, partial, backlog>>
  BY DEF ClientSend
<1>3. ndescs \in Nat \ {0} /\ opt.csize \in Nat \ {0} /\ opt.reuse \in BOOLEAN
  BY <1>1, MessageFacts, OptionFacts
<1>4. /\ \A x \in Spots : Lines[x] \in Seq(Buffers) /\ Distinct(Lines[x])
      /\ \A b \in Buffers : pool[b] \in {0, 1}
      /\ \A x, y \in Spots : x # y => Elems(Lines[x]) \cap Elems(Lines[y]) = {}
      /\ \A x \in Spots : Elems(Lines[x]) \cap Free(pool) = {}
  BY ApartFacts
<1>5. PICK bufs : bufs = IF opt.reuse THEN descs[k] ELSE Got(ndescs)
  OBVIOUS
<1>6. CASE ~(opt.reuse \/ CanGet(ndescs))
  <2>1. CExit /\ UNCHANGED <<descs, pool, wire>>
    BY <1>6 DEF ClientSend
  <2>2. c' = [c EXCEPT !.at = "exit"]
    BY <2>1 DEF CExit
  <2>3. /\ descs' \in [Conns -> Seq(Buffers)] /\ backlog' \in Seq(Conns) /\ (backlog # << >> => backlog' # << >>)
        /\ \A b \in Buffers : pool'[b] \in {0, 1}
        /\ Free(pool') \subseteq Free(pool)
    BY <1>1, <1>2, <1>4, <2>1 DEF BenchTypes
  <2> QED
    BY <1>2, <2>1, <2>2, <2>3, ClientGone
<1>7. CASE opt.reuse \/ CanGet(ndescs)
  <2>1. /\ descs' = [descs EXCEPT ![k] = bufs]
        /\ pool' = IF opt.reuse THEN pool ELSE Without(bufs)
        /\ \/ wire' = Sent(wire, "client", k, Sized(bufs, opt.csize)) /\ c' = next
           \/ CExit /\ UNCHANGED wire
    BY <1>5, <1>7 DEF ClientSend
  <2>2. /\ bufs \in Seq(Buffers) /\ Len(bufs) = ndescs /\ Distinct(bufs)
        /\ \A b \in Buffers : pool'[b] \in {0, 1}
        /\ IF opt.reuse THEN pool' = pool /\ bufs = Lines[<<"own", k>>]
           ELSE Elems(bufs) \subseteq Free(pool) /\ Free(pool') = Free(pool) \ Elems(bufs)
    <3>1. CASE opt.reuse
      <4>1. bufs = descs[k] /\ pool' = pool /\ bufs \in Seq(Buffers) /\ Len(bufs) = ndescs
        BY <1>1, <1>5, <2>1, <3>1
      <4>2. Lines[<<"own", k>>] = SubSeq(descs[k], 1, OwnLen(k))
        BY LinesAt DEF LinesAre
      <4>3. Lines[<<"own", k>>] = SubSeq(bufs, 1, Len(bufs))
        BY <3>1, <4>1, <4>2
      <4>4. Lines[<<"own", k>>] = bufs
        BY <4>1, <4>3, SubSeqFull
      <4> QED
        BY <1>4, <3>1, <4>1, <4>4, SpotsAre
    <3>2. CASE ~opt.reuse
      <4>1. bufs = Got(ndescs) /\ CanGet(ndescs) /\ pool' = Without(bufs) /\ ndescs \in Nat
        BY <1>3, <1>5, <1>7, <2>1, <3>2
      <4>2. \A b \in Buffers : pool[b] \in {0, 1}
        BY <1>4
      <4>3. /\ bufs \in Seq(Buffers) /\ Len(bufs) = ndescs /\ Distinct(bufs) /\ Elems(bufs) \subseteq Free(pool)
            /\ \A b \in Buffers : Without(bufs)[b] \in {0, 1}
            /\ Free(Without(bufs)) = Free(pool) \ Elems(bufs)
        BY <4>1, <4>2, GotFree
      <4> QED
        BY <3>2, <4>1, <4>3
    <3> QED
      BY <3>1, <3>2
  <2>3. /\ descs' \in [Conns -> Seq(Buffers)] /\ descs'[k] = bufs
        /\ \A j \in Conns : j # k => descs'[j] = descs[j]
    BY <1>1, <2>1, <2>2
  <2>4. CASE CExit /\ UNCHANGED wire
    <3>1. c' = [c EXCEPT !.at = "exit"]
      BY <2>4 DEF CExit
    <3>2. Free(pool') \subseteq Free(pool)
      BY <2>2
    <3>3. backlog' \in Seq(Conns) /\ (backlog # << >> => backlog' # << >>)
      BY <1>1, <1>2 DEF BenchTypes
    <3>4. (\A b \in Buffers : pool'[b] \in {0, 1}) /\ descs' \in [Conns -> Seq(Buffers)]
      BY <2>2, <2>3
    <3>5. UNCHANGED <<opt, s, partial, wire>>
      BY <1>2, <2>4
    <3> QED
      BY <3>1, <3>2, <3>3, <3>4, <3>5, ClientGone
  <2>5. CASE wire' = Sent(wire, "client", k, Sized(bufs, opt.csize)) /\ c' = next
    <3>1. PICK ds : ds = Sized(bufs, opt.csize)
      OBVIOUS
    <3>2. ds \in Seq(Desc) /\ Len(ds) = ndescs /\ Bufs(ds) = bufs
      BY <1>3, <2>2, <3>1, SizedFacts
    <3>3. /\ wire' \in Wires /\ wire'["server"][k] = wire["server"][k] \o ds
          /\ Bufs(wire'["server"][k]) = Bufs(wire["server"][k]) \o bufs
          /\ Len(wire'["server"][k]) = Len(wire["server"][k]) + ndescs
          /\ \A f \in Ends, j \in Conns : f # "server" \/ j # k => wire'[f][j] = wire[f][j]
      <4>1. wire' = Sent(wire, "client", k, ds)
        BY <2>5, <3>1
      <4>2. PICK w : w = wire'
        OBVIOUS
      <4>3. Extended(wire, w, "server", k, ds)
        BY <1>1, <3>2, <4>1, <4>2, ClientSent
      <4> QED
        BY <3>2, <4>2, <4>3 DEF Extended
    <3>6. PICK x \in Spots : x = <<"own", k>>
      BY SpotsAre
    <3>7. PICK y \in Spots : y = <<"server", k>>
      BY SpotsAre
    <3>8. OwnLen(k)' = 0 /\ (\A j \in Conns : j # k => OwnLen(j)' = OwnLen(j)) /\ (~opt.reuse => OwnLen(k) = 0)
      BY <2>5 DEF OwnLen
    <3>9. Kept(x, y)
      BY <1>2, <2>3, <3>3, <3>6, <3>7, <3>8, PeersAre DEF Kept
    <3>10. Lines'[x] = << >> /\ Lines'[y] = Bufs(wire'["server"][k]) /\ Lines[y] = Bufs(wire["server"][k])
           /\ (~opt.reuse => Lines[x] = << >>)
      BY <3>6, <3>7, <3>8, LinesAt, LinesAtNext DEF LinesAre
    <3>11. Lines'[y] = Lines[y] \o bufs
      BY <3>3, <3>10
    <3>12. Elems(Lines[y]) \cap Elems(bufs) = {}
      BY <1>4, <2>2, <3>6, <3>7
    <3>13. Lines'[y] \in Seq(Buffers) /\ Elems(Lines'[y]) = Elems(Lines[y]) \cup Elems(bufs) /\ Distinct(Lines'[y])
      BY <1>4, <2>2, <3>11, <3>12, ElemsJoin
    <3>14. Elems(Lines'[x]) = {} /\ Lines'[x] \in Seq(Buffers) /\ Distinct(Lines'[x])
      BY <3>10, NoElems
    <3>15. Elems(Lines'[y]) \cap Free(pool') = {}
      BY <1>4, <2>2, <3>6, <3>13
    <3>16. Elems(Lines'[x]) \cup Elems(Lines'[y]) \cup Free(pool') = Elems(Lines[x]) \cup Elems(Lines[y]) \cup Free(pool)
      <4>1. CASE opt.reuse
        BY <2>2, <3>6, <3>13, <3>14, <4>1
      <4>2. CASE ~opt.reuse
        BY <2>2, <3>10, <3>13, <3>14, <4>2, NoElems
      <4> QED
        BY <4>1, <4>2
    <3>17. \A b \in Buffers : pool'[b] \in {0, 1}
      BY <2>2
    <3>18. /\ Elems(Lines'[x]) \cap Free(pool') = {}
           /\ x # y => Elems(Lines'[x]) \cap Elems(Lines'[y]) = {}
      BY <3>14
    <3>19. /\ Apart(Lines, pool, opt.buffers)'
           /\ Stray(Lines, pool, opt.buffers)' = Stray(Lines, pool, opt.buffers)
      BY <1>1, <3>9, <3>13, <3>14, <3>15, <3>16, <3>17, <3>18, Exchange
    <3>20. BenchTypes'
      <4>1. ClientStates' = ClientStates
        BY <1>2 DEF ClientStates
      <4> QED
        BY <1>1, <1>2, <2>3, <2>5, <3>3, <4>1 DEF BenchTypes
    <3>21. Sound'
      BY <3>19, <3>20 DEF Sound
    <3> QED
      BY <2>2, <2>3, <2>5, <3>3, <3>19, <3>21, PeersAre, <1>5
  <2> QED
    BY <2>1, <2>4, <2>5
<1> QED
  BY <1>6, <1>7

\* ndescs descriptors are received on connection k, and kept or put back.
LEMMA RecvLines ==
  ASSUME Sound, opt.prog = "throughput", NEW k \in Conns, NEW id \in Conns, NEW put, NEW next, NEW close,
         ClientRecv(k, id, put, next, close), OwnLen(k) = 0, OwnLen(id) = 0, put = 0 => id = k,
         NEW got, got = Bufs(SubSeq(wire["client"][k], 1, ndescs)),
         put # 0 /\ Len(wire["client"][k]) >= ndescs => [descs EXCEPT ![id] = got][put] = got,
         next \in ClientStates,
         c' = next => \A j \in Conns : OwnLen(j)' = IF put = 0 /\ j = k THEN ndescs ELSE OwnLen(j)
  PROVE  /\ Sound'
         /\ ~Running' \/ /\ c' = next
                         /\ Stray(Lines, pool, opt.buffers)' = Stray(Lines, pool, opt.buffers)
                         /\ Len(wire["client"][k]) >= ndescs
                         /\ Len(wire'["client"][k]) = Len(wire["client"][k]) - ndescs
                         /\ wire'["client"][k] \in Seq(Desc)
                         /\ wire'["server"][k] = wire["server"][k]
                         /\ Len(got) = ndescs /\ descs'[id] = got
                         /\ \A j \in Conns : j # id => descs'[j] = descs[j]
                         /\ \A j \in Conns : j # k => /\ wire'["client"][j] = wire["client"][j]
                                                      /\ wire'["server"][j] = wire["server"][j]
<1>1. /\ BenchTypes /\ Apart(Lines, pool, opt.buffers) /\ opt \in Options
      /\ descs \in [Conns -> Seq(Buffers)] /\ wire \in Wires
  BY DEF Sound, BenchTypes
<1>2. UNCHANGED <<opt, s, partial, backlog>>
  BY DEF ClientRecv
<1>3. ndescs \in Nat \ {0}
  BY <1>1, MessageFacts
<1>4. /\ \A x \in Spots : Lines[x] \in Seq(Buffers) /\ Distinct(Lines[x])
      /\ \A b \in Buffers : pool[b] \in {0, 1}
      /\ \A x, y \in Spots : x # y => Elems(Lines[x]) \cap Elems(Lines[y]) = {}
      /\ \A x \in Spots : Elems(Lines[x]) \cap Free(pool) = {}
  BY ApartFacts
<1>5. PICK l \in Seq(Desc) : l = wire["client"][k]
  BY <1>1, WireAt, PeersAre
<1>6. PICK n \in Nat : n = Len(l)
  BY LenProperties
<1>7. CASE ~(Len(wire["client"][k]) >= ndescs)
  <2>1. CExit /\ UNCHANGED <<descs, pool, wire>>
    BY <1>7 DEF ClientRecv
  <2>2. c' = [c EXCEPT !.at = "exit"]
    BY <2>1 DEF CExit
  <2>3. /\ descs' \in [Conns -> Seq(Buffers)] /\ backlog' \in Seq(Conns) /\ (backlog # << >> => backlog' # << >>)
        /\ \A b \in Buffers : pool'[b] \in {0, 1}
        /\ Free(pool') \subseteq Free(pool)
    BY <1>1, <1>2, <1>4, <2>1 DEF BenchTypes
  <2> QED
    BY <1>2, <2>1, <2>2, <2>3, ClientGone
<1>8. CASE Len(wire["client"][k]) >= ndescs
  <2>1. /\ descs' = [descs EXCEPT ![id] = got]
        /\ pool' = IF put = 0 THEN pool ELSE With([descs EXCEPT ![id] = got][put])
        /\ c' = next
        /\ wire' = [wire EXCEPT !["client"][k] = Drop(@, ndescs)]
    BY <1>8 DEF ClientRecv
  <2>2. PICK m \in Nat \ {0} : m = ndescs
    BY <1>3
  <2>3. m <= n
    BY <1>5, <1>6, <1>8, <2>2
  <2>4. PICK rest : rest = Drop(l, m)
    OBVIOUS
  <2>5. PICK q \in Seq(Buffers) : q = Bufs(l) /\ Len(q) = n
    BY <1>6, BufsFacts
  <2>6. got = SubSeq(q, 1, m)
    <3>1. 1 \in Nat \ {0} /\ m \in Nat /\ m <= Len(l) /\ 1 <= m + 1
      BY <1>6, <2>3
    <3>2. Bufs(SubSeq(l, 1, m)) = SubSeq(Bufs(l), 1, m)
      BY <3>1, BufsSubSeq
    <3> QED
      BY <1>5, <2>2, <2>5, <3>2
  <2>7. rest \in Seq(Desc) /\ Len(rest) = n - m /\ Bufs(rest) = SubSeq(q, m + 1, Len(q))
    <3>1. PICK g \in Nat \ {0} : g = m + 1
      OBVIOUS
    <3>2. n \in Nat /\ n <= Len(l) /\ g <= n + 1
      BY <1>6, <2>3, <3>1
    <3>3. Bufs(SubSeq(l, g, n)) = SubSeq(Bufs(l), g, n) /\ SubSeq(l, g, n) \in Seq(Desc) /\ Len(SubSeq(l, g, n)) = n - g + 1
      BY <3>2, BufsSubSeq
    <3>4. rest = SubSeq(l, g, n)
      BY <1>6, <2>4, <3>1 DEF Drop
    <3>5. n - g + 1 = n - m
      BY <3>1
    <3> QED
      BY <2>5, <3>1, <3>3, <3>4, <3>5
  <2>8. /\ got \in Seq(Buffers) /\ Bufs(rest) \in Seq(Buffers) /\ Len(got) = m
        /\ Elems(got) \cup Elems(Bufs(rest)) = Elems(q)
        /\ Distinct(q) => Distinct(got) /\ Distinct(Bufs(rest)) /\ Elems(got) \cap Elems(Bufs(rest)) = {}
    <3>1. PICK e : e = Bufs(rest)
      OBVIOUS
    <3>2. e = SubSeq(q, m + 1, Len(q)) /\ m \in Nat /\ m <= Len(q)
      BY <2>3, <2>5, <2>7, <3>1
    <3>3. Parts(q, got, e) /\ Len(got) = m
      BY <2>6, <3>2, CutParts
    <3> QED
      BY <3>1, <3>3 DEF Parts
  <2>9. Replaced(wire, wire', "client", k, rest)
    <3>1. PICK w : w = wire'
      OBVIOUS
    <3>2. w = Put(wire, "client", k, rest)
      BY <1>5, <2>1, <2>2, <2>4, <3>1 DEF Put
    <3>3. Replaced(wire, w, "client", k, rest)
      BY <1>1, <2>7, <3>2, PutAt, PeersAre
    <3> QED
      BY <3>1, <3>3
  <2>10. wire' \in Wires /\ wire'["client"][k] = rest /\ \A f \in Ends, j \in Conns : f # "client" \/ j # k => wire'[f][j] = wire[f][j]
    BY <2>9 DEF Replaced
  <2>11. /\ descs' \in [Conns -> Seq(Buffers)] /\ descs'[id] = got
         /\ \A j \in Conns : j # id => descs'[j] = descs[j]
    BY <1>1, <2>1, <2>8
  <2>12. PICK x \in Spots : x = <<"client", k>>
    BY SpotsAre
  <2>13. PICK y \in Spots : y = <<"own", k>>
    BY SpotsAre
  <2>14. \A j \in Conns : OwnLen(j)' = IF put = 0 /\ j = k THEN m ELSE OwnLen(j)
    BY <2>1, <2>2
  <2>15. Kept(x, y)
    <3>1. \A j \in Conns : /\ j # k => wire'["client"][j] = wire["client"][j]
                           /\ wire'["server"][j] = wire["server"][j]
      BY <2>10, PeersAre
    <3>2. \A j \in Conns : j # k => OwnLen(j)' = OwnLen(j) /\ (OwnLen(j) = 0 \/ descs'[j] = descs[j])
      BY <2>11, <2>14
    <3> QED
      BY <1>2, <2>12, <2>13, <3>1, <3>2 DEF Kept
  <2>16. Lines[x] = q /\ Lines'[x] = Bufs(rest) /\ Lines[y] = << >>
    BY <1>5, <2>5, <2>10, <2>12, <2>13, LinesAt, LinesAtNext DEF LinesAre
  <2>17. Distinct(q) /\ Elems(q) \cap Free(pool) = {}
    BY <1>4, <2>16
  <2>18. IF put = 0 THEN Lines'[y] = got /\ pool' = pool
         ELSE /\ Lines'[y] = << >> /\ \A b \in Buffers : pool'[b] \in {0, 1}
              /\ Free(pool') = Free(pool) \cup Elems(got)
    <3>1. CASE put = 0
      <4>1. OwnLen(k)' = m /\ descs'[k] = got /\ pool' = pool
        BY <2>1, <2>11, <2>14, <3>1
      <4>2. Lines'[y] = SubSeq(descs'[k], 1, OwnLen(k)')
        BY <2>13, LinesAtNext DEF LinesAre
      <4>3. Lines'[y] = SubSeq(got, 1, Len(got))
        BY <2>8, <4>1, <4>2
      <4>4. Lines'[y] = got
        BY <2>8, <4>3, SubSeqFull
      <4> QED
        BY <3>1, <4>1, <4>4
    <3>2. CASE put # 0
      <4>1. OwnLen(k)' = 0 /\ pool' = With(got)
        BY <1>8, <2>1, <2>14, <3>2
      <4>2. Lines'[y] = << >>
        BY <2>13, <4>1, LinesAtNext DEF LinesAre
      <4>3. Distinct(got) /\ Elems(got) \cap Free(pool) = {} /\ got \in Seq(Buffers) /\ \A b \in Buffers : pool[b] \in {0, 1}
        BY <1>4, <2>8, <2>17
      <4>4. (\A b \in Buffers : With(got)[b] \in {0, 1}) /\ Free(With(got)) = Free(pool) \cup Elems(got)
        BY <4>3, WithFree
      <4> QED
        BY <3>2, <4>1, <4>2, <4>4
    <3> QED
      BY <3>1, <3>2
  <2>19. /\ Lines'[x] \in Seq(Buffers) /\ Distinct(Lines'[x])
         /\ Lines'[y] \in Seq(Buffers) /\ Distinct(Lines'[y])
         /\ \A b \in Buffers : pool'[b] \in {0, 1}
    BY <1>4, <2>8, <2>16, <2>17, <2>18, NoElems
  <2>20. /\ Elems(Lines[x]) = Elems(q) /\ Elems(Lines[y]) = {} /\ Elems(Lines'[x]) = Elems(Bufs(rest))
         /\ IF put = 0 THEN Elems(Lines'[y]) = Elems(got) /\ Free(pool') = Free(pool)
            ELSE Elems(Lines'[y]) = {} /\ Free(pool') = Free(pool) \cup Elems(got)
    BY <2>16, <2>18, NoElems
  <2>21. Elems(got) \cup Elems(Bufs(rest)) = Elems(q) /\ Elems(got) \cap Elems(Bufs(rest)) = {}
    BY <2>8, <2>17
  <2>22. /\ Elems(Lines'[x]) \cap Elems(Lines'[y]) = {}
         /\ Elems(Lines'[x]) \cap Free(pool') = {} /\ Elems(Lines'[y]) \cap Free(pool') = {}
         /\ Elems(Lines'[x]) \cup Elems(Lines'[y]) \cup Free(pool') = Elems(Lines[x]) \cup Elems(Lines[y]) \cup Free(pool)
    BY <2>17, <2>20, <2>21
  <2>23. /\ Apart(Lines, pool, opt.buffers)'
         /\ Stray(Lines, pool, opt.buffers)' = Stray(Lines, pool, opt.buffers)
    BY <1>1, <2>15, <2>19, <2>22, Exchange
  <2>24. BenchTypes'
    <3>1. ClientStates' = ClientStates
      BY <1>2 DEF ClientStates
    <3> QED
      BY <1>1, <1>2, <2>1, <2>10, <2>11, <3>1 DEF BenchTypes
  <2>25. Sound'
    BY <2>23, <2>24 DEF Sound
  <2> QED
    BY <1>5, <1>6, <1>8, <2>1, <2>2, <2>7, <2>8, <2>10, <2>11, <2>23, <2>25, PeersAre
<1> QED
  BY <1>7, <1>8

\* A step that touches connection k alone.
LEMMA TFrame ==
  ASSUME TInv, opt' = opt, NEW k \in Conns, TLine(k)', TDescs',
         \A j \in Conns : j # k => /\ Awaits(j)' <=> Awaits(j)
                                   /\ wire'["client"][j] = wire["client"][j]
                                   /\ wire'["server"][j] = wire["server"][j]
                                   /\ opt.reuse /\ Awaits(j) => descs'[j] = descs[j],
         Stray(Lines, pool, opt.buffers)' = Stray(Lines, pool, opt.buffers),
         Connected' = Connected, Awaits(k) /\ Quiet(k) => Awaits(k)' /\ Quiet(k)'
  PROVE  TInv'
<1>1. ndescs' = ndescs /\ NAnswer' = NAnswer
  BY SameOptions
<1>2. ASSUME NEW j \in Conns, j # k PROVE TLine(j)' /\ (Awaits(j)' <=> Awaits(j)) /\ (Quiet(j)' <=> Quiet(j))
  <2>1. /\ Awaits(j)' <=> Awaits(j)
        /\ wire'["client"][j] = wire["client"][j]
        /\ wire'["server"][j] = wire["server"][j]
        /\ opt.reuse /\ Awaits(j) => descs'[j] = descs[j]
    BY <1>2
  <2>2. TLine(j)
    BY DEF TInv
  <2>3. Quiet(j)' <=> Quiet(j)
    BY <2>1 DEF Quiet
  <2>4. Awaits(j) /\ TOutstanding(j) => TOutstanding(j)'
    BY <1>1, <2>1 DEF TOutstanding
  <2>5. CASE Awaits(j)
    BY <2>1, <2>2, <2>3, <2>4, <2>5 DEF TLine
  <2>6. CASE ~Awaits(j)
    BY <2>1, <2>2, <2>3, <2>6 DEF TLine
  <2> QED
    BY <2>1, <2>3, <2>5, <2>6
<1>3. \A j \in Conns : TLine(j)'
  BY <1>2
<1>4. ASSUME \A j \in Conns : Awaits(j)' => ~Quiet(j)' PROVE \A j \in Conns : Awaits(j) => ~Quiet(j)
  BY <1>2, <1>4
<1>5. TStray
  BY DEF TInv
<1>6. PICK S : S = Stray(Lines, pool, opt.buffers)
  OBVIOUS
<1>7. S = Stray(Lines, pool, opt.buffers)'
  BY <1>6
<1>8. (\A j \in Conns : Awaits(j) => ~Quiet(j)) => Cardinality(S) = IF opt.reuse THEN 0 ELSE Connected * ndescs
  BY <1>5, <1>6 DEF TStray
<1>9. (\A j \in Conns : Awaits(j)' => ~Quiet(j)') => Cardinality(S) = IF opt'.reuse THEN 0 ELSE Connected' * ndescs'
  BY <1>1, <1>4, <1>8
<1>10. TStray'
  BY <1>7, <1>9 DEF TStray
<1> QED
  BY <1>3, <1>10 DEF TInv

\* A step that moves no buffers.
LEMMA Unmoved ==
  ASSUME Sound, UNCHANGED <<opt, descs, partial, pool, wire>>, BenchTypes',
         \A k \in Conns : OwnLen(k)' = OwnLen(k)
  PROVE  Sound' /\ Stray(Lines, pool, opt.buffers)' = Stray(Lines, pool, opt.buffers)
<1>1. PICK x \in Spots : x = <<"part", 1>>
  BY OneIsConn, SpotsAre
<1>2. Kept(x, x)
  BY DEF Kept
<1>3. Lines'[x] = Lines[x]
  BY <1>1, OneIsConn, LinesAt, LinesAtNext DEF LinesAre
<1>4. /\ Lines[x] \in Seq(Buffers) /\ Distinct(Lines[x]) /\ Elems(Lines[x]) \cap Free(pool) = {}
      /\ \A b \in Buffers : pool[b] \in {0, 1}
  BY ApartFacts
<1>5. /\ Lines'[x] \in Seq(Buffers) /\ Distinct(Lines'[x]) /\ Elems(Lines'[x]) \cap Free(pool') = {}
      /\ Elems(Lines'[x]) \cup Elems(Lines'[x]) \cup Free(pool')
           = Elems(Lines[x]) \cup Elems(Lines[x]) \cup Free(pool)
      /\ \A b \in Buffers : pool'[b] \in {0, 1}
  BY <1>3, <1>4
<1>6. Apart(Lines, pool, opt.buffers)
  BY DEF Sound
<1>7. /\ Apart(Lines, pool, opt.buffers)'
      /\ Stray(Lines, pool, opt.buffers)' = Stray(Lines, pool, opt.buffers)
  BY <1>2, <1>5, <1>6, Exchange
<1> QED
  BY <1>7 DEF Sound

\* The client's state in a throughput test.
TGood == Sound /\ (Running => TAt /\ (NAnswer <= ndescs => TInv))

LEMMA NextReadyIs ==
  ASSUME c \in ClientStates, opt \in Options, c.ready # {}
  PROVE  NextReady \in c.ready /\ NextReady \in 1 .. opt.conns /\ NextReady \in Conns
<1>1. c.ready \in SUBSET (1 .. opt.conns) /\ opt.conns \in Conns /\ opt.conns \in Nat
  BY OptionFacts DEF ClientStates
<1>2. c.ready \in SUBSET Nat
  BY <1>1
<1>3. PICK T : T = c.ready
  OBVIOUS
<1>4. \E t \in T : \A u \in T : t <= u
  BY <1>2, <1>3, LeastNat
<1>5. (CHOOSE t \in T : \A u \in T : t <= u) \in T
  BY <1>4
<1>6. NextReady \in c.ready
  BY <1>3, <1>5 DEF NextReady
<1>7. 1 .. opt.conns \subseteq Conns
  BY <1>1, LinkAssumption DEF Conns
<1> QED
  BY <1>1, <1>6, <1>7

LEMMA ConnIs ==
  ASSUME opt \in Options PROVE 1 .. opt.conns \subseteq Conns /\ opt.conns \in Nat \ {0} /\ \A k \in Conns : k \in Nat \ {0}
<1>1. opt.conns \in Conns /\ opt.conns \in Nat \ {0}
  BY OptionFacts
<1> QED
  BY <1>1, LinkAssumption DEF Conns

\* The first requests (throughput/sure/main.c, client).
LEMMA TFirstGood ==
  ASSUME TGood, ~Stale, opt.prog = "throughput", TFirst PROVE TGood'
<1>1. /\ Sound /\ BenchTypes /\ opt \in Options /\ c \in ClientStates /\ c.at = "send"
      /\ wire \in Wires /\ descs \in [Conns -> Seq(Buffers)]
  BY DEF TGood, Sound, BenchTypes, TFirst
<1>2. TAt /\ (NAnswer <= ndescs => TInv)
  BY <1>1 DEF TGood, Running
<1>3. c.i \in 1 .. opt.conns /\ c.i \in Nat /\ opt.conns \in Nat
  BY <1>1, <1>2, OptionFacts DEF TAt
<1>4. PICK k \in Conns : k = c.i
  BY <1>1, <1>3, ConnIs
<1>5. PICK next : next = IF c.i < opt.conns THEN [c EXCEPT !.i = @ + 1] ELSE [c EXCEPT !.at = "poll"]
  OBVIOUS
<1>6. ClientSend(k, next)
  BY <1>4, <1>5 DEF TFirst
<1>7. opt' = opt
  BY <1>6 DEF ClientSend
<1>8. next \in ClientStates
  <2>1. c.i + 1 \in Nat
    BY <1>3
  <2>2. [c EXCEPT !.i = @ + 1] \in ClientStates
    BY <1>1, <2>1 DEF ClientStates
  <2>3. [c EXCEPT !.at = "poll"] \in ClientStates
    BY <1>1 DEF ClientStates
  <2> QED
    BY <1>5, <2>2, <2>3
<1>9. ndescs' = ndescs /\ NAnswer' = NAnswer
  BY <1>7, SameOptions
<1>10. \A j \in Conns : j \in Nat \ {0}
  BY <1>1, ConnIs
<1>11. ASSUME c' = next PROVE \A j \in Conns : OwnLen(j)' = IF j = k THEN 0 ELSE OwnLen(j)
  <2>1. CASE c.i < opt.conns
    <3>1. c'.at = "send" /\ c'.i = c.i + 1
      BY <1>1, <1>5, <1>11, <2>1 DEF ClientStates
    <3> QED
      BY <1>1, <1>3, <1>4, <1>7, <1>9, <1>10, <3>1 DEF OwnLen
  <2>2. CASE ~(c.i < opt.conns)
    <3>1. c'.at = "poll" /\ c.i = opt.conns
      BY <1>1, <1>3, <1>5, <1>11, <2>2 DEF ClientStates
    <3> QED
      BY <1>1, <1>3, <1>4, <1>7, <1>9, <1>10, <3>1 DEF OwnLen
  <2> QED
    BY <2>1, <2>2
<1>12. opt.reuse => OwnLen(k) = ndescs /\ Len(descs[k]) = ndescs
  <2> SUFFICES ASSUME opt.reuse PROVE OwnLen(k) = ndescs /\ Len(descs[k]) = ndescs
    OBVIOUS
  <2>1. OwnLen(k) = ndescs
    BY <1>1, <1>3, <1>4 DEF OwnLen
  <2>2. NAnswer <= ndescs
    BY <1>1, MessageFacts DEF Stale
  <2>3. TDescs
    BY <1>2, <2>2 DEF TInv
  <2>4. Len(descs[k]) = ndescs
    BY <1>1, <1>3, <1>4, <2>3 DEF TDescs, Connected
  <2> QED
    BY <2>1, <2>4
<1>13. /\ Sound'
       /\ ~Running' \/ /\ c' = next
                       /\ Stray(Lines, pool, opt.buffers)' = Stray(Lines, pool, opt.buffers)
                       /\ Bufs(wire'["server"][k]) = Bufs(wire["server"][k]) \o descs'[k]
                       /\ Len(wire'["server"][k]) = Len(wire["server"][k]) + ndescs
                       /\ wire'["client"][k] = wire["client"][k]
                       /\ Len(descs'[k]) = ndescs
                       /\ \A j \in Conns : j # k => /\ descs'[j] = descs[j]
                                                    /\ wire'["client"][j] = wire["client"][j]
                                                    /\ wire'["server"][j] = wire["server"][j]
                       /\ opt.reuse => descs'[k] = descs[k]
  BY <1>1, <1>6, <1>8, <1>11, <1>12, SendLines
<1>14. SUFFICES ASSUME Running' PROVE TAt' /\ (NAnswer' <= ndescs' => TInv')
  BY <1>13 DEF TGood
<1>15. c' = next
  BY <1>13, <1>14
<1>16. TAt'
  BY <1>1, <1>3, <1>5, <1>7, <1>15 DEF TAt, ClientStates
<1>17. ASSUME NAnswer' <= ndescs' PROVE TInv'
  <2>1. TInv
    BY <1>2, <1>9, <1>17
  <2>2. ~Awaits(k)
    BY <1>1, <1>3, <1>4 DEF Awaits
  <2>3. Quiet(k)
    BY <2>1, <2>2 DEF TInv, TLine
  <2>4. /\ Awaits(k)' /\ \A j \in Conns : j # k => (Awaits(j)' <=> Awaits(j))
        /\ c'.at \in {"send", "poll"} /\ Connected' = Connected
    BY <1>1, <1>3, <1>4, <1>5, <1>7, <1>10, <1>15 DEF Awaits, ClientStates, Connected
  <2>5. TOutstanding(k)'
    <3>1. wire["server"][k] = << >> /\ wire["client"][k] = << >>
      BY <2>3 DEF Quiet
    <3>2. Bufs(wire'["server"][k]) = Bufs(<< >>) \o descs'[k] /\ Len(wire'["server"][k]) = Len(<< >>) + ndescs
      BY <1>13, <1>14, <3>1
    <3>3. descs'[k] \in Seq(Buffers)
      BY <1>13 DEF Sound, BenchTypes
    <3>4. Bufs(<< >>) = << >> /\ Len(<< >>) = 0
      BY BufsFacts, EmptySeq
    <3>5. Bufs(wire'["server"][k]) = descs'[k]
      BY <3>2, <3>3, <3>4, ConcatEmptySeq
    <3>6. Len(wire'["server"][k]) = ndescs
      BY <1>1, <3>2, <3>4, MessageFacts
    <3>7. wire'["client"][k] = << >>
      BY <1>13, <1>14, <3>1
    <3> QED
      BY <1>9, <3>5, <3>6, <3>7 DEF TOutstanding
  <2>6. TLine(k)'
    BY <2>4, <2>5 DEF TLine
  <2>7. TDescs'
    <3>1. TDescs
      BY <2>1 DEF TInv
    <3> QED
      BY <1>1, <1>7, <1>9, <1>13, <1>14, <2>4, <3>1 DEF TDescs
  <2>8. /\ Stray(Lines, pool, opt.buffers)' = Stray(Lines, pool, opt.buffers)
        /\ \A j \in Conns : j # k => /\ wire'["client"][j] = wire["client"][j]
                                     /\ wire'["server"][j] = wire["server"][j]
                                     /\ opt.reuse /\ Awaits(j) => descs'[j] = descs[j]
    BY <1>13, <1>14
  <2> QED
    BY <1>7, <2>1, <2>2, <2>4, <2>6, <2>7, <2>8, TFrame
<1> QED
  BY <1>16, <1>17

\* The next request on a connection (client_send of the loop).
LEMMA TAgainGood ==
  ASSUME TGood, ~Stale, opt.prog = "throughput", TAgain PROVE TGood'
<1>1. /\ Sound /\ BenchTypes /\ opt \in Options /\ c \in ClientStates /\ c.at = "again"
      /\ wire \in Wires /\ descs \in [Conns -> Seq(Buffers)]
  BY DEF TGood, Sound, BenchTypes, TAgain
<1>2. TAt /\ (NAnswer <= ndescs => TInv)
  BY <1>1 DEF TGood, Running
<1>3. c.ready # {} /\ NextReady \in c.ready /\ NextReady \in 1 .. opt.conns /\ opt.conns \in Nat
  BY <1>1, <1>2, NextReadyIs, OptionFacts DEF TAt
<1>4. PICK k \in Conns : k = NextReady /\ k <= opt.conns
  BY <1>1, <1>3, ConnIs
<1>5. PICK next : next = [c EXCEPT !.at = "round", !.ready = @ \ {NextReady}]
  OBVIOUS
<1>6. ClientSend(k, next)
  BY <1>4, <1>5 DEF TAgain
<1>7. opt' = opt
  BY <1>6 DEF ClientSend
<1>8. next \in ClientStates
  <2>1. c.ready \ {NextReady} \in SUBSET (1 .. opt.conns)
    BY <1>1 DEF ClientStates
  <2> QED
    BY <1>1, <1>5, <2>1 DEF ClientStates
<1>9. ndescs' = ndescs /\ NAnswer' = NAnswer
  BY <1>7, SameOptions
<1>10. \A j \in Conns : j \in Nat \ {0}
  BY <1>1, ConnIs
<1>11. ASSUME c' = next PROVE \A j \in Conns : OwnLen(j)' = IF j = k THEN 0 ELSE OwnLen(j)
  <2>1. c'.at = "round"
    BY <1>1, <1>5, <1>11 DEF ClientStates
  <2> QED
    BY <1>1, <1>4, <1>7, <2>1 DEF OwnLen
<1>12. opt.reuse => OwnLen(k) = ndescs /\ Len(descs[k]) = ndescs
  <2> SUFFICES ASSUME opt.reuse PROVE OwnLen(k) = ndescs /\ Len(descs[k]) = ndescs
    OBVIOUS
  <2>1. OwnLen(k) = ndescs
    BY <1>1, <1>4 DEF OwnLen
  <2>2. NAnswer <= ndescs
    BY <1>1, MessageFacts DEF Stale
  <2>3. TDescs
    BY <1>2, <2>2 DEF TInv
  <2>4. Len(descs[k]) = ndescs
    BY <1>1, <1>4, <2>3 DEF TDescs, Connected
  <2> QED
    BY <2>1, <2>4
<1>13. /\ Sound'
       /\ ~Running' \/ /\ c' = next
                       /\ Stray(Lines, pool, opt.buffers)' = Stray(Lines, pool, opt.buffers)
                       /\ Bufs(wire'["server"][k]) = Bufs(wire["server"][k]) \o descs'[k]
                       /\ Len(wire'["server"][k]) = Len(wire["server"][k]) + ndescs
                       /\ wire'["client"][k] = wire["client"][k]
                       /\ Len(descs'[k]) = ndescs
                       /\ \A j \in Conns : j # k => /\ descs'[j] = descs[j]
                                                    /\ wire'["client"][j] = wire["client"][j]
                                                    /\ wire'["server"][j] = wire["server"][j]
                       /\ opt.reuse => descs'[k] = descs[k]
  BY <1>1, <1>6, <1>8, <1>11, <1>12, SendLines
<1>14. SUFFICES ASSUME Running' PROVE TAt' /\ (NAnswer' <= ndescs' => TInv')
  BY <1>13 DEF TGood
<1>15. c' = next
  BY <1>13, <1>14
<1>16. TAt' /\ c'.at = "round"
  BY <1>1, <1>5, <1>7, <1>15 DEF TAt, ClientStates
<1>17. ASSUME NAnswer' <= ndescs' PROVE TInv'
  <2>1. TInv
    BY <1>2, <1>9, <1>17
  <2>2. ~Awaits(k)
    BY <1>1, <1>4 DEF Awaits
  <2>3. Quiet(k)
    BY <2>1, <2>2 DEF TInv, TLine
  <2>4. /\ Awaits(k)' /\ \A j \in Conns : j # k => (Awaits(j)' <=> Awaits(j))
        /\ Connected' = Connected
    BY <1>1, <1>4, <1>7, <1>16 DEF Awaits, Connected
  <2>5. TOutstanding(k)'
    <3>1. wire["server"][k] = << >> /\ wire["client"][k] = << >>
      BY <2>3 DEF Quiet
    <3>2. Bufs(wire'["server"][k]) = Bufs(<< >>) \o descs'[k] /\ Len(wire'["server"][k]) = Len(<< >>) + ndescs
      BY <1>13, <1>14, <3>1
    <3>3. descs'[k] \in Seq(Buffers)
      BY <1>13 DEF Sound, BenchTypes
    <3>4. Bufs(<< >>) = << >> /\ Len(<< >>) = 0
      BY BufsFacts, EmptySeq
    <3>5. Bufs(wire'["server"][k]) = descs'[k]
      BY <3>2, <3>3, <3>4, ConcatEmptySeq
    <3>6. Len(wire'["server"][k]) = ndescs
      BY <1>1, <3>2, <3>4, MessageFacts
    <3>7. wire'["client"][k] = << >>
      BY <1>13, <1>14, <3>1
    <3> QED
      BY <1>9, <3>5, <3>6, <3>7 DEF TOutstanding
  <2>6. TLine(k)'
    BY <2>4, <2>5 DEF TLine
  <2>7. TDescs'
    <3>1. TDescs
      BY <2>1 DEF TInv
    <3> QED
      BY <1>1, <1>7, <1>9, <1>13, <1>14, <2>4, <3>1 DEF TDescs
  <2>8. /\ Stray(Lines, pool, opt.buffers)' = Stray(Lines, pool, opt.buffers)
        /\ \A j \in Conns : j # k => /\ wire'["client"][j] = wire["client"][j]
                                     /\ wire'["server"][j] = wire["server"][j]
                                     /\ opt.reuse /\ Awaits(j) => descs'[j] = descs[j]
    BY <1>13, <1>14
  <2> QED
    BY <1>7, <2>1, <2>2, <2>4, <2>6, <2>7, <2>8, TFrame
<1> QED
  BY <1>16, <1>17

\* With answers no longer than requests, one that is whole is as long as one.
LEMMA WholeAnswer ==
  ASSUME BenchTypes, TInv, NAnswer <= ndescs, NEW k \in Conns, Awaits(k), Len(wire["client"][k]) >= ndescs
  PROVE  /\ wire["server"][k] = << >> /\ Len(wire["client"][k]) = ndescs
         /\ opt.reuse => Bufs(wire["client"][k]) = descs[k]
<1>1. TOutstanding(k)
  BY DEF TInv, TLine
<1>2. opt \in Options
  BY DEF BenchTypes
<1>3. ndescs \in Nat \ {0} /\ NAnswer \in Nat \ {0}
  BY <1>2, MessageFacts
<1>4. Len(<< >>) = 0
  BY EmptySeq
<1>5. ~(wire["client"][k] = << >>)
  <2> SUFFICES ASSUME wire["client"][k] = << >> PROVE FALSE
    OBVIOUS
  <2>1. Len(wire["client"][k]) = 0
    BY <1>4
  <2> QED
    BY <1>3, <2>1
<1>6. /\ wire["server"][k] = << >> /\ Len(wire["client"][k]) \in {0, NAnswer}
      /\ opt.reuse /\ Len(wire["client"][k]) = ndescs => Bufs(wire["client"][k]) = descs[k]
  BY <1>1, <1>5 DEF TOutstanding
<1>7. Len(wire["client"][k]) = ndescs
  BY <1>3, <1>6
<1> QED
  BY <1>6, <1>7

\* The answer on a ready connection (client_recv of the loop).
LEMMA TRecvGood ==
  ASSUME TGood, ~Stale, opt.prog = "throughput", TRecv PROVE TGood'
<1>1. /\ Sound /\ BenchTypes /\ opt \in Options /\ c \in ClientStates /\ c.at = "round" /\ c.ready # {}
      /\ wire \in Wires /\ descs \in [Conns -> Seq(Buffers)]
  BY DEF TGood, Sound, BenchTypes, TRecv
<1>2. TAt /\ (NAnswer <= ndescs => TInv)
  BY <1>1 DEF TGood, Running
<1>3. NextReady \in c.ready /\ NextReady \in 1 .. opt.conns /\ opt.conns \in Nat
  BY <1>1, NextReadyIs, OptionFacts
<1>4. PICK k \in Conns : k = NextReady /\ k <= opt.conns /\ k \in Nat \ {0}
  BY <1>1, <1>3, ConnIs
<1>5. PICK next : next = [c EXCEPT !.at = "again"]
  OBVIOUS
<1>6. PICK put : put = IF opt.reuse THEN 0 ELSE k
  OBVIOUS
<1>7. ClientRecv(k, k, put, next, {}) /\ put = 0 => k = k
  OBVIOUS
<1>8. ClientRecv(k, k, put, next, {})
  BY <1>4, <1>5, <1>6 DEF TRecv
<1>9. opt' = opt
  BY <1>8 DEF ClientRecv
<1>10. next \in ClientStates
  BY <1>1, <1>5 DEF ClientStates
<1>11. ndescs' = ndescs /\ NAnswer' = NAnswer
  BY <1>9, SameOptions
<1>12. \A j \in Conns : OwnLen(j) = 0
  BY <1>1 DEF OwnLen
<1>13. ASSUME c' = next
       PROVE  /\ c'.at = "again" /\ c'.ready = c.ready /\ NextReady' = NextReady
              /\ \A j \in Conns : OwnLen(j)' = IF put = 0 /\ j = k THEN ndescs ELSE OwnLen(j)
  <2>1. c'.at = "again" /\ c'.ready = c.ready
    BY <1>1, <1>5, <1>13 DEF ClientStates
  <2>2. NextReady' = NextReady
    BY <2>1 DEF NextReady
  <2>3. put = 0 <=> opt.reuse
    BY <1>4, <1>6
  <2>4. \A j \in Conns : OwnLen(j)' = IF opt.reuse /\ j = k THEN ndescs ELSE 0
    BY <1>4, <1>9, <1>11, <2>1, <2>2 DEF OwnLen
  <2> QED
    BY <1>12, <2>1, <2>2, <2>3, <2>4
<1>14. PICK got : got = Bufs(SubSeq(wire["client"][k], 1, ndescs))
  OBVIOUS
<1>15. put # 0 => [descs EXCEPT ![k] = got][put] = got
  BY <1>1, <1>6
<1>16. c' = next => \A j \in Conns : OwnLen(j)' = IF put = 0 /\ j = k THEN ndescs ELSE OwnLen(j)
  BY <1>13
<1>17. /\ Sound'
       /\ ~Running' \/ /\ c' = next
                       /\ Stray(Lines, pool, opt.buffers)' = Stray(Lines, pool, opt.buffers)
                       /\ Len(wire["client"][k]) >= ndescs
                       /\ Len(wire'["client"][k]) = Len(wire["client"][k]) - ndescs
                       /\ wire'["client"][k] \in Seq(Desc)
                       /\ wire'["server"][k] = wire["server"][k]
                       /\ Len(got) = ndescs /\ descs'[k] = got
                       /\ \A j \in Conns : j # k => descs'[j] = descs[j]
                       /\ \A j \in Conns : j # k => /\ wire'["client"][j] = wire["client"][j]
                                                    /\ wire'["server"][j] = wire["server"][j]
  BY <1>1, <1>8, <1>10, <1>12, <1>14, <1>15, <1>16, RecvLines
<1>18. SUFFICES ASSUME Running' PROVE TAt' /\ (NAnswer' <= ndescs' => TInv')
  BY <1>17 DEF TGood
<1>19. c' = next /\ c'.at = "again" /\ c'.ready = c.ready /\ NextReady' = NextReady
  BY <1>13, <1>17, <1>18
<1>20. TAt'
  BY <1>1, <1>19 DEF TAt
<1>21. ASSUME NAnswer' <= ndescs' PROVE TInv'
  <2>1. TInv /\ NAnswer <= ndescs
    BY <1>2, <1>11, <1>21
  <2>2. Awaits(k)
    BY <1>1, <1>4 DEF Awaits
  <2>3. wire["server"][k] = << >> /\ Len(wire["client"][k]) = ndescs
    BY <1>1, <1>17, <1>18, <2>1, <2>2, WholeAnswer
  <2>4. Quiet(k)'
    <3>1. Len(wire'["client"][k]) = 0 /\ wire'["client"][k] \in Seq(Desc)
      BY <1>1, <1>17, <1>18, <2>3, MessageFacts
    <3>2. wire'["client"][k] = << >>
      BY <3>1, EmptySeq
    <3> QED
      BY <1>17, <1>18, <2>3, <3>2 DEF Quiet
  <2>5. ~Quiet(k)
    <3>1. Len(<< >>) = 0 /\ ndescs # 0
      BY <1>1, EmptySeq, MessageFacts
    <3> QED
      BY <2>3, <3>1 DEF Quiet
  <2>6. /\ ~Awaits(k)' /\ \A j \in Conns : j # k => (Awaits(j)' <=> Awaits(j))
        /\ Connected' = Connected
    BY <1>1, <1>4, <1>9, <1>19 DEF Awaits, Connected
  <2>7. TLine(k)'
    BY <2>4, <2>6 DEF TLine
  <2>8. TDescs'
    <3>1. TDescs
      BY <2>1 DEF TInv
    <3>2. \A j \in Conns : j # k => descs'[j] = descs[j]
      BY <1>17, <1>18
    <3>3. Len(descs'[k]) = ndescs
      BY <1>17, <1>18
    <3> QED
      BY <1>1, <1>9, <1>11, <2>6, <3>1, <3>2, <3>3 DEF TDescs
  <2>9. /\ Stray(Lines, pool, opt.buffers)' = Stray(Lines, pool, opt.buffers)
        /\ \A j \in Conns : j # k => /\ wire'["client"][j] = wire["client"][j]
                                     /\ wire'["server"][j] = wire["server"][j]
                                     /\ opt.reuse /\ Awaits(j) => descs'[j] = descs[j]
    BY <1>17, <1>18
  <2> QED
    BY <1>9, <2>1, <2>5, <2>6, <2>7, <2>8, <2>9, TFrame
<1> QED
  BY <1>20, <1>21

\* The last answers (client, after the loop).
LEMMA TFinalGood ==
  ASSUME TGood, ~Stale, opt.prog = "throughput", TFinal PROVE TGood'
<1>1. /\ Sound /\ BenchTypes /\ opt \in Options /\ c \in ClientStates /\ c.at = "final"
      /\ wire \in Wires /\ descs \in [Conns -> Seq(Buffers)]
  BY DEF TGood, Sound, BenchTypes, TFinal
<1>2. TAt /\ (NAnswer <= ndescs => TInv)
  BY <1>1 DEF TGood, Running
<1>3. c.i \in 1 .. opt.conns /\ c.i \in Nat /\ opt.conns \in Nat
  BY <1>1, <1>2, OptionFacts DEF TAt
<1>4. PICK k \in Conns : k = c.i /\ k \in Nat \ {0}
  BY <1>1, <1>3, ConnIs
<1>5. PICK next : next = IF c.i < opt.conns THEN [c EXCEPT !.i = @ + 1] ELSE [c EXCEPT !.at = "done"]
  OBVIOUS
<1>6. PICK id \in Conns : id = 1
  BY OneIsConn
<1>7. PICK put : put = Returned
  OBVIOUS
<1>8. put # 0 /\ put = IF opt.reuse THEN k ELSE 1
  BY <1>4, <1>7 DEF Returned
<1>9. ClientRecv(k, id, put, next, {<<"client", c.i>>})
  BY <1>4, <1>5, <1>6, <1>7 DEF TFinal
<1>10. opt' = opt
  BY <1>9 DEF ClientRecv
<1>11. next \in ClientStates
  <2>1. c.i + 1 \in Nat
    BY <1>3
  <2>2. [c EXCEPT !.i = @ + 1] \in ClientStates
    BY <1>1, <2>1 DEF ClientStates
  <2>3. [c EXCEPT !.at = "done"] \in ClientStates
    BY <1>1 DEF ClientStates
  <2> QED
    BY <1>5, <2>2, <2>3
<1>12. ndescs' = ndescs /\ NAnswer' = NAnswer
  BY <1>10, SameOptions
<1>13. \A j \in Conns : OwnLen(j) = 0
  BY <1>1 DEF OwnLen
<1>14. ASSUME c' = next
       PROVE  (c'.at = "final" /\ c'.i = c.i + 1 /\ c.i < opt.conns) \/ (c'.at = "done" /\ c.i = opt.conns)
  BY <1>1, <1>3, <1>5, <1>14 DEF ClientStates
<1>15. c' = next => \A j \in Conns : OwnLen(j)' = IF put = 0 /\ j = k THEN ndescs ELSE OwnLen(j)
  BY <1>8, <1>10, <1>13, <1>14 DEF OwnLen
<1>16. Awaits(k)
  BY <1>1, <1>3, <1>4 DEF Awaits
<1>17. PICK got : got = Bufs(SubSeq(wire["client"][k], 1, ndescs))
  OBVIOUS
<1>18. put # 0 /\ Len(wire["client"][k]) >= ndescs => [descs EXCEPT ![id] = got][put] = got
  <2> SUFFICES ASSUME Len(wire["client"][k]) >= ndescs PROVE [descs EXCEPT ![id] = got][put] = got
    OBVIOUS
  <2>1. CASE ~opt.reuse \/ k = 1
    BY <1>1, <1>6, <1>8, <2>1
  <2>2. CASE opt.reuse /\ k # 1
    <3>1. NAnswer <= ndescs
      BY <1>1, <2>2, MessageFacts DEF Stale
    <3>2. Len(wire["client"][k]) = ndescs /\ Bufs(wire["client"][k]) = descs[k]
      BY <1>1, <1>2, <1>16, <2>2, <3>1, WholeAnswer
    <3>3. PICK l \in Seq(Desc) : l = wire["client"][k]
      BY <1>1, WireAt, PeersAre
    <3>4. SubSeq(l, 1, Len(l)) = l
      BY SubSeqFull
    <3>5. got = descs[k]
      BY <1>17, <3>2, <3>3, <3>4
    <3> QED
      BY <1>1, <1>6, <1>8, <2>2, <3>5
  <2> QED
    BY <2>1, <2>2
<1>19. put = 0 => id = k
  BY <1>8
<1>20. /\ Sound'
       /\ ~Running' \/ /\ c' = next
                       /\ Stray(Lines, pool, opt.buffers)' = Stray(Lines, pool, opt.buffers)
                       /\ Len(wire["client"][k]) >= ndescs
                       /\ Len(wire'["client"][k]) = Len(wire["client"][k]) - ndescs
                       /\ wire'["client"][k] \in Seq(Desc)
                       /\ wire'["server"][k] = wire["server"][k]
                       /\ Len(got) = ndescs /\ descs'[id] = got
                       /\ \A j \in Conns : j # id => descs'[j] = descs[j]
                       /\ \A j \in Conns : j # k => /\ wire'["client"][j] = wire["client"][j]
                                                    /\ wire'["server"][j] = wire["server"][j]
  BY <1>1, <1>9, <1>11, <1>13, <1>15, <1>17, <1>18, <1>19, RecvLines
<1>21. SUFFICES ASSUME Running' PROVE TAt' /\ (NAnswer' <= ndescs' => TInv')
  BY <1>20 DEF TGood
<1>22. c' = next /\ ((c'.at = "final" /\ c'.i = c.i + 1 /\ c.i < opt.conns) \/ (c'.at = "done" /\ c.i = opt.conns))
  BY <1>14, <1>20, <1>21
<1>23. TAt'
  BY <1>3, <1>10, <1>22 DEF TAt
<1>24. ASSUME NAnswer' <= ndescs' PROVE TInv'
  <2>1. TInv /\ NAnswer <= ndescs
    BY <1>2, <1>12, <1>24
  <2>2. wire["server"][k] = << >> /\ Len(wire["client"][k]) = ndescs
    BY <1>1, <1>16, <1>20, <1>21, <2>1, WholeAnswer
  <2>3. Quiet(k)'
    <3>1. Len(wire'["client"][k]) = 0 /\ wire'["client"][k] \in Seq(Desc)
      BY <1>1, <1>20, <1>21, <2>2, MessageFacts
    <3>2. wire'["client"][k] = << >>
      BY <3>1, EmptySeq
    <3> QED
      BY <1>20, <1>21, <2>2, <3>2 DEF Quiet
  <2>4. ~Quiet(k)
    <3>1. Len(<< >>) = 0 /\ ndescs # 0
      BY <1>1, EmptySeq, MessageFacts
    <3> QED
      BY <2>2, <3>1 DEF Quiet
  <2>5. \A j \in Conns : j \in Nat \ {0}
    BY <1>1, ConnIs
  <2>6. ~Awaits(k)' /\ Connected' = Connected
    BY <1>1, <1>3, <1>4, <1>10, <1>22 DEF Awaits, Connected
  <2>7. \A j \in Conns : j # k => (Awaits(j)' <=> Awaits(j))
    BY <1>1, <1>3, <1>4, <1>10, <1>22, <2>5 DEF Awaits
  <2>8. TLine(k)'
    BY <2>3, <2>6 DEF TLine
  <2>9. TDescs'
    BY <1>22 DEF TDescs
  <2>10. \A j \in Conns : j # k /\ Awaits(j) => j # id
    BY <1>1, <1>3, <1>4, <1>6 DEF Awaits
  <2>11. /\ Stray(Lines, pool, opt.buffers)' = Stray(Lines, pool, opt.buffers)
         /\ \A j \in Conns : j # k => /\ wire'["client"][j] = wire["client"][j]
                                      /\ wire'["server"][j] = wire["server"][j]
                                      /\ opt.reuse /\ Awaits(j) => descs'[j] = descs[j]
    BY <1>20, <1>21, <2>10
  <2> QED
    BY <1>10, <2>1, <2>4, <2>6, <2>7, <2>8, <2>9, <2>11, TFrame
<1> QED
  BY <1>23, <1>24

\* Steps that move no buffers.
LEMMA TIdle ==
  ASSUME TGood, UNCHANGED <<opt, descs, partial, pool, wire>>, BenchTypes',
         \A k \in Conns : OwnLen(k)' = OwnLen(k), Running' => Running, Running /\ TAt => TAt',
         Running => /\ \A k \in Conns : Awaits(k)' <=> Awaits(k)
                    /\ Connected' = Connected
                    /\ c'.at \in {"final", "done"} \/ (c'.at \notin {"final", "done"} /\ c.at \notin {"final", "done"})
  PROVE  TGood'
<1>1. Sound /\ (Running => TAt /\ (NAnswer <= ndescs => TInv))
  BY DEF TGood
<1>2. Sound' /\ Stray(Lines, pool, opt.buffers)' = Stray(Lines, pool, opt.buffers)
  BY <1>1, Unmoved
<1>3. ndescs' = ndescs /\ NAnswer' = NAnswer
  BY SameOptions
<1>4. ASSUME Running', NAnswer' <= ndescs' PROVE TInv'
  <2>1. TInv
    BY <1>1, <1>3, <1>4
  <2>2. PICK k \in Conns : k = 1
    BY OneIsConn
  <2>3. \A j \in Conns : Awaits(j)' <=> Awaits(j)
    BY <1>4
  <2>4. \A j \in Conns : (TOutstanding(j)' <=> TOutstanding(j)) /\ (Quiet(j)' <=> Quiet(j))
    BY <1>3 DEF TOutstanding, Quiet
  <2>5. TLine(k)'
    BY <2>1, <2>3, <2>4 DEF TInv, TLine
  <2>6. TDescs'
    <3>1. TDescs /\ Connected' = Connected
      BY <1>4, <2>1 DEF TInv
    <3> QED
      BY <1>3, <1>4, <3>1 DEF TDescs
  <2>7. Connected' = Connected /\ (Awaits(k) /\ Quiet(k) => Awaits(k)' /\ Quiet(k)')
    BY <1>4, <2>3, <2>4
  <2> QED
    BY <1>2, <2>1, <2>3, <2>5, <2>6, <2>7, TFrame
<1> QED
  BY <1>1, <1>2, <1>4 DEF TGood

LEMMA TPollGood == ASSUME TGood, opt.prog = "throughput", TPoll PROVE TGood'
<1>1. BenchTypes /\ opt \in Options /\ c \in ClientStates /\ c.at = "poll"
  BY DEF TGood, Sound, BenchTypes, TPoll
<1>2. UNCHANGED <<opt, s, descs, partial, pool, wire, backlog, closed>>
  BY DEF TPoll
<1>3. PICK R \in SUBSET (1 .. opt.conns) : c' = [c EXCEPT !.at = "round", !.ready = R]
  BY DEF TPoll
<1>4. c' \in ClientStates /\ c'.at = "round" /\ ClientStates' = ClientStates
  BY <1>1, <1>2, <1>3 DEF ClientStates
<1>5. BenchTypes'
  BY <1>1, <1>2, <1>4 DEF BenchTypes
<1>6. (\A k \in Conns : OwnLen(k)' = OwnLen(k)) /\ Running
  BY <1>1, <1>2, <1>4 DEF OwnLen, Running
<1>7. TAt'
  BY <1>4 DEF TAt
<1>8. Connected' = Connected /\ \A k \in Conns : Awaits(k)' <=> Awaits(k)
  BY <1>1, <1>2, <1>4 DEF Awaits, Connected
<1> QED
  BY <1>1, <1>2, <1>4, <1>5, <1>6, <1>7, <1>8, TIdle

LEMMA TTimeGood == ASSUME TGood, opt.prog = "throughput", TTime PROVE TGood'
<1>1. BenchTypes /\ opt \in Options /\ c \in ClientStates /\ c.at = "round"
  BY DEF TGood, Sound, BenchTypes, TTime
<1>2. UNCHANGED <<opt, s, descs, partial, pool, wire, backlog, closed>>
  BY DEF TTime
<1>3. PICK at \in {"poll", "final"} : c' = [c EXCEPT !.at = at, !.n = @ + 1, !.i = 1]
  BY DEF TTime
<1>4. c.n \in Nat
  BY <1>1 DEF ClientStates
<1>5. c.n + 1 \in Nat
  BY <1>4
<1>6. c' \in ClientStates /\ c'.at = at /\ c'.i = 1 /\ ClientStates' = ClientStates
  BY <1>1, <1>2, <1>3, <1>5 DEF ClientStates
<1>7. BenchTypes'
  BY <1>1, <1>2, <1>6 DEF BenchTypes
<1>8. (\A k \in Conns : OwnLen(k)' = OwnLen(k)) /\ Running
  BY <1>1, <1>2, <1>6 DEF OwnLen, Running
<1>9. opt.conns \in Nat \ {0} /\ \A k \in Conns : k \in Nat \ {0}
  BY <1>1, ConnIs
<1>10. TAt'
  BY <1>2, <1>6, <1>9 DEF TAt
<1>11. Connected' = Connected /\ \A k \in Conns : Awaits(k)' <=> Awaits(k)
  BY <1>1, <1>2, <1>6, <1>9 DEF Awaits, Connected
<1> QED
  BY <1>1, <1>2, <1>6, <1>7, <1>8, <1>10, <1>11, TIdle

-----------------------------------------------------------------------------
(* The throughput server *)

LEMMA TServerIdle ==
  ASSUME TGood, UNCHANGED <<opt, c, descs, partial, pool, wire>>, BenchTypes' PROVE TGood'
<1>1. (\A k \in Conns : OwnLen(k)' = OwnLen(k)) /\ (Running' => Running) /\ (TAt => TAt')
  BY DEF OwnLen, Running, TAt, ndescs, NextReady
<1>2. /\ \A k \in Conns : Awaits(k)' <=> Awaits(k)
      /\ Connected' = Connected
  BY DEF Awaits, Connected, NextReady
<1> QED
  BY <1>1, <1>2, TIdle

LEMMA TListenGood == ASSUME TGood, TListen PROVE TGood'
<1>1. BenchTypes /\ UNCHANGED <<opt, c, descs, partial, pool, wire, backlog, closed>>
  BY DEF TGood, Sound, TListen
<1>2. s' = [s EXCEPT !.at = "poll"] /\ ClientStates' = ClientStates
  BY <1>1 DEF TListen, ClientStates
<1>3. s' \in ServerStates /\ s'.at = "poll"
  BY <1>1, <1>2 DEF BenchTypes, ServerStates
<1>4. BenchTypes'
  BY <1>1, <1>2, <1>3 DEF BenchTypes
<1> QED
  BY <1>1, <1>4, TServerIdle

LEMMA TServerPollGood == ASSUME TGood, TServerPoll PROVE TGood'
<1>1. BenchTypes /\ UNCHANGED <<opt, c, descs, partial, pool, wire, backlog, closed>>
  BY DEF TGood, Sound, TServerPoll
<1>2. s' = [s EXCEPT !.at = "scan", !.i = 1, !.ready = Polled] /\ ClientStates' = ClientStates
  BY <1>1 DEF TServerPoll, ClientStates
<1>3. s \in ServerStates /\ s.socks \in Seq(Conns)
  BY <1>1 DEF BenchTypes, ServerStates
<1>4. Len(s.socks) \in Nat
  BY <1>3, LenProperties
<1>5. Polled \in SUBSET Nat /\ (0 \in Polled => backlog # << >>)
  BY <1>4 DEF Polled
<1>6. s' \in ServerStates /\ s'.ready = Polled
  <2>1. PICK P \in SUBSET Nat : P = Polled
    BY <1>5
  <2>2. 1 \in Nat \ {0} /\ s' = [s EXCEPT !.at = "scan", !.i = 1, !.ready = P]
    BY <1>2, <2>1
  <2> QED
    BY <1>3, <2>1, <2>2 DEF ServerStates
<1>7. BenchTypes'
  BY <1>1, <1>2, <1>5, <1>6 DEF BenchTypes
<1> QED
  BY <1>1, <1>7, TServerIdle

LEMMA TAcceptGood == ASSUME TGood, TAccept PROVE TGood'
<1>1. BenchTypes /\ UNCHANGED <<opt, c, descs, partial, pool, wire>>
  BY DEF TGood, Sound, TAccept
<1>2. /\ s \in ServerStates
      /\ backlog \in Seq(Conns) /\ s.at = "scan" /\ (0 \in s.ready => backlog # << >>) /\ s.socks \in Seq(Conns)
  BY <1>1 DEF BenchTypes, ServerStates, TAccept
<1>3. Joined \in Seq(Conns)
  <2>1. CASE 0 \in s.ready
    <3>1. Head(backlog) \in Conns
      BY <1>2, <2>1, HeadTailProperties
    <3>2. <<Head(backlog)>> \in Seq(Conns)
      BY <3>1
    <3> QED
      BY <1>2, <2>1, <3>2, ConcatProperties DEF Joined
  <2>2. CASE 0 \notin s.ready
    <3>1. << >> \in Seq(Conns)
      BY EmptySeq
    <3> QED
      BY <1>2, <2>2, <3>1, ConcatProperties DEF Joined
  <2> QED
    BY <2>1, <2>2
<1>4. backlog' \in Seq(Conns)
  <2>1. CASE 0 \in s.ready
    BY <1>2, <2>1, HeadTailProperties DEF TAccept
  <2>2. CASE 0 \notin s.ready
    BY <1>2, <2>2 DEF TAccept
  <2> QED
    BY <2>1, <2>2
<1>5. PICK at \in {"poll", "done"}, started \in BOOLEAN :
        s' = [s EXCEPT !.socks = Joined, !.started = started, !.at = at]
  <2>1. (s.started \/ 0 \in s.ready) \in BOOLEAN
    OBVIOUS
  <2> QED
    BY <2>1 DEF TAccept
<1>6. s' \in ServerStates /\ s'.at # "scan"
  BY <1>2, <1>3, <1>5 DEF ServerStates
<1>7. ClientStates' = ClientStates
  BY <1>1 DEF ClientStates
<1>8. BenchTypes'
  BY <1>1, <1>4, <1>6, <1>7 DEF BenchTypes
<1> QED
  BY <1>1, <1>8, TServerIdle

-----------------------------------------------------------------------------
(* Connecting *)

\* As many buffers as a line has descriptors.
LEMMA DistinctCount ==
  ASSUME NEW q \in Seq(Buffers), Distinct(q)
  PROVE  IsFiniteSet(Elems(q)) /\ Cardinality(Elems(q)) = Len(q)
<1>1. PICK n \in Nat : n = Len(q)
  BY LenProperties
<1>2. PICK S : S = 1 .. n
  OBVIOUS
<1>3. PICK T : T = Elems(q)
  OBVIOUS
<1>4. PICK f : f = [i \in S |-> q[i]]
  OBVIOUS
<1>5. T = {q[i] : i \in S} /\ \A i, j \in S : q[i] = q[j] => i = j
  BY <1>1, <1>2, <1>3 DEF Elems, Distinct
<1>6. f \in Surjection(S, T) /\ f \in Injection(S, T)
  BY <1>4, <1>5 DEF Surjection, Injection, IsInjective
<1>7. 1 \in Int /\ n \in Int /\ (IF 1 > n THEN 0 ELSE n - 1 + 1) = n
  OBVIOUS
<1>8. IsFiniteSet(S) /\ Cardinality(S) = n
  BY <1>2, <1>7, FS_Interval
<1>9. IsFiniteSet(T) /\ Cardinality(T) = Cardinality(S)
  BY <1>6, <1>8, FS_Surjection
<1> QED
  BY <1>1, <1>3, <1>8, <1>9

\* Buffers of the pool that come to no line are lost.
LEMMA Forgotten ==
  ASSUME NEW L, NEW p, NEW n \in Nat, Apart(L, p, n), 1 .. n \subseteq Buffers, NEW M, NEW q,
         \A z \in Spots : M[z] = L[z], NEW E, E \subseteq Free(p), Free(q) = Free(p) \ E,
         \A b \in Buffers : q[b] \in {0, 1}, IsFiniteSet(E)
  PROVE  /\ Apart(M, q, n)
         /\ IsFiniteSet(Stray(L, p, n))
         /\ Cardinality(Stray(M, q, n)) = Cardinality(Stray(L, p, n)) + Cardinality(E)
<1>1. /\ \A x \in Spots : L[x] \in Seq(Buffers) /\ Distinct(L[x]) /\ Elems(L[x]) \subseteq 1 .. n
      /\ Free(p) \subseteq 1 .. n
      /\ \A x, y \in Spots : x # y => Elems(L[x]) \cap Elems(L[y]) = {}
      /\ \A x \in Spots : Elems(L[x]) \cap Free(p) = {}
  BY DEF Apart
<1>2. Apart(M, q, n)
  <2>1. \A x \in Spots : M[x] \in Seq(Buffers) /\ Distinct(M[x]) /\ Elems(M[x]) \subseteq 1 .. n
    BY <1>1
  <2>2. \A x, y \in Spots : x # y => Elems(M[x]) \cap Elems(M[y]) = {}
    BY <1>1
  <2>3. Free(q) \subseteq 1 .. n /\ \A x \in Spots : Elems(M[x]) \cap Free(q) = {}
    BY <1>1
  <2> QED
    BY <2>1, <2>2, <2>3 DEF Apart
<1>3. PICK A : A = Stray(L, p, n)
  OBVIOUS
<1>4. PICK B : B = Stray(M, q, n)
  OBVIOUS
<1>5. A \subseteq 1 .. n /\ A \cap E = {}
  BY <1>3 DEF Stray
<1>6. B = A \cup E
  <2>1. \A b \in 1 .. n : (\A x \in Spots : b \notin Elems(M[x])) <=> (\A x \in Spots : b \notin Elems(L[x]))
    OBVIOUS
  <2>2. \A b \in E : b \in 1 .. n /\ \A x \in Spots : b \notin Elems(L[x])
    BY <1>1
  <2>3. \A b \in 1 .. n : b \in A <=> b \notin Free(p) /\ \A x \in Spots : b \notin Elems(L[x])
    BY <1>3 DEF Stray
  <2>4. \A b \in 1 .. n : b \in B <=> b \notin Free(q) /\ \A x \in Spots : b \notin Elems(M[x])
    BY <1>4 DEF Stray
  <2>5. B \subseteq 1 .. n
    BY <1>4 DEF Stray
  <2>6. \A b \in 1 .. n : b \in B <=> b \in A \cup E
    BY <2>1, <2>2, <2>3, <2>4
  <2> QED
    BY <1>5, <2>2, <2>5, <2>6
<1>7. IsFiniteSet(A)
  <2>1. IsFiniteSet(1 .. n) /\ A \in SUBSET (1 .. n)
    BY <1>5, FS_Interval
  <2> QED
    BY <2>1, FS_Subset
<1>8. Cardinality(B) = Cardinality(A) + Cardinality(E)
  <2>1. Cardinality(A \cup E) = Cardinality(A) + Cardinality(E) - Cardinality(A \cap E)
    BY <1>7, FS_Union
  <2>2. Cardinality(A \cap E) = 0
    BY <1>5, FS_EmptySet
  <2>3. Cardinality(A) \in Nat /\ Cardinality(E) \in Nat
    BY <1>7, FS_CardinalityType
  <2>4. PICK u \in Nat : u = Cardinality(A)
    BY <2>3
  <2>5. PICK v \in Nat : v = Cardinality(E)
    BY <2>3
  <2>6. Cardinality(B) = u + v - 0
    BY <1>6, <2>1, <2>2, <2>4, <2>5
  <2> QED
    BY <2>4, <2>5, <2>6
<1> QED
  BY <1>2, <1>3, <1>4, <1>7, <1>8

\* Buffers that a connecting client keeps in descs[k], or forgets.
LEMMA GetLines ==
  ASSUME Sound, NEW k \in Conns, NEW m \in Nat, CanGet(m), NEW g, g = Got(m),
         UNCHANGED <<opt, partial, wire>>, pool' = Without(g), descs' = [descs EXCEPT ![k] = g],
         OwnLen(k) = 0, OwnLen(k)' \in {0, m},
         \A j \in Conns : j # k => OwnLen(j)' = OwnLen(j)
  PROVE  /\ Apart(Lines, pool, opt.buffers)'
         /\ descs' \in [Conns -> Seq(Buffers)] /\ Len(descs'[k]) = m
         /\ OwnLen(k)' = m /\ m # 0 =>
              Stray(Lines, pool, opt.buffers)' = Stray(Lines, pool, opt.buffers)
         /\ OwnLen(k)' = 0 =>
              /\ IsFiniteSet(Stray(Lines, pool, opt.buffers))
              /\ Cardinality(Stray(Lines, pool, opt.buffers)')
                   = Cardinality(Stray(Lines, pool, opt.buffers)) + m
<1>1. /\ Apart(Lines, pool, opt.buffers) /\ opt \in Options /\ descs \in [Conns -> Seq(Buffers)]
  BY DEF Sound, BenchTypes
<1>2. \A b \in Buffers : pool[b] \in {0, 1}
  BY ApartFacts
<1>3. /\ g \in Seq(Buffers) /\ Len(g) = m /\ Distinct(g) /\ Elems(g) \subseteq Free(pool)
      /\ \A b \in Buffers : Without(g)[b] \in {0, 1}
      /\ Free(Without(g)) = Free(pool) \ Elems(g)
  BY <1>2, GotFree
<1>4. /\ \A b \in Buffers : pool'[b] \in {0, 1}
      /\ Free(pool') = Free(pool) \ Elems(g)
  BY <1>3
<1>5. descs' \in [Conns -> Seq(Buffers)] /\ descs'[k] = g /\ \A j \in Conns : j # k => descs'[j] = descs[j]
  BY <1>1, <1>3
<1>6. PICK x \in Spots : x = <<"own", k>>
  BY SpotsAre
<1>7. Kept(x, x)
  BY <1>5, <1>6 DEF Kept
<1>8. Lines[x] = << >> /\ Elems(Lines[x]) = {}
  BY <1>6, LinesAt, NoElems DEF LinesAre
<1>9. CASE OwnLen(k)' = m /\ m # 0
  <2>1. Lines'[x] = SubSeq(descs'[k], 1, OwnLen(k)')
    BY <1>6, LinesAtNext DEF LinesAre
  <2>2. Lines'[x] = SubSeq(g, 1, Len(g))
    BY <1>3, <1>5, <1>9, <2>1
  <2>3. Lines'[x] = g
    BY <1>3, <2>2, SubSeqFull
  <2>4. /\ Lines'[x] \in Seq(Buffers) /\ Distinct(Lines'[x]) /\ Elems(Lines'[x]) \cap Free(pool') = {}
        /\ Elems(Lines'[x]) \cup Elems(Lines'[x]) \cup Free(pool')
             = Elems(Lines[x]) \cup Elems(Lines[x]) \cup Free(pool)
    BY <1>3, <1>4, <1>8, <2>3
  <2>5. /\ Apart(Lines, pool, opt.buffers)'
        /\ Stray(Lines, pool, opt.buffers)' = Stray(Lines, pool, opt.buffers)
    BY <1>1, <1>4, <1>7, <2>4, Exchange
  <2> QED
    BY <1>3, <1>5, <1>9, <2>5
<1>10. CASE OwnLen(k)' = 0
  <2>1. Lines'[x] = Lines[x]
    BY <1>6, <1>8, <1>10, LinesAtNext DEF LinesAre
  <2>2. PICK L : L = Lines
    OBVIOUS
  <2>3. PICK M : M = Lines'
    OBVIOUS
  <2>4. PICK p : p = pool
    OBVIOUS
  <2>5. PICK q : q = pool'
    OBVIOUS
  <2>6. PICK n \in Nat : n = opt.buffers /\ n = opt'.buffers /\ 1 .. n \subseteq Buffers
    BY <1>1, OptionFacts
  <2>7. \A z \in Spots : M[z] = L[z]
    BY <1>7, <2>1, <2>2, <2>3, KeptLines
  <2>8. PICK E : E = Elems(g)
    OBVIOUS
  <2>9. IsFiniteSet(E) /\ Cardinality(E) = m
    BY <1>3, <2>8, DistinctCount
  <2>10. Apart(L, p, n) /\ E \subseteq Free(p) /\ Free(q) = Free(p) \ E /\ \A b \in Buffers : q[b] \in {0, 1}
    BY <1>1, <1>3, <1>4, <2>2, <2>4, <2>5, <2>6, <2>8
  <2>11. /\ Apart(M, q, n)
         /\ IsFiniteSet(Stray(L, p, n))
         /\ Cardinality(Stray(M, q, n)) = Cardinality(Stray(L, p, n)) + Cardinality(E)
    BY <2>6, <2>7, <2>9, <2>10, Forgotten
  <2>12. Apart(Lines, pool, opt.buffers)' /\ IsFiniteSet(Stray(Lines, pool, opt.buffers))
    BY <2>2, <2>3, <2>4, <2>5, <2>6, <2>11
  <2>13. Cardinality(Stray(Lines, pool, opt.buffers)') = Cardinality(Stray(Lines, pool, opt.buffers)) + m
    BY <2>2, <2>3, <2>4, <2>5, <2>6, <2>9, <2>11
  <2> QED
    BY <1>3, <1>5, <1>10, <2>12, <2>13
<1> QED
  BY <1>9, <1>10

LEMMA TConnectGood ==
  ASSUME TGood, opt.prog = "throughput", TConnect PROVE TGood'
<1>1. /\ Sound /\ BenchTypes /\ opt \in Options /\ c \in ClientStates /\ c.at = "connect"
      /\ wire \in Wires /\ descs \in [Conns -> Seq(Buffers)] /\ backlog \in Seq(Conns)
  BY DEF TGood, Sound, BenchTypes, TConnect
<1>2. TAt /\ (NAnswer <= ndescs => TInv)
  BY <1>1 DEF TGood, Running
<1>3. c.i \in 1 .. opt.conns /\ c.i \in Nat /\ opt.conns \in Nat \ {0}
  BY <1>1, <1>2, OptionFacts DEF TAt
<1>4. PICK k \in Conns : k = c.i /\ k \in Nat \ {0}
  BY <1>1, <1>3, ConnIs
<1>5. UNCHANGED <<opt, s, partial, wire>>
  BY DEF TConnect
<1>6. \A b \in Buffers : pool[b] \in {0, 1}
  BY <1>1, ApartFacts
<1>7. Append(backlog, k) \in Seq(Conns) /\ Append(backlog, k) # << >>
  BY <1>1, AppendProperties
<1>8. CASE ~Listening
  <2>1. c' = [c EXCEPT !.at = "refused"] /\ UNCHANGED <<backlog, descs, pool>>
    BY <1>8 DEF TConnect, Refused
  <2>2. Sound' /\ ~Running'
    BY <1>1, <1>5, <1>6, <2>1, ClientGone
  <2> QED
    BY <2>2 DEF TGood
<1>9. CASE Listening /\ ~CanGet(ndescs)
  <2>1. c' = [c EXCEPT !.at = "exit"] /\ UNCHANGED <<descs, pool>> /\ backlog' = Append(backlog, k)
    BY <1>4, <1>9 DEF TConnect, CExit
  <2>2. backlog' \in Seq(Conns) /\ backlog' # << >>
    BY <1>7, <2>1
  <2>3. /\ descs' \in [Conns -> Seq(Buffers)] /\ Free(pool') \subseteq Free(pool)
        /\ \A b \in Buffers : pool'[b] \in {0, 1}
    BY <1>1, <1>6, <2>1
  <2>4. Sound' /\ ~Running'
    BY <1>1, <1>5, <2>1, <2>2, <2>3, ClientGone
  <2> QED
    BY <2>4 DEF TGood
<1>10. CASE Listening /\ CanGet(ndescs)
  <2>1. PICK g : g = Got(ndescs)
    OBVIOUS
  <2>2. /\ descs' = [descs EXCEPT ![k] = g] /\ pool' = Without(g) /\ backlog' = Append(backlog, k)
        /\ c' = IF c.i < opt.conns THEN [c EXCEPT !.i = @ + 1] ELSE [c EXCEPT !.at = "send", !.i = 1]
    BY <1>4, <1>10, <2>1 DEF TConnect
  <2>3. c' \in ClientStates
    <3>1. c.i + 1 \in Nat
      BY <1>3
    <3>2. [c EXCEPT !.i = @ + 1] \in ClientStates
      BY <1>1, <3>1 DEF ClientStates
    <3>3. [c EXCEPT !.at = "send", !.i = 1] \in ClientStates
      BY <1>1 DEF ClientStates
    <3> QED
      BY <2>2, <3>2, <3>3
  <2>4. \/ c'.at = "connect" /\ c'.i = c.i + 1 /\ c.i < opt.conns
        \/ c'.at = "send" /\ c'.i = 1 /\ c.i = opt.conns
    BY <1>1, <1>3, <2>2 DEF ClientStates
  <2>5. ndescs' = ndescs /\ NAnswer' = NAnswer /\ ndescs \in Nat \ {0}
    BY <1>1, <1>5, SameOptions, MessageFacts
  <2>6. \A j \in Conns : j \in Nat \ {0}
    BY <1>1, ConnIs
  <2>7. /\ OwnLen(k) = 0 /\ OwnLen(k)' = IF opt.reuse THEN ndescs ELSE 0
        /\ \A j \in Conns : j # k => OwnLen(j)' = OwnLen(j)
    <3>1. CASE c'.at = "connect" /\ c'.i = c.i + 1 /\ c.i < opt.conns
      BY <1>1, <1>3, <1>4, <1>5, <2>5, <2>6, <3>1 DEF OwnLen
    <3>2. CASE c'.at = "send" /\ c'.i = 1 /\ c.i = opt.conns
      <4>1. \A j \in Conns : j \in 1 .. opt.conns <=> j = k \/ j < c.i
        BY <1>3, <1>4, <2>6, <3>2
      <4>2. \A j \in Conns : OwnLen(j) = IF opt.reuse /\ j < c.i THEN ndescs ELSE 0
        BY <1>1 DEF OwnLen
      <4>3. \A j \in Conns : OwnLen(j)' = IF opt.reuse /\ j \in 1 .. opt.conns THEN ndescs ELSE 0
        BY <1>1, <1>5, <2>5, <3>2 DEF OwnLen
      <4>4. ~(k < c.i)
        BY <1>4
      <4> QED
        BY <4>1, <4>2, <4>3, <4>4
    <3> QED
      BY <2>4, <3>1, <3>2
  <2>8. /\ Apart(Lines, pool, opt.buffers)'
        /\ descs' \in [Conns -> Seq(Buffers)] /\ Len(descs'[k]) = ndescs
        /\ OwnLen(k)' = ndescs /\ ndescs # 0 =>
             Stray(Lines, pool, opt.buffers)' = Stray(Lines, pool, opt.buffers)
        /\ OwnLen(k)' = 0 =>
             /\ IsFiniteSet(Stray(Lines, pool, opt.buffers))
             /\ Cardinality(Stray(Lines, pool, opt.buffers)')
                  = Cardinality(Stray(Lines, pool, opt.buffers)) + ndescs
    <3>1. PICK m \in Nat : m = ndescs
      BY <2>5
    <3>2. OwnLen(k)' \in {0, m} /\ CanGet(m) /\ g = Got(m)
      BY <1>10, <2>1, <2>7, <3>1
    <3>3. /\ Apart(Lines, pool, opt.buffers)'
          /\ descs' \in [Conns -> Seq(Buffers)] /\ Len(descs'[k]) = m
          /\ OwnLen(k)' = m /\ m # 0 =>
               Stray(Lines, pool, opt.buffers)' = Stray(Lines, pool, opt.buffers)
          /\ OwnLen(k)' = 0 =>
               /\ IsFiniteSet(Stray(Lines, pool, opt.buffers))
               /\ Cardinality(Stray(Lines, pool, opt.buffers)')
                    = Cardinality(Stray(Lines, pool, opt.buffers)) + m
      BY <1>1, <1>5, <2>2, <2>7, <3>2, GetLines
    <3> QED
      BY <3>1, <3>3
  <2>9. BenchTypes'
    <3>1. ClientStates' = ClientStates
      BY <1>5 DEF ClientStates
    <3> QED
      BY <1>1, <1>5, <1>7, <2>2, <2>3, <2>8, <3>1 DEF BenchTypes
  <2>10. Sound'
    BY <2>8, <2>9 DEF Sound
  <2>11. TAt'
    BY <1>3, <1>5, <2>4 DEF TAt
  <2>12. ASSUME NAnswer' <= ndescs' PROVE TInv'
    <3>1. TInv
      BY <1>2, <2>5, <2>12
    <3>2. \A j \in Conns : ~Awaits(j) /\ ~Awaits(j)' /\ (Quiet(j)' <=> Quiet(j))
      BY <1>1, <1>5, <2>4, <2>6 DEF Awaits, Quiet
    <3>3. \A j \in Conns : TLine(j)'
      BY <3>1, <3>2 DEF TInv, TLine
    <3>4. Connected = c.i - 1 /\ Connected' = c.i
      <4>1. Connected = c.i - 1
        BY <1>1 DEF Connected
      <4>2. CASE c'.at = "connect" /\ c'.i = c.i + 1
        <5>1. PICK i \in Nat : i = c.i
          BY <1>3
        <5>2. Connected' = c'.i - 1 /\ c'.i = i + 1 /\ (i + 1) - 1 = i
          BY <4>2, <5>1 DEF Connected
        <5> QED
          BY <4>1, <5>1, <5>2
      <4>3. CASE c'.at = "send" /\ c.i = opt.conns
        BY <1>5, <4>1, <4>3 DEF Connected
      <4> QED
        BY <2>4, <4>2, <4>3
    <3>5. TDescs'
      <4>1. TDescs /\ \A j \in Conns : j # k => descs'[j] = descs[j]
        BY <1>1, <2>2, <3>1 DEF TInv
      <4>2. \A j \in Conns : opt.reuse /\ j <= c.i - 1 => Len(descs[j]) = ndescs
        BY <1>1, <3>4, <4>1 DEF TDescs
      <4>3. \A j \in Conns : j <= c.i => j = k \/ j <= c.i - 1
        BY <1>4, <2>6
      <4>4. \A j \in Conns : opt.reuse /\ j <= c.i => Len(descs'[j]) = ndescs
        BY <1>4, <2>8, <4>1, <4>2, <4>3
      <4> QED
        BY <1>5, <2>5, <3>4, <4>4 DEF TDescs
    <3>6. PICK S : S = Stray(Lines, pool, opt.buffers)
      OBVIOUS
    <3>7. PICK T : T = Stray(Lines, pool, opt.buffers)'
      OBVIOUS
    <3>8. Cardinality(S) = IF opt.reuse THEN 0 ELSE (c.i - 1) * ndescs
      BY <3>1, <3>2, <3>4, <3>6 DEF TInv, TStray
    <3>9. Cardinality(T) = IF opt.reuse THEN 0 ELSE c.i * ndescs
      <4>1. CASE opt.reuse
        BY <2>5, <2>7, <2>8, <3>6, <3>7, <3>8, <4>1
      <4>2. CASE ~opt.reuse
        <5>1. Cardinality(T) = Cardinality(S) + ndescs /\ Cardinality(S) = (c.i - 1) * ndescs
          BY <2>7, <2>8, <3>6, <3>7, <3>8, <4>2
        <5>2. \A u, v \in Nat : (u - 1) * v + v = u * v
          OBVIOUS
        <5> QED
          BY <1>3, <2>5, <4>2, <5>1, <5>2
      <4> QED
        BY <4>1, <4>2
    <3>10. TStray'
      BY <1>5, <2>5, <3>4, <3>7, <3>9 DEF TStray
    <3> QED
      BY <3>3, <3>5, <3>10 DEF TInv
  <2> QED
    BY <2>10, <2>11, <2>12 DEF TGood
<1> QED
  BY <1>8, <1>9, <1>10

-----------------------------------------------------------------------------
(* Answers *)

\* An answer takes the buffers of the request, and exchanges others with the pool.
Answered(ds, a, p) ==
  /\ a \in Seq(Desc) /\ Len(a) = NSend(Len(ds)) /\ Bufs(a) \in Seq(Buffers) /\ Distinct(Bufs(a))
  /\ \A b \in Buffers : p[b] \in {0, 1}
  /\ Elems(Bufs(a)) \cap Free(p) = {}
  /\ Elems(Bufs(a)) \cup Free(p) = Elems(Bufs(ds)) \cup Free(pool)
  /\ NSend(Len(ds)) = Len(ds) => Bufs(a) = Bufs(ds)

LEMMA AnswerFacts ==
  ASSUME opt \in Options, NEW ds \in Seq(Desc), ds # << >>, Distinct(Bufs(ds)), CanAnswer(ds),
         \A b \in Buffers : pool[b] \in {0, 1}, Elems(Bufs(ds)) \cap Free(pool) = {},
         NEW a, a = Answer(ds), NEW p, p = AnswerPool(ds)
  PROVE  Answered(ds, a, p)
<1>1. PICK n \in Nat \ {0} : n = Len(ds)
  BY EmptySeq, LenProperties
<1>2. PICK m \in Nat \ {0} : m = NSend(n)
  BY <1>1, MessageFacts
<1>3. PICK q \in Seq(Buffers) : q = Bufs(ds) /\ Len(q) = n /\ Distinct(q)
  BY <1>1, BufsFacts
<1>4. opt.ssize \in Nat \ {0} /\ (~opt.shttp => m = n)
  BY <1>2, OptionFacts DEF NSend
<1>5. Elems(q) \cap Free(pool) = {}
  BY <1>3
<1>6. CASE m > n
  <2>1. opt.shttp
    BY <1>1, <1>2, <1>4, <1>6
  <2>2. PICK d \in Nat \ {0} : d = m - n
    BY <1>1, <1>2, <1>6
  <2>3. PICK g : g = Got(d)
    OBVIOUS
  <2>4. CanGet(d)
    BY <1>1, <1>2, <1>6, <2>2 DEF CanAnswer
  <2>5. d \in Nat
    OBVIOUS
  <2>6. /\ g \in Seq(Buffers) /\ Len(g) = d /\ Distinct(g) /\ Elems(g) \subseteq Free(pool)
        /\ \A b \in Buffers : Without(g)[b] \in {0, 1}
        /\ Free(Without(g)) = Free(pool) \ Elems(g)
    BY <2>3, <2>4, <2>5, GotFree
  <2>7. PICK r : r = q \o g
    OBVIOUS
  <2>8. a = Sized(r, opt.ssize) /\ p = Without(g)
    BY <1>1, <1>2, <1>3, <1>6, <2>1, <2>2, <2>3, <2>7 DEF Answer, AnswerPool
  <2>9. Elems(q) \cap Elems(g) = {}
    BY <1>5, <2>6
  <2>10. r \in Seq(Buffers) /\ Len(r) = Len(q) + Len(g) /\ Elems(r) = Elems(q) \cup Elems(g) /\ Distinct(r)
    BY <1>3, <2>6, <2>7, <2>9, ElemsJoin
  <2>11. Len(r) = m
    BY <1>1, <1>2, <1>3, <2>2, <2>6, <2>10
  <2>12. a \in Seq(Desc) /\ Len(a) = Len(r) /\ Bufs(a) = r
    BY <1>4, <2>8, <2>10, SizedFacts
  <2>13. Elems(r) \cap Free(p) = {} /\ Elems(r) \cup Free(p) = Elems(q) \cup Free(pool)
    BY <1>5, <2>6, <2>8, <2>10
  <2>14. m # n
    BY <1>1, <1>2, <1>6
  <2>15. \A b \in Buffers : p[b] \in {0, 1}
    BY <2>6, <2>8
  <2> QED
    BY <1>1, <1>2, <1>3, <2>10, <2>11, <2>12, <2>13, <2>14, <2>15 DEF Answered
<1>7. CASE ~(m > n)
  <2>1. m \in Nat /\ m <= n
    BY <1>1, <1>2, <1>7
  <2>2. PICK e : e = SubSeq(q, 1, m)
    OBVIOUS
  <2>3. PICK f : f = SubSeq(q, m + 1, Len(q))
    OBVIOUS
  <2>4. Parts(q, e, f) /\ Len(e) = m
    BY <1>3, <2>1, <2>2, <2>3, CutParts
  <2>5. /\ e \in Seq(Buffers) /\ f \in Seq(Buffers) /\ Elems(e) \cup Elems(f) = Elems(q)
        /\ Distinct(e) /\ Distinct(f) /\ Elems(e) \cap Elems(f) = {}
    BY <1>3, <2>4 DEF Parts
  <2>6. Bufs(Drop(ds, m)) = f
    <3>1. PICK h \in Nat \ {0} : h = m + 1
      BY <2>1
    <3>2. n \in Nat /\ n <= Len(ds) /\ h <= n + 1
      BY <1>1, <2>1, <3>1
    <3>3. Bufs(SubSeq(ds, h, n)) = SubSeq(Bufs(ds), h, n)
      BY <3>2, BufsSubSeq
    <3>4. Drop(ds, m) = SubSeq(ds, h, n)
      BY <1>1, <3>1 DEF Drop
    <3> QED
      BY <1>3, <2>3, <3>1, <3>3, <3>4
  <2>7. p = With(f)
    BY <1>1, <1>2, <1>7, <2>6 DEF AnswerPool
  <2>8. Elems(f) \cap Free(pool) = {} /\ Elems(e) \cap Free(pool) = {}
    BY <1>5, <2>5
  <2>9. (\A b \in Buffers : p[b] \in {0, 1}) /\ Free(p) = Free(pool) \cup Elems(f)
    BY <2>5, <2>7, <2>8, WithFree
  <2>10. m = n => e = q
    BY <1>3, <2>2, SubSeqFull
  <2>11. a \in Seq(Desc) /\ Len(a) = m /\ Bufs(a) = e
    <3>1. CASE opt.shttp
      <4>1. a = Sized(e, opt.ssize)
        BY <1>1, <1>2, <1>3, <1>7, <2>2, <3>1 DEF Answer
      <4> QED
        BY <1>4, <2>4, <2>5, <4>1, SizedFacts
    <3>2. CASE ~opt.shttp
      <4>1. a = ds
        BY <3>2 DEF Answer
      <4> QED
        BY <1>1, <1>3, <1>4, <2>10, <3>2, <4>1
    <3> QED
      BY <3>1, <3>2
  <2>12. Elems(e) \cap Free(p) = {} /\ Elems(e) \cup Free(p) = Elems(q) \cup Free(pool)
    BY <2>5, <2>8, <2>9
  <2> QED
    BY <1>1, <1>2, <1>3, <2>5, <2>9, <2>10, <2>11, <2>12 DEF Answered
<1> QED
  BY <1>6, <1>7

\* The server takes a request and answers it.
LEMMA ServeLines ==
  ASSUME Sound, NEW k \in Conns, NEW ds, ds = wire["server"][k], ds # << >>, CanAnswer(ds),
         UNCHANGED <<opt, c, descs, partial>>, pool' = AnswerPool(ds),
         wire' = Sent(Put(wire, "server", k, << >>), "server", k, Answer(ds))
  PROVE  /\ Apart(Lines, pool, opt.buffers)'
         /\ Stray(Lines, pool, opt.buffers)' = Stray(Lines, pool, opt.buffers)
         /\ wire' \in Wires /\ wire'["server"][k] = << >>
         /\ Len(wire'["client"][k]) = Len(wire["client"][k]) + NSend(Len(ds))
         /\ wire["client"][k] = << >> /\ NSend(Len(ds)) = Len(ds) => Bufs(wire'["client"][k]) = Bufs(ds)
         /\ \A j \in Conns : j # k => /\ wire'["client"][j] = wire["client"][j]
                                      /\ wire'["server"][j] = wire["server"][j]
<1>1. Apart(Lines, pool, opt.buffers) /\ opt \in Options /\ wire \in Wires
  BY DEF Sound, BenchTypes
<1>2. /\ \A x \in Spots : Lines[x] \in Seq(Buffers) /\ Distinct(Lines[x])
      /\ \A b \in Buffers : pool[b] \in {0, 1}
      /\ \A x, y \in Spots : x # y => Elems(Lines[x]) \cap Elems(Lines[y]) = {}
      /\ \A x \in Spots : Elems(Lines[x]) \cap Free(pool) = {}
  BY ApartFacts
<1>3. PICK x \in Spots : x = <<"server", k>>
  BY SpotsAre
<1>4. PICK y \in Spots : y = <<"client", k>>
  BY SpotsAre
<1>5. ds \in Seq(Desc) /\ Lines[x] = Bufs(ds) /\ Lines[y] = Bufs(wire["client"][k])
  BY <1>1, <1>3, <1>4, WireAt, PeersAre, LinesAt DEF LinesAre
<1>6. PICK a : a = Answer(ds)
  OBVIOUS
<1>7. PICK p : p = AnswerPool(ds)
  OBVIOUS
<1>8. Answered(ds, a, p)
  <2>1. Distinct(Bufs(ds)) /\ Elems(Bufs(ds)) \cap Free(pool) = {} /\ \A b \in Buffers : pool[b] \in {0, 1}
    BY <1>2, <1>5
  <2> QED
    BY <1>1, <1>5, <1>6, <1>7, <2>1, AnswerFacts
<1>9. /\ a \in Seq(Desc) /\ Len(a) = NSend(Len(ds)) /\ Bufs(a) \in Seq(Buffers) /\ Distinct(Bufs(a))
      /\ \A b \in Buffers : p[b] \in {0, 1}
      /\ Elems(Bufs(a)) \cap Free(p) = {}
      /\ Elems(Bufs(a)) \cup Free(p) = Elems(Bufs(ds)) \cup Free(pool)
      /\ NSend(Len(ds)) = Len(ds) => Bufs(a) = Bufs(ds)
  BY <1>8 DEF Answered
<1>10. PICK v : v = Put(wire, "server", k, << >>)
  OBVIOUS
<1>11. v \in Wires /\ v["server"][k] = << >> /\ \A f \in Ends, j \in Conns : f # "server" \/ j # k => v[f][j] = wire[f][j]
  <2>1. << >> \in Seq(Desc)
    BY EmptySeq
  <2>2. Replaced(wire, v, "server", k, << >>)
    BY <1>1, <1>10, <2>1, PutAt, PeersAre
  <2> QED
    BY <2>2 DEF Replaced
<1>12. PICK w : w = wire'
  OBVIOUS
<1>13. Extended(v, w, "client", k, a)
  <2>1. w = Sent(v, "server", k, a)
    BY <1>6, <1>10, <1>12
  <2> QED
    BY <1>9, <1>11, <2>1, ServerSent
<1>14. /\ w \in Wires
       /\ Bufs(w["client"][k]) = Bufs(v["client"][k]) \o Bufs(a)
       /\ Len(w["client"][k]) = Len(v["client"][k]) + Len(a)
       /\ \A f \in Ends, j \in Conns : f # "client" \/ j # k => w[f][j] = v[f][j]
  BY <1>13 DEF Extended
<1>15. /\ v["client"][k] = wire["client"][k] /\ w["server"][k] = << >>
       /\ \A j \in Conns : j # k => w["client"][j] = wire["client"][j] /\ w["server"][j] = wire["server"][j]
  BY <1>11, <1>14, PeersAre
<1>16. Kept(x, y)
  <2>1. \A j \in Conns : j # k => wire'["client"][j] = wire["client"][j] /\ wire'["server"][j] = wire["server"][j]
    BY <1>12, <1>15
  <2>2. \A j \in Conns : OwnLen(j)' = OwnLen(j)
    BY DEF OwnLen, ndescs, NextReady
  <2> QED
    BY <1>3, <1>4, <2>1, <2>2 DEF Kept
<1>17. Lines'[x] = << >> /\ Lines'[y] = Lines[y] \o Bufs(a)
  <2>1. Lines'[x] = Bufs(wire'["server"][k]) /\ Lines'[y] = Bufs(wire'["client"][k])
    BY <1>3, <1>4, LinesAtNext DEF LinesAre
  <2>2. Bufs(<< >>) = << >>
    BY BufsFacts, EmptySeq
  <2> QED
    BY <1>5, <1>12, <1>14, <1>15, <2>1, <2>2
<1>18. Elems(Lines[y]) \cap Elems(Bufs(a)) = {} /\ Elems(Lines[y]) \cap Free(p) = {}
  <2>1. Elems(Lines[y]) \cap Elems(Bufs(ds)) = {} /\ Elems(Lines[y]) \cap Free(pool) = {}
    BY <1>2, <1>3, <1>4, <1>5
  <2> QED
    BY <1>9, <2>1
<1>19. Lines'[y] \in Seq(Buffers) /\ Elems(Lines'[y]) = Elems(Lines[y]) \cup Elems(Bufs(a)) /\ Distinct(Lines'[y])
  <2>1. PICK q \in Seq(Buffers) : q = Lines[y] /\ Distinct(q)
    BY <1>2
  <2>2. PICK r \in Seq(Buffers) : r = Bufs(a) /\ Distinct(r)
    BY <1>9
  <2>3. PICK z : z = Lines'[y]
    OBVIOUS
  <2>4. z = q \o r /\ Elems(q) \cap Elems(r) = {}
    BY <1>17, <1>18, <2>1, <2>2, <2>3
  <2>5. z \in Seq(Buffers) /\ Elems(z) = Elems(q) \cup Elems(r) /\ Distinct(z)
    BY <2>1, <2>2, <2>4, ElemsJoin
  <2> QED
    BY <2>1, <2>2, <2>3, <2>5
<1>20. Elems(Lines'[x]) = {} /\ Lines'[x] \in Seq(Buffers) /\ Distinct(Lines'[x])
  BY <1>17, NoElems
<1>21. pool' = p
  BY <1>7
<1>22. /\ Elems(Lines'[y]) \cap Free(pool') = {} /\ Elems(Lines'[x]) \cap Free(pool') = {}
       /\ x # y => Elems(Lines'[x]) \cap Elems(Lines'[y]) = {}
       /\ \A b \in Buffers : pool'[b] \in {0, 1}
  BY <1>9, <1>18, <1>19, <1>20, <1>21
<1>23. Elems(Lines'[x]) \cup Elems(Lines'[y]) \cup Free(pool') = Elems(Lines[x]) \cup Elems(Lines[y]) \cup Free(pool)
  BY <1>5, <1>9, <1>19, <1>20, <1>21
<1>24. /\ Apart(Lines, pool, opt.buffers)'
       /\ Stray(Lines, pool, opt.buffers)' = Stray(Lines, pool, opt.buffers)
  BY <1>1, <1>16, <1>19, <1>20, <1>22, <1>23, Exchange
<1>25. wire["client"][k] = << >> /\ NSend(Len(ds)) = Len(ds) => Bufs(wire'["client"][k]) = Bufs(ds)
  <2>1. Bufs(<< >>) = << >>
    BY BufsFacts, EmptySeq
  <2>2. PICK q \in Seq(Buffers) : q = Bufs(a)
    BY <1>9
  <2>3. << >> \o q = q
    BY ConcatEmptySeq
  <2>4. Bufs(wire'["client"][k]) = Bufs(wire["client"][k]) \o q
    BY <1>12, <1>14, <1>15, <2>2
  <2> QED
    BY <1>9, <2>1, <2>2, <2>3, <2>4
<1> QED
  BY <1>9, <1>12, <1>14, <1>15, <1>24, <1>25

\* The server takes a request and ends, which may lose its buffers.
LEMMA RequestLost ==
  ASSUME Sound, NEW k \in Conns, NEW ds, ds = wire["server"][k],
         UNCHANGED <<opt, c, descs, partial>>, wire' = Put(wire, "server", k, << >>),
         \A b \in Buffers : pool'[b] \in {0, 1}, Free(pool') \subseteq Elems(Bufs(ds)) \cup Free(pool)
  PROVE  /\ Apart(Lines, pool, opt.buffers)'
         /\ wire' \in Wires /\ wire'["server"][k] = << >> /\ wire'["client"][k] = wire["client"][k]
         /\ \A j \in Conns : j # k => /\ wire'["client"][j] = wire["client"][j]
                                      /\ wire'["server"][j] = wire["server"][j]
<1>1. Apart(Lines, pool, opt.buffers) /\ wire \in Wires
  BY DEF Sound, BenchTypes
<1>2. PICK x \in Spots : x = <<"server", k>>
  BY SpotsAre
<1>3. PICK w : w = wire'
  OBVIOUS
<1>4. w \in Wires /\ w["server"][k] = << >> /\ \A f \in Ends, j \in Conns : f # "server" \/ j # k => w[f][j] = wire[f][j]
  <2>1. << >> \in Seq(Desc)
    BY EmptySeq
  <2>2. Replaced(wire, w, "server", k, << >>)
    BY <1>1, <1>3, <2>1, PutAt, PeersAre
  <2> QED
    BY <2>2 DEF Replaced
<1>5. /\ w["client"][k] = wire["client"][k]
      /\ \A j \in Conns : j # k => w["client"][j] = wire["client"][j] /\ w["server"][j] = wire["server"][j]
  BY <1>4, PeersAre
<1>6. KeptOrLost(x, x)
  <2>1. \A j \in Conns : /\ j # k => wire'["server"][j] = wire["server"][j]
                         /\ wire'["client"][j] = wire["client"][j]
    BY <1>3, <1>5
  <2>2. \A j \in Conns : OwnLen(j)' = OwnLen(j)
    BY DEF OwnLen, ndescs, NextReady
  <2> QED
    BY <1>2, <2>1, <2>2 DEF KeptOrLost
<1>7. Lines'[x] = << >> /\ Lines[x] = Bufs(ds)
  <2>1. Bufs(<< >>) = << >>
    BY BufsFacts, EmptySeq
  <2>2. Lines'[x] = Bufs(wire'["server"][k]) /\ Lines[x] = Bufs(wire["server"][k])
    BY <1>2, LinesAt, LinesAtNext DEF LinesAre
  <2> QED
    BY <1>3, <1>4, <2>1, <2>2
<1>8. /\ Lines'[x] \in Seq(Buffers) /\ Distinct(Lines'[x]) /\ Elems(Lines'[x]) \cap Free(pool') = {}
      /\ Elems(Lines'[x]) \cup Elems(Lines'[x]) \cup Free(pool')
           \subseteq Elems(Lines[x]) \cup Elems(Lines[x]) \cup Free(pool)
  BY <1>7, NoElems
<1>9. Apart(Lines, pool, opt.buffers)'
  BY <1>1, <1>6, <1>8, Shrink
<1> QED
  BY <1>3, <1>4, <1>5, <1>9

LEMMA ServingIs ==
  ASSUME s \in ServerStates, ToServe # {}
  PROVE  Serving \in Nat \ {0} /\ Serving \in 1 .. Len(s.socks) /\ s.socks[Serving] \in Conns
<1>1. s.socks \in Seq(Conns) /\ s.ready \in SUBSET Nat /\ s.i \in Nat \ {0} /\ Len(s.socks) \in Nat
  BY LenProperties DEF ServerStates
<1>2. PICK T \in SUBSET (Nat \ {0}) : T = ToServe /\ T \subseteq 1 .. Len(s.socks)
  <2>1. \A i \in ToServe : i \in Nat /\ i >= s.i /\ i <= Len(s.socks)
    BY <1>1 DEF ToServe
  <2>2. \A i \in ToServe : i \in Nat \ {0} /\ i \in 1 .. Len(s.socks)
    BY <1>1, <2>1
  <2> QED
    BY <2>2
<1>3. \E t \in T : \A u \in T : t <= u
  BY <1>2, LeastNat
<1>4. (CHOOSE t \in T : \A u \in T : t <= u) \in T
  BY <1>3
<1>5. Serving \in T
  BY <1>2, <1>4 DEF Serving
<1>6. Serving \in 1 .. Len(s.socks)
  BY <1>2, <1>5
<1> QED
  BY <1>1, <1>2, <1>5, <1>6, ElementOfSeq

\* With what the client awaits gone, nothing is said of the buffers that are nowhere.
LEMMA TLost ==
  ASSUME opt \in Options, TInv, UNCHANGED <<opt, c, descs>>, NEW k \in Conns, Awaits(k),
         wire'["server"][k] = << >>, wire'["client"][k] = << >>,
         \A j \in Conns : j # k => /\ wire'["client"][j] = wire["client"][j]
                                   /\ wire'["server"][j] = wire["server"][j]
  PROVE  TInv'
<1>1. ndescs' = ndescs /\ NAnswer' = NAnswer /\ ndescs # 0
  BY SameOptions, MessageFacts
<1>2. (\A j \in Conns : Awaits(j)' <=> Awaits(j)) /\ Connected' = Connected
  BY DEF Awaits, Connected, NextReady
<1>3. TDescs'
  BY <1>1, <1>2 DEF TInv, TDescs
<1>4. Quiet(k)'
  BY DEF Quiet
<1>5. TLine(k)'
  <2>1. Len(<< >>) = 0
    BY EmptySeq
  <2>2. TOutstanding(k)'
    BY <1>1, <2>1 DEF TOutstanding
  <2> QED
    BY <1>2, <2>2 DEF TLine
<1>6. \A j \in Conns : j # k => TLine(j)'
  BY <1>1, <1>2 DEF TInv, TLine, TOutstanding, Quiet
<1>7. TStray'
  BY <1>2, <1>4 DEF TStray
<1> QED
  BY <1>3, <1>5, <1>6, <1>7 DEF TInv

\* A socket is removed.
LEMMA RemovedIs ==
  ASSUME s \in ServerStates, NEW i \in 1 .. Len(s.socks)
  PROVE  Removed(i) \in ServerStates /\ (0 \in Removed(i).ready => 0 \in s.ready) /\ Removed(i).at = s.at
<1>1. s.socks \in Seq(Conns) /\ s.ready \in SUBSET Nat /\ Len(s.socks) \in Nat
  BY LenProperties DEF ServerStates
<1>2. PICK q \in Seq(Conns) : q = s.socks
  BY <1>1
<1>3. PICK n \in Nat : n = Len(q) /\ i \in Nat \ {0} /\ i <= n
  BY <1>1, <1>2
<1>4. PICK a : a = SubSeq(q, 1, i - 1)
  OBVIOUS
<1>5. PICK b : b = Drop(q, i)
  OBVIOUS
<1>6. a \in Seq(Conns)
  <2>1. PICK j \in Nat : j = i - 1 /\ j <= Len(q) /\ 1 <= j + 1
    BY <1>3
  <2>2. 1 \in Nat \ {0}
    OBVIOUS
  <2> QED
    BY <1>4, <2>1, <2>2, Cutting
<1>7. b \in Seq(Conns)
  <2>1. PICK g \in Nat \ {0} : g = i + 1 /\ g <= n + 1
    BY <1>3
  <2>2. b = SubSeq(q, g, n) /\ n <= Len(q)
    BY <1>3, <1>5, <2>1 DEF Drop
  <2> QED
    BY <2>1, <2>2, Cutting
<1>8. a \o b \in Seq(Conns)
  BY <1>6, <1>7, ConcatProperties
<1>9. PICK R : R = {j \in s.ready : j < i} \cup {j - 1 : j \in {k \in s.ready : k > i}}
  OBVIOUS
<1>10. R \in SUBSET Nat /\ (0 \in R => 0 \in s.ready)
  <2>1. \A j \in s.ready : j > i => j - 1 \in Nat /\ j - 1 # 0
    BY <1>1, <1>3
  <2> QED
    BY <1>1, <1>9, <2>1
<1>11. i + 1 \in Nat \ {0}
  BY <1>3
<1>12. Removed(i) = [s EXCEPT !.socks = a \o b, !.ready = R, !.i = i + 1]
  BY <1>2, <1>4, <1>5, <1>9 DEF Removed
<1> QED
  BY <1>8, <1>10, <1>11, <1>12 DEF ServerStates

\* do_server_rr
LEMMA TServeGood ==
  ASSUME TGood, opt.prog = "throughput", TServe PROVE TGood'
<1>1. /\ Sound /\ BenchTypes /\ opt \in Options /\ s \in ServerStates /\ s.at = "scan" /\ ToServe # {}
      /\ wire \in Wires /\ (0 \in s.ready => backlog # << >>) /\ partial = << >>
  BY DEF TGood, Sound, BenchTypes, TServe
<1>2. PICK i \in Nat \ {0} : i = Serving /\ i \in 1 .. Len(s.socks) /\ s.socks[i] \in Conns
  BY <1>1, ServingIs
<1>3. PICK k \in Conns : k = s.socks[i]
  BY <1>2
<1>4. PICK ds \in Seq(Desc) : ds = wire["server"][k]
  BY <1>1, WireAt, PeersAre
<1>5. UNCHANGED <<opt, c, descs, partial, backlog>>
  BY DEF TServe
<1>6. ClientStates' = ClientStates
  BY <1>5 DEF ClientStates
<1>7. CASE ds = << >>
  <2>1. s' = Removed(i) /\ UNCHANGED <<pool, wire>>
    BY <1>2, <1>3, <1>4, <1>7 DEF TServe
  <2>2. s' \in ServerStates /\ (0 \in s'.ready => 0 \in s.ready)
    BY <1>1, <1>2, <2>1, RemovedIs
  <2>3. BenchTypes'
    BY <1>1, <1>5, <1>6, <2>1, <2>2 DEF BenchTypes
  <2> QED
    BY <1>5, <2>1, <2>3, TServerIdle
<1>8. CASE ds # << >>
  <2>1. \A b \in Buffers : pool[b] \in {0, 1}
    BY <1>1, ApartFacts
  <2>2. PICK x \in Spots : x = <<"server", k>>
    BY SpotsAre
  <2>3. Lines[x] = Bufs(ds) /\ Distinct(Bufs(ds)) /\ Elems(Bufs(ds)) \cap Free(pool) = {}
    <3>1. Lines[x] = Bufs(ds)
      BY <1>4, <2>2, LinesAt DEF LinesAre
    <3>2. Distinct(Lines[x]) /\ Elems(Lines[x]) \cap Free(pool) = {}
      BY <1>1, ApartFacts
    <3> QED
      BY <3>1, <3>2
  <2>4. \/ /\ s' = [s EXCEPT !.at = "exit"] /\ wire' = Put(wire, "server", k, << >>)
           /\ pool' = pool \/ (CanAnswer(ds) /\ pool' = AnswerPool(ds))
        \/ /\ CanAnswer(ds) /\ pool' = AnswerPool(ds)
           /\ wire' = Sent(Put(wire, "server", k, << >>), "server", k, Answer(ds))
           /\ s' = [s EXCEPT !.i = i + 1]
    BY <1>2, <1>3, <1>4, <1>8 DEF TServe, Put, SExit
  <2>5. ASSUME Running, NAnswer <= ndescs
        PROVE  /\ TInv /\ Awaits(k) /\ Len(ds) = ndescs /\ wire["client"][k] = << >>
               /\ opt.reuse => Bufs(ds) = descs[k]
    <3>1. TInv /\ TLine(k)
      BY <2>5 DEF TGood, TInv
    <3>2. ~Quiet(k)
      BY <1>4, <1>8 DEF Quiet
    <3>3. Awaits(k) /\ TOutstanding(k)
      BY <3>1, <3>2 DEF TLine
    <3> QED
      BY <1>4, <1>8, <3>1, <3>3 DEF TOutstanding
  <2>6. (Running' <=> Running) /\ (TAt => TAt') /\ ndescs' = ndescs /\ NAnswer' = NAnswer
    BY <1>5, SameOptions DEF Running, TAt
  <2>7. CASE /\ s' = [s EXCEPT !.at = "exit"] /\ wire' = Put(wire, "server", k, << >>)
             /\ pool' = pool \/ (CanAnswer(ds) /\ pool' = AnswerPool(ds))
    <3>1. (\A b \in Buffers : pool'[b] \in {0, 1}) /\ Free(pool') \subseteq Elems(Bufs(ds)) \cup Free(pool)
      <4>1. CASE pool' = pool
        BY <2>1, <4>1
      <4>2. CASE CanAnswer(ds) /\ pool' = AnswerPool(ds)
        <5>1. PICK p : p = AnswerPool(ds)
          OBVIOUS
        <5>2. Answered(ds, Answer(ds), p)
          BY <1>1, <1>8, <2>1, <2>3, <4>2, <5>1, AnswerFacts
        <5>3. (\A b \in Buffers : p[b] \in {0, 1}) /\ Free(p) \subseteq Elems(Bufs(ds)) \cup Free(pool)
          BY <5>2 DEF Answered
        <5> QED
          BY <4>2, <5>1, <5>3
      <4> QED
        BY <2>7, <4>1, <4>2
    <3>2. /\ Apart(Lines, pool, opt.buffers)'
          /\ wire' \in Wires /\ wire'["server"][k] = << >> /\ wire'["client"][k] = wire["client"][k]
          /\ \A j \in Conns : j # k => /\ wire'["client"][j] = wire["client"][j]
                                       /\ wire'["server"][j] = wire["server"][j]
      BY <1>1, <1>4, <1>5, <2>7, <3>1, RequestLost
    <3>3. s' \in ServerStates /\ s'.at = "exit"
      BY <1>1, <2>7 DEF ServerStates
    <3>4. BenchTypes'
      BY <1>1, <1>5, <1>6, <3>2, <3>3 DEF BenchTypes
    <3>5. Sound'
      BY <3>2, <3>4 DEF Sound
    <3>6. ASSUME Running, NAnswer <= ndescs PROVE TInv'
      BY <1>1, <1>5, <2>5, <3>2, <3>6, TLost
    <3> QED
      BY <2>6, <3>5, <3>6 DEF TGood
  <2>8. CASE /\ CanAnswer(ds) /\ pool' = AnswerPool(ds)
             /\ wire' = Sent(Put(wire, "server", k, << >>), "server", k, Answer(ds))
             /\ s' = [s EXCEPT !.i = i + 1]
    <3>1. /\ Apart(Lines, pool, opt.buffers)'
          /\ Stray(Lines, pool, opt.buffers)' = Stray(Lines, pool, opt.buffers)
          /\ wire' \in Wires /\ wire'["server"][k] = << >>
          /\ Len(wire'["client"][k]) = Len(wire["client"][k]) + NSend(Len(ds))
          /\ wire["client"][k] = << >> /\ NSend(Len(ds)) = Len(ds) => Bufs(wire'["client"][k]) = Bufs(ds)
          /\ \A j \in Conns : j # k => /\ wire'["client"][j] = wire["client"][j]
                                       /\ wire'["server"][j] = wire["server"][j]
      BY <1>1, <1>4, <1>5, <1>8, <2>8, ServeLines
    <3>2. s' \in ServerStates /\ s'.at = s.at /\ s'.ready = s.ready
      <4>1. i + 1 \in Nat \ {0}
        BY <1>2
      <4> QED
        BY <1>1, <2>8, <4>1 DEF ServerStates
    <3>3. BenchTypes'
      BY <1>1, <1>5, <1>6, <3>1, <3>2 DEF BenchTypes
    <3>4. Sound'
      BY <3>1, <3>3 DEF Sound
    <3>5. ASSUME Running, NAnswer <= ndescs PROVE TInv'
      <4>1. /\ TInv /\ Awaits(k) /\ Len(ds) = ndescs /\ wire["client"][k] = << >>
            /\ opt.reuse => Bufs(ds) = descs[k]
        BY <2>5, <3>5
      <4>2. NAnswer = NSend(ndescs) /\ NAnswer \in Nat /\ Len(<< >>) = 0
        BY <1>1, MessageFacts, EmptySeq
      <4>3. wire'["server"][k] = << >> /\ Len(wire'["client"][k]) = NAnswer
        BY <3>1, <4>1, <4>2
      <4>4. opt.reuse /\ NAnswer = ndescs => Bufs(wire'["client"][k]) = descs[k]
        BY <3>1, <4>1, <4>2
      <4>5. TOutstanding(k)'
        BY <1>5, <2>6, <4>3, <4>4 DEF TOutstanding
      <4>6. (\A j \in Conns : Awaits(j)' <=> Awaits(j)) /\ Connected' = Connected
        BY <1>5 DEF Awaits, Connected, NextReady
      <4>7. TLine(k)'
        BY <4>1, <4>5, <4>6 DEF TLine
      <4>8. TDescs'
        BY <1>5, <2>6, <4>1, <4>6 DEF TInv, TDescs
      <4>9. ~Quiet(k)
        BY <1>4, <1>8 DEF Quiet
      <4>10. \A j \in Conns : j # k => /\ Awaits(j)' <=> Awaits(j)
                                       /\ wire'["client"][j] = wire["client"][j]
                                       /\ wire'["server"][j] = wire["server"][j]
                                       /\ opt.reuse /\ Awaits(j) => descs'[j] = descs[j]
        BY <1>5, <3>1, <4>6
      <4> QED
        BY <1>5, <3>1, <4>1, <4>6, <4>7, <4>8, <4>9, <4>10, TFrame
    <3> QED
      BY <2>6, <3>4, <3>5 DEF TGood
  <2> QED
    BY <2>4, <2>7, <2>8
<1> QED
  BY <1>7, <1>8

LEMMA TStep ==
  ASSUME TGood, ~Stale, opt.prog = "throughput", TClient \/ TListen \/ TServer PROVE TGood'
<1>1. CASE TConnect
  BY <1>1, TConnectGood
<1>2. CASE TFirst
  BY <1>2, TFirstGood
<1>3. CASE TPoll
  BY <1>3, TPollGood
<1>4. CASE TRecv
  BY <1>4, TRecvGood
<1>5. CASE TAgain
  BY <1>5, TAgainGood
<1>6. CASE TTime
  BY <1>6, TTimeGood
<1>7. CASE TFinal
  BY <1>7, TFinalGood
<1>8. CASE TListen
  BY <1>8, TListenGood
<1>9. CASE TServerPoll
  BY <1>9, TServerPollGood
<1>10. CASE TServe
  BY <1>10, TServeGood
<1>11. CASE TAccept
  BY <1>11, TAcceptGood
<1> QED
  BY <1>1, <1>2, <1>3, <1>4, <1>5, <1>6, <1>7, <1>8, <1>9, <1>10, <1>11 DEF TClient, TServer

-----------------------------------------------------------------------------
(* The latency client *)

LGood == Sound /\ (Running => LInv)

LEMMA RequestFacts ==
  ASSUME opt \in Options, NEW bufs \in Seq(Buffers), bufs # << >>
  PROVE  /\ Request(bufs) \in Seq(Desc) /\ Len(Request(bufs)) = Len(bufs)
         /\ Bufs(Request(bufs)) = bufs
<1>1. PICK ds : ds = Sized(bufs, opt.csize)
  OBVIOUS
<1>2. ds \in Seq(Desc) /\ Len(ds) = Len(bufs) /\ Bufs(ds) = bufs
  BY <1>1, OptionFacts, SizedFacts
<1>3. CASE ~opt.chttp
  BY <1>1, <1>2, <1>3 DEF Request
<1>4. CASE opt.chttp
  <2>1. PICK n \in Nat \ {0} : n = Len(bufs)
    BY EmptySeq, LenProperties
  <2>2. DOMAIN ds = 1 .. n /\ ds \in [1 .. n -> Desc] /\ 1 \in 1 .. n
    BY <1>2, <2>1, LenProperties
  <2>3. PICK e : e = [ds[1] EXCEPT !.size = HttpReq]
    OBVIOUS
  <2>4. HttpReq \in Nat
    BY LinkAssumption
  <2>5. ds[1] \in Desc
    BY <2>2
  <2>6. e \in Desc /\ e.buf = ds[1].buf
    BY <2>3, <2>4, <2>5 DEF Desc
  <2>7. PICK r : r = Request(bufs)
    OBVIOUS
  <2>8. r = [ds EXCEPT ![1] = e]
    BY <1>1, <1>4, <2>3, <2>7 DEF Request
  <2>9. r \in [1 .. n -> Desc] /\ \A i \in 1 .. n : r[i].buf = ds[i].buf
    BY <2>2, <2>6, <2>8
  <2>10. r \in Seq(Desc) /\ Len(r) = n
    BY <2>9, SeqDef, LenProperties
  <2>11. Bufs(r) = Bufs(ds)
    <3>1. DOMAIN r = 1 .. n
      BY <2>9
    <3> QED
      BY <2>2, <2>9, <3>1 DEF Bufs
  <2> QED
    BY <1>2, <2>1, <2>7, <2>10, <2>11
<1> QED
  BY <1>3, <1>4

LEMMA DropIs ==
  ASSUME NEW S, NEW q \in Seq(S), NEW n \in Nat PROVE Drop(q, n) \in Seq(S)
<1>1. PICK m \in Nat : m = Len(q)
  BY LenProperties
<1>2. PICK g \in Nat \ {0} : g = n + 1
  OBVIOUS
<1>3. PICK r : r = SubSeq(q, g, m)
  OBVIOUS
<1>4. CASE n <= m
  <2>1. g <= m + 1 /\ m <= Len(q)
    BY <1>1, <1>2, <1>4
  <2>2. r \in Seq(S)
    BY <1>3, <2>1, Cutting
  <2> QED
    BY <1>1, <1>2, <1>3, <2>2 DEF Drop
<1>5. CASE ~(n <= m)
  <2>1. g \in Int /\ m \in Int /\ m < g
    BY <1>2, <1>5
  <2>2. r = << >>
    BY <1>3, <2>1, SubSeqEmpty
  <2> QED
    BY <1>1, <1>2, <1>3, <2>2, EmptySeq DEF Drop
<1> QED
  BY <1>4, <1>5

LEMMA LConnectGood ==
  ASSUME LGood, opt.prog = "latency", LConnect PROVE LGood'
<1>1. /\ Sound /\ BenchTypes /\ opt \in Options /\ c \in ClientStates /\ c.at = "connect"
      /\ wire \in Wires /\ descs \in [Conns -> Seq(Buffers)] /\ backlog \in Seq(Conns)
  BY DEF LGood, Sound, BenchTypes, LConnect
<1>2. LInv
  BY <1>1 DEF LGood, Running
<1>3. UNCHANGED <<opt, s, partial, wire>>
  BY DEF LConnect
<1>4. \A b \in Buffers : pool[b] \in {0, 1}
  BY <1>1, ApartFacts
<1>5. Append(backlog, 1) \in Seq(Conns) /\ Append(backlog, 1) # << >>
  BY <1>1, OneIsConn, AppendProperties
<1>6. CASE ~Listening
  <2>1. c' = [c EXCEPT !.at = "refused"] /\ UNCHANGED <<backlog, descs, pool>>
    BY <1>6 DEF LConnect, Refused
  <2>2. Sound' /\ ~Running'
    BY <1>1, <1>3, <1>4, <2>1, ClientGone
  <2> QED
    BY <2>2 DEF LGood
<1>7. CASE Listening /\ ~(opt.reuse => CanGet(ndescs))
  <2>1. c' = [c EXCEPT !.at = "exit"] /\ UNCHANGED <<descs, pool>> /\ backlog' = Append(backlog, 1)
    BY <1>7 DEF LConnect, CExit
  <2>2. backlog' \in Seq(Conns) /\ backlog' # << >>
    BY <1>5, <2>1
  <2>3. /\ descs' \in [Conns -> Seq(Buffers)] /\ Free(pool') \subseteq Free(pool)
        /\ \A b \in Buffers : pool'[b] \in {0, 1}
    BY <1>1, <1>4, <2>1
  <2>4. Sound' /\ ~Running'
    BY <1>1, <1>3, <2>1, <2>2, <2>3, ClientGone
  <2> QED
    BY <2>4 DEF LGood
<1>8. CASE Listening /\ (opt.reuse => CanGet(ndescs))
  <2>1. /\ descs' = IF opt.reuse THEN [descs EXCEPT ![1] = Got(ndescs)] ELSE descs
        /\ pool' = IF opt.reuse THEN Without(Got(ndescs)) ELSE pool
        /\ c' = [c EXCEPT !.at = "send"] /\ backlog' = Append(backlog, 1)
    BY <1>8 DEF LConnect
  <2>2. c' \in ClientStates /\ c'.at = "send" /\ ClientStates' = ClientStates
    BY <1>1, <1>3, <2>1 DEF ClientStates
  <2>3. ndescs' = ndescs /\ ndescs \in Nat \ {0}
    BY <1>1, <1>3, SameOptions, MessageFacts
  <2>4. /\ \A j \in Conns : OwnLen(j) = 0
        /\ \A j \in Conns : OwnLen(j)' = IF opt.reuse /\ j = 1 THEN ndescs ELSE 0
    BY <1>1, <1>3, <2>2, <2>3 DEF OwnLen
  <2>5. descs' \in [Conns -> Seq(Buffers)] => BenchTypes'
    BY <1>1, <1>3, <1>5, <2>1, <2>2 DEF BenchTypes
  <2>6. /\ Sound' /\ Stray(Lines, pool, opt.buffers)' = Stray(Lines, pool, opt.buffers)
        /\ opt.reuse => Len(descs'[1]) = ndescs
    <3>1. CASE opt.reuse
      <4>1. PICK m \in Nat \ {0} : m = ndescs
        BY <2>3
      <4>2. PICK g : g = Got(m)
        OBVIOUS
      <4>3. PICK k \in Conns : k = 1
        BY OneIsConn
      <4>4. /\ CanGet(m) /\ m \in Nat /\ pool' = Without(g) /\ descs' = [descs EXCEPT ![k] = g]
            /\ OwnLen(k) = 0 /\ OwnLen(k)' \in {0, m} /\ \A j \in Conns : j # k => OwnLen(j)' = OwnLen(j)
        BY <1>8, <2>1, <2>4, <3>1, <4>1, <4>2, <4>3
      <4>5. /\ Apart(Lines, pool, opt.buffers)'
            /\ descs' \in [Conns -> Seq(Buffers)] /\ Len(descs'[k]) = m
            /\ OwnLen(k)' = m /\ m # 0 =>
                 Stray(Lines, pool, opt.buffers)' = Stray(Lines, pool, opt.buffers)
        BY <1>1, <1>3, <4>2, <4>4, GetLines
      <4>6. OwnLen(k)' = m /\ m # 0
        BY <2>4, <3>1, <4>1, <4>3
      <4> QED
        BY <2>5, <4>1, <4>3, <4>5, <4>6 DEF Sound
    <3>2. CASE ~opt.reuse
      <4>1. UNCHANGED <<opt, descs, partial, pool, wire>> /\ \A j \in Conns : OwnLen(j)' = OwnLen(j)
        BY <1>3, <2>1, <2>4, <3>2
      <4>2. BenchTypes'
        BY <1>1, <2>5, <4>1
      <4> QED
        BY <1>1, <3>2, <4>1, <4>2, Unmoved
    <3> QED
      BY <3>1, <3>2
  <2>7. (\A k \in Conns : k # 1 => Quiet(k)) /\ Quiet(1) /\ partial = << >>
        /\ Stray(Lines, pool, opt.buffers) = {}
    BY <1>1, <1>2 DEF LInv
  <2>8. (\A k \in Conns : k # 1 => Quiet(k)') /\ Quiet(1)' /\ partial' = << >>
    BY <1>3, <2>7 DEF Quiet
  <2>9. Stray(Lines, pool, opt.buffers)' = {} /\ (opt'.reuse => Len(descs'[1]) >= ndescs')
    BY <1>3, <2>3, <2>6, <2>7
  <2>10. LInv'
    BY <2>2, <2>8, <2>9 DEF LInv
  <2> QED
    BY <2>6, <2>10 DEF LGood
<1> QED
  BY <1>6, <1>7, <1>8

\* What the client puts back and ends with, it had.
LEMMA PutBackAndGone ==
  ASSUME Sound, c' = [c EXCEPT !.at = "exit"], UNCHANGED <<opt, s, partial, wire, backlog>>,
         descs' \in [Conns -> Seq(Buffers)], \A b \in Buffers : pool'[b] \in {0, 1},
         Free(pool') \subseteq Elems(Lines[<<"own", 1>>]) \cup Free(pool)
  PROVE  Sound' /\ ~Running'
<1>1. BenchTypes /\ Apart(Lines, pool, opt.buffers) /\ c \in ClientStates
  BY DEF Sound, BenchTypes
<1>2. c'.at = "exit" /\ c' \in ClientStates /\ ClientStates' = ClientStates
  BY <1>1 DEF ClientStates
<1>3. BenchTypes'
  BY <1>1, <1>2 DEF BenchTypes
<1>4. ~Running' /\ \A k \in Conns : OwnLen(k)' = 0
  BY <1>2 DEF Running, OwnLen
<1>5. PICK x \in Spots : x = <<"own", 1>>
  BY OneIsConn, SpotsAre
<1>6. KeptOrLost(x, x)
  BY <1>4 DEF KeptOrLost
<1>7. Lines'[x] = << >>
  BY <1>4, <1>5, OneIsConn, LinesAtNext DEF LinesAre
<1>8. /\ Lines'[x] \in Seq(Buffers) /\ Distinct(Lines'[x]) /\ Elems(Lines'[x]) \cap Free(pool') = {}
      /\ Elems(Lines'[x]) \cup Elems(Lines'[x]) \cup Free(pool')
           \subseteq Elems(Lines[x]) \cup Elems(Lines[x]) \cup Free(pool)
  BY <1>5, <1>7, NoElems
<1>9. Apart(Lines, pool, opt.buffers)'
  BY <1>1, <1>6, <1>8, Shrink
<1> QED
  BY <1>3, <1>4, <1>9 DEF Sound

\* The first half of do_client_rr.
LEMMA LSendGood ==
  ASSUME LGood, opt.prog = "latency", LSend PROVE LGood'
<1>1. /\ Sound /\ BenchTypes /\ opt \in Options /\ c \in ClientStates /\ c.at = "send"
      /\ wire \in Wires /\ descs \in [Conns -> Seq(Buffers)] /\ backlog \in Seq(Conns)
      /\ Apart(Lines, pool, opt.buffers)
  BY DEF LGood, Sound, BenchTypes, LSend
<1>2. LInv
  BY <1>1 DEF LGood, Running
<1>3. UNCHANGED <<opt, s, partial, backlog>>
  BY DEF LSend
<1>4. /\ \A x \in Spots : Lines[x] \in Seq(Buffers) /\ Distinct(Lines[x])
      /\ \A b \in Buffers : pool[b] \in {0, 1}
      /\ \A x, y \in Spots : x # y => Elems(Lines[x]) \cap Elems(Lines[y]) = {}
      /\ \A x \in Spots : Elems(Lines[x]) \cap Free(pool) = {}
  BY <1>1, ApartFacts
<1>5. PICK m \in Nat \ {0} : m = ndescs
  BY <1>1, MessageFacts
<1>6. PICK k \in Conns : k = 1
  BY OneIsConn
<1>7. PICK x \in Spots : x = <<"own", k>>
  BY SpotsAre
<1>8. PICK y \in Spots : y = <<"server", k>>
  BY SpotsAre
<1>9. /\ \A j \in Conns : j # 1 => Quiet(j)
      /\ wire["server"][k] = << >> /\ wire["client"][k] = << >> /\ partial = << >>
      /\ Stray(Lines, pool, opt.buffers) = {} /\ (opt.reuse => Len(descs[k]) >= m)
  BY <1>1, <1>2, <1>5, <1>6 DEF LInv, Quiet
<1>10. ndescs' = ndescs /\ NAnswer' = NAnswer
  BY <1>3, SameOptions
<1>11. \A j \in Conns : OwnLen(j) = IF opt.reuse /\ j = k THEN m ELSE 0
  BY <1>1, <1>5, <1>6 DEF OwnLen
<1>12. CASE ~opt.reuse /\ ~CanGet(ndescs)
  <2>1. c' = [c EXCEPT !.at = "exit"] /\ UNCHANGED <<descs, pool, wire>>
    BY <1>12 DEF LSend, CExit
  <2>2. Sound' /\ ~Running'
    BY <1>1, <1>3, <1>4, <2>1, ClientGone
  <2> QED
    BY <2>2 DEF LGood
<1>13. CASE opt.reuse \/ CanGet(ndescs)
  <2>1. PICK bufs : bufs = IF opt.reuse THEN SubSeq(descs[k], 1, m) ELSE Got(m)
    OBVIOUS
  <2>2. /\ bufs \in Seq(Buffers) /\ Len(bufs) = m /\ Distinct(bufs)
        /\ opt.reuse => bufs = Lines[x]
        /\ ~opt.reuse => Elems(bufs) \subseteq Free(pool) /\ (\A b \in Buffers : Without(bufs)[b] \in {0, 1})
                           /\ Free(Without(bufs)) = Free(pool) \ Elems(bufs)
    <3>1. CASE opt.reuse
      <4>1. bufs = Lines[x]
        <5>1. bufs = SubSeq(descs[k], 1, m) /\ OwnLen(k) = m
          BY <1>11, <2>1, <3>1
        <5>2. Lines[<<"own", k>>] = SubSeq(descs[k], 1, OwnLen(k))
          BY LinesAt DEF LinesAre
        <5> QED
          BY <1>7, <5>1, <5>2, Zenon
      <4>2. PICK q \in Seq(Buffers) : q = descs[k] /\ m <= Len(q)
        <5>1. Len(descs[k]) \in Nat
          BY <1>1, LenProperties
        <5> QED
          BY <1>1, <1>9, <3>1, <5>1
      <4>3. 1 \in Nat \ {0} /\ m \in Nat /\ 1 <= m + 1 /\ m - 1 + 1 = m
        OBVIOUS
      <4>4. Len(bufs) = m - 1 + 1
        BY <2>1, <3>1, <4>2, <4>3, Cutting
      <4> QED
        BY <1>4, <3>1, <4>1, <4>3, <4>4
    <3>2. CASE ~opt.reuse
      <4>1. bufs = Got(m) /\ CanGet(m) /\ m \in Nat /\ \A b \in Buffers : pool[b] \in {0, 1}
        BY <1>4, <1>5, <1>13, <2>1, <3>2
      <4> QED
        BY <3>2, <4>1, GotFree
    <3> QED
      BY <3>1, <3>2
  <2>3. PICK d \in Seq(Buffers) : d = bufs \o Drop(descs[k], m)
    <3>1. Drop(descs[k], m) \in Seq(Buffers)
      BY <1>1, DropIs
    <3> QED
      BY <2>2, <3>1, ConcatProperties
  <2>4. /\ descs' = [descs EXCEPT ![k] = d]
        /\ \/ /\ wire' = Sent(wire, "client", k, Request(bufs))
              /\ pool' = IF opt.reuse THEN pool ELSE Without(bufs)
              /\ c' = [c EXCEPT !.at = "recv", !.i = 0, !.rsize = 0]
           \/ /\ pool' = IF opt.reuse THEN With(bufs) ELSE pool
              /\ c' = [c EXCEPT !.at = "exit"] /\ UNCHANGED wire
    BY <1>1, <1>5, <1>6, <1>13, <2>1, <2>3 DEF LSend, CExit
  <2>5. descs' \in [Conns -> Seq(Buffers)] /\ descs'[k] = d /\ \A j \in Conns : j # k => descs'[j] = descs[j]
    BY <1>1, <2>3, <2>4
  <2>6. CASE /\ pool' = IF opt.reuse THEN With(bufs) ELSE pool
             /\ c' = [c EXCEPT !.at = "exit"] /\ UNCHANGED wire
    <3>1. (\A b \in Buffers : pool'[b] \in {0, 1}) /\ Free(pool') \subseteq Elems(Lines[<<"own", 1>>]) \cup Free(pool)
      <4>1. CASE opt.reuse
        <5>1. Elems(bufs) \cap Free(pool) = {} /\ bufs = Lines[<<"own", 1>>]
          BY <1>4, <1>6, <1>7, <2>2, <4>1
        <5>2. (\A b \in Buffers : With(bufs)[b] \in {0, 1}) /\ Free(With(bufs)) = Free(pool) \cup Elems(bufs)
          BY <1>4, <2>2, <5>1, WithFree
        <5>3. pool' = With(bufs)
          BY <2>6, <4>1
        <5> QED
          BY <5>1, <5>2, <5>3
      <4>2. CASE ~opt.reuse
        BY <1>4, <2>6, <4>2
      <4> QED
        BY <4>1, <4>2
    <3>2. Sound' /\ ~Running'
      BY <1>1, <1>3, <2>5, <2>6, <3>1, PutBackAndGone
    <3> QED
      BY <3>2 DEF LGood
  <2>7. CASE /\ wire' = Sent(wire, "client", k, Request(bufs))
             /\ pool' = IF opt.reuse THEN pool ELSE Without(bufs)
             /\ c' = [c EXCEPT !.at = "recv", !.i = 0, !.rsize = 0]
    <3>1. PICK ds : ds = Request(bufs)
      OBVIOUS
    <3>2. ds \in Seq(Desc) /\ Len(ds) = m /\ Bufs(ds) = bufs
      <4>1. Len(<< >>) = 0 /\ m # 0
        BY EmptySeq
      <4>2. bufs # << >>
        BY <2>2, <4>1
      <4> QED
        BY <1>1, <2>2, <3>1, <4>2, RequestFacts
    <3>3. /\ wire' \in Wires
          /\ Bufs(wire'["server"][k]) = Bufs(wire["server"][k]) \o bufs
          /\ Len(wire'["server"][k]) = Len(wire["server"][k]) + m
          /\ \A f \in Ends, j \in Conns : f # "server" \/ j # k => wire'[f][j] = wire[f][j]
      <4>1. PICK w : w = wire'
        OBVIOUS
      <4>2. Extended(wire, w, "server", k, ds)
        BY <1>1, <2>7, <3>1, <3>2, <4>1, ClientSent
      <4> QED
        BY <3>2, <4>1, <4>2 DEF Extended
    <3>4. c' \in ClientStates /\ c'.at = "recv" /\ c'.i = 0 /\ c'.rsize = 0 /\ ClientStates' = ClientStates
      BY <1>1, <1>3, <2>7 DEF ClientStates, Received
    <3>5. \A j \in Conns : OwnLen(j)' = 0
      BY <1>1, <1>3, <3>4 DEF OwnLen
    <3>6. Kept(x, y)
      <4>1. \A j \in Conns : /\ wire'["client"][j] = wire["client"][j]
                             /\ j # k => wire'["server"][j] = wire["server"][j]
        BY <3>3, PeersAre
      <4>2. \A j \in Conns : j # k => OwnLen(j)' = OwnLen(j) /\ OwnLen(j) = 0
        BY <1>11, <3>5
      <4> QED
        BY <1>3, <1>7, <1>8, <4>1, <4>2 DEF Kept
    <3>7. Lines'[x] = << >> /\ Lines'[y] = Bufs(wire'["server"][k]) /\ Lines[y] = Bufs(wire["server"][k])
          /\ (~opt.reuse => Lines[x] = << >>)
      BY <1>7, <1>8, <1>11, <3>5, LinesAt, LinesAtNext DEF LinesAre
    <3>8. Lines'[y] = Lines[y] \o bufs
      BY <3>3, <3>7
    <3>9. Elems(Lines[y]) \cap Elems(bufs) = {}
      BY <1>4, <1>7, <1>8, <2>2
    <3>10. Lines'[y] \in Seq(Buffers) /\ Elems(Lines'[y]) = Elems(Lines[y]) \cup Elems(bufs) /\ Distinct(Lines'[y])
      <4>1. Lines[y] \in Seq(Buffers) /\ Distinct(Lines[y])
        BY <1>4
      <4>2. bufs \in Seq(Buffers) /\ Distinct(bufs)
        BY <2>2
      <4> QED
        BY <3>8, <3>9, <4>1, <4>2, ElemsJoin
    <3>11. Elems(Lines'[x]) = {} /\ Lines'[x] \in Seq(Buffers) /\ Distinct(Lines'[x])
      BY <3>7, NoElems
    <3>12. /\ \A b \in Buffers : pool'[b] \in {0, 1}
           /\ Elems(Lines'[y]) \cap Free(pool') = {}
           /\ Elems(Lines'[x]) \cup Elems(Lines'[y]) \cup Free(pool') = Elems(Lines[x]) \cup Elems(Lines[y]) \cup Free(pool)
      <4>1. CASE opt.reuse
        <5>1. pool' = pool /\ bufs = Lines[x]
          BY <2>2, <2>7, <4>1
        <5> QED
          BY <1>4, <3>10, <3>11, <5>1
      <4>2. CASE ~opt.reuse
        <5>1. /\ Elems(bufs) \subseteq Free(pool) /\ (\A b \in Buffers : pool'[b] \in {0, 1})
              /\ Free(pool') = Free(pool) \ Elems(bufs) /\ Elems(Lines[x]) = {} /\ Elems(Lines[y]) \cap Free(pool) = {}
          BY <1>4, <2>2, <2>7, <3>7, <4>2, NoElems
        <5> QED
          BY <3>10, <3>11, <5>1
      <4> QED
        BY <4>1, <4>2
    <3>13. /\ Elems(Lines'[x]) \cap Free(pool') = {}
           /\ x # y => Elems(Lines'[x]) \cap Elems(Lines'[y]) = {}
      BY <3>11
    <3>14. /\ Apart(Lines, pool, opt.buffers)'
           /\ Stray(Lines, pool, opt.buffers)' = Stray(Lines, pool, opt.buffers)
      BY <1>1, <3>6, <3>10, <3>11, <3>12, <3>13, Exchange
    <3>15. BenchTypes'
      BY <1>1, <1>3, <1>9, <2>5, <3>3, <3>4 DEF BenchTypes
    <3>16. LInv'
      <4>1. \A j \in Conns : j # 1 => Quiet(j)'
        BY <1>6, <1>9, <3>3, PeersAre DEF Quiet
      <4>2. Len(wire'["server"][1]) = ndescs' /\ wire'["client"][1] = << >> /\ partial' = << >>
        <5>1. Len(<< >>) = 0 /\ 0 + m = m
          BY EmptySeq
        <5> QED
          BY <1>3, <1>5, <1>6, <1>9, <1>10, <3>3, <5>1, PeersAre
      <4>3. 0 <= Len(descs'[1])
        BY <1>6, <2>3, <2>5, LenProperties
      <4>4. Stray(Lines, pool, opt.buffers)' = {}
        BY <1>9, <3>14
      <4> QED
        BY <3>4, <4>1, <4>2, <4>3, <4>4 DEF LInv
    <3> QED
      BY <3>14, <3>15, <3>16 DEF LGood, Sound
  <2> QED
    BY <2>4, <2>6, <2>7
<1> QED
  BY <1>12, <1>13

\* The first descriptors received overwrite the first of descs.
LEMMA LandedFacts ==
  ASSUME NEW q \in Seq(Buffers), q = descs[1], c.i = 0, NEW ds \in Seq(Desc), NEW now, now = Landed(ds)
  PROVE  /\ now \in Seq(Buffers) /\ Len(now) >= Len(ds)
         /\ \A i \in 1 .. Len(ds) : now[i] = Bufs(ds)[i]
<1>1. PICK n \in Nat : n = Len(ds)
  BY LenProperties
<1>2. PICK m \in Nat : m = Len(q)
  BY LenProperties
<1>3. PICK h \in Nat : h = (IF 0 + n > m THEN 0 + n ELSE m) /\ h >= n /\ \A i \in 1 .. h : i \notin 1 .. n => i \in 1 .. m
  <2>1. CASE n > m
    <3>1. (IF 0 + n > m THEN 0 + n ELSE m) = n
      BY <2>1
    <3> QED
      BY <3>1
  <2>2. CASE ~(n > m)
    <3>1. (IF 0 + n > m THEN 0 + n ELSE m) = m /\ m >= n
      BY <2>2
    <3> QED
      BY <3>1
  <2> QED
    BY <2>1, <2>2
<1>4. now = [i \in 1 .. h |-> IF i \in 0 + 1 .. 0 + n THEN ds[i - 0].buf ELSE q[i]]
  BY <1>1, <1>2, <1>3 DEF Landed
<1>5. 0 + 1 .. 0 + n = 1 .. n /\ \A i \in 1 .. n : i - 0 = i
  OBVIOUS
<1>6. /\ \A i \in 1 .. n : Bufs(ds)[i] = ds[i].buf /\ Bufs(ds)[i] \in Buffers
      /\ \A i \in 1 .. m : q[i] \in Buffers
  <2>1. Bufs(ds) \in Seq(Buffers) /\ Len(Bufs(ds)) = n /\ \A i \in 1 .. n : Bufs(ds)[i] = ds[i].buf
    BY <1>1, BufsFacts
  <2> QED
    BY <1>2, <2>1, ElementOfSeq
<1>7. now = [i \in 1 .. h |-> IF i \in 1 .. n THEN Bufs(ds)[i] ELSE q[i]]
  BY <1>4, <1>5, <1>6
<1>8. now \in [1 .. h -> Buffers]
  BY <1>3, <1>6, <1>7
<1>9. now \in Seq(Buffers) /\ Len(now) = h
  BY <1>8, SeqDef, LenProperties
<1>10. \A i \in 1 .. n : i \in 1 .. h
  BY <1>3
<1> QED
  BY <1>1, <1>3, <1>7, <1>9, <1>10

\* Parts of sequences that agree.
LEMMA SameCut ==
  ASSUME NEW q \in Seq(Buffers), NEW r \in Seq(Buffers), Len(r) >= Len(q),
         \A i \in 1 .. Len(q) : r[i] = q[i],
         NEW i \in Nat \ {0}, NEW j \in Nat, j <= Len(q), i <= j + 1
  PROVE  SubSeq(r, i, j) = SubSeq(q, i, j)
<1>1. PICK a : a = SubSeq(q, i, j)
  OBVIOUS
<1>2. PICK b : b = SubSeq(r, i, j)
  OBVIOUS
<1>3. /\ a \in Seq(Buffers) /\ Len(a) = j - i + 1
      /\ \A k \in 1 .. j - i + 1 : i + k - 1 \in 1 .. Len(q) /\ a[k] = q[i + k - 1]
  BY <1>1, Cutting
<1>4. Len(r) \in Nat /\ Len(q) \in Nat
  BY LenProperties
<1>5. j <= Len(r)
  BY <1>4
<1>6. /\ b \in Seq(Buffers) /\ Len(b) = j - i + 1
      /\ \A k \in 1 .. j - i + 1 : b[k] = r[i + k - 1]
  BY <1>2, <1>5, Cutting
<1>7. \A k \in 1 .. j - i + 1 : a[k] = b[k]
  BY <1>3, <1>6
<1>8. a = b
  BY <1>3, <1>6, <1>7, SeqEqual
<1> QED
  BY <1>1, <1>2, <1>8

\* The second half of do_client_rr: the answer's buffers become the client's, and
\* it puts back those it does not keep.
LEMMA LRecvGood ==
  ASSUME LGood, ~Stale, opt.prog = "latency", LRecv PROVE LGood'
<1>1. /\ Sound /\ BenchTypes /\ opt \in Options /\ c \in ClientStates /\ c.at = "recv"
      /\ wire \in Wires /\ descs \in [Conns -> Seq(Buffers)] /\ backlog \in Seq(Conns)
      /\ Apart(Lines, pool, opt.buffers)
  BY DEF LGood, Sound, BenchTypes, LRecv
<1>2. LInv
  BY <1>1 DEF LGood, Running
<1>3. UNCHANGED <<opt, s, partial, backlog>>
  BY DEF LRecv
<1>4. /\ \A x \in Spots : Lines[x] \in Seq(Buffers) /\ Distinct(Lines[x])
      /\ \A b \in Buffers : pool[b] \in {0, 1}
      /\ \A x, y \in Spots : x # y => Elems(Lines[x]) \cap Elems(Lines[y]) = {}
      /\ \A x \in Spots : Elems(Lines[x]) \cap Free(pool) = {}
  BY <1>1, ApartFacts
<1>5. PICK m \in Nat \ {0} : m = ndescs
  BY <1>1, MessageFacts
<1>6. PICK n \in Nat \ {0} : n = NAnswer
  BY <1>1, MessageFacts
<1>7. PICK k \in Conns : k = 1
  BY OneIsConn
<1>8. PICK x \in Spots : x = <<"client", k>>
  BY SpotsAre
<1>9. PICK y \in Spots : y = <<"own", k>>
  BY SpotsAre
<1>10. ndescs' = ndescs /\ NAnswer' = NAnswer
  BY <1>3, SameOptions
<1>11. PICK ds \in Seq(Desc) : ds = wire["client"][k]
  BY <1>1, WireAt, PeersAre
<1>12. CASE ds = << >>
  <2>1. c' = [c EXCEPT !.at = "exit"] /\ UNCHANGED <<descs, pool, wire>>
    BY <1>7, <1>11, <1>12 DEF LRecv, CExit
  <2>2. Sound' /\ ~Running'
    BY <1>1, <1>3, <1>4, <2>1, ClientGone
  <2> QED
    BY <2>2 DEF LGood
<1>13. CASE ds # << >>
  <2>1. /\ \A j \in Conns : j # 1 => Quiet(j)
        /\ Len(ds) = n /\ wire["server"][k] = << >> /\ partial = << >> /\ c.i = 0 /\ c.rsize = 0
        /\ Stray(Lines, pool, opt.buffers) = {}
    <3>1. ~Quiet(1)
      BY <1>7, <1>11, <1>13 DEF Quiet
    <3>2. Len(ds) = n /\ wire["server"][k] = << >> /\ partial = << >> /\ c.i = 0
      BY <1>1, <1>2, <1>6, <1>7, <1>11, <1>13, <3>1 DEF LInv
    <3>3. c.rsize = 0 /\ Stray(Lines, pool, opt.buffers) = {} /\ \A j \in Conns : j # 1 => Quiet(j)
      BY <1>1, <1>2, <3>1, <3>2 DEF LInv
    <3> QED
      BY <3>2, <3>3
  <2>2. PICK q \in Seq(Buffers) : q = Bufs(ds) /\ Len(q) = n
    BY <2>1, BufsFacts
  <2>3. Lines[x] = q /\ Distinct(q) /\ Elems(q) \cap Free(pool) = {}
    <3>1. Lines[x] = q
      BY <1>8, <1>11, <2>2, LinesAt DEF LinesAre
    <3> QED
      BY <1>4, <3>1
  <2>4. \A j \in Conns : OwnLen(j) = 0
    BY <1>1, <2>1 DEF OwnLen
  <2>5. Lines[y] = << >>
    BY <1>9, <2>4, LinesAt DEF LinesAre
  <2>6. PICK now : now = Landed(ds)
    OBVIOUS
  <2>7. now \in Seq(Buffers) /\ Len(now) >= n /\ \A i \in 1 .. n : now[i] = q[i]
    <3>1. descs[1] \in Seq(Buffers)
      BY <1>1, OneIsConn
    <3>2. /\ now \in Seq(Buffers) /\ Len(now) >= Len(ds)
          /\ \A i \in 1 .. Len(ds) : now[i] = Bufs(ds)[i]
      BY <2>1, <2>6, <3>1, LandedFacts
    <3> QED
      BY <2>1, <2>2, <3>2
  <2>8. ASSUME NEW i \in Nat \ {0}, NEW j \in Nat, j <= n, i <= j + 1
        PROVE  SubSeq(now, i, j) = SubSeq(q, i, j)
    BY <2>2, <2>7, <2>8, SameCut
  <2>9. PICK rd : rd = c.i + Len(ds)
    OBVIOUS
  <2>10. rd = n
    BY <2>1, <2>9
  <2>11. PICK rsize : rsize = c.rsize + Bytes(ds)
    OBVIOUS
  <2>12. rsize \in Received
    BY <2>1, <2>11 DEF Received
  <2>13. /\ wire' = Put(wire, "client", k, << >>)
         /\ descs' = [descs EXCEPT ![k] = now]
         /\ \/ /\ pool' = With(SubSeq(now, Excess(rd), rd))
               /\ \E at \in {"send", "end"} : c' = [c EXCEPT !.n = @ + 1, !.at = at]
            \/ c' = [c EXCEPT !.i = rd, !.rsize = rsize] /\ UNCHANGED pool
    BY <1>7, <1>11, <1>13, <2>6, <2>9, <2>11 DEF LRecv, Put
  <2>14. /\ wire' \in Wires /\ wire'["client"][k] = << >>
         /\ \A f \in Ends, j \in Conns : f # "client" \/ j # k => wire'[f][j] = wire[f][j]
    <3>1. << >> \in Seq(Desc)
      BY EmptySeq
    <3>2. PICK w : w = wire'
      OBVIOUS
    <3>3. Replaced(wire, w, "client", k, << >>)
      BY <1>1, <2>13, <3>1, <3>2, PutAt, PeersAre
    <3> QED
      BY <3>2, <3>3 DEF Replaced
  <2>15. descs' \in [Conns -> Seq(Buffers)] /\ descs'[k] = now
    BY <1>1, <2>7, <2>13
  <2>16. (\A j \in Conns : j # 1 => Quiet(j)') /\ Quiet(1)' /\ partial' = << >>
    BY <1>3, <1>7, <2>1, <2>14, PeersAre DEF Quiet
  <2>17. Lines'[x] = << >> /\ Elems(Lines'[x]) = {} /\ Lines'[x] \in Seq(Buffers) /\ Distinct(Lines'[x])
    <3>1. Bufs(<< >>) = << >>
      BY BufsFacts, EmptySeq
    <3>2. Lines'[x] = Bufs(wire'["client"][k])
      BY <1>8, LinesAtNext DEF LinesAre
    <3> QED
      BY <2>14, <3>1, <3>2, NoElems
  <2>18. ASSUME \A j \in Conns : j # k => OwnLen(j)' = 0 PROVE Kept(x, y)
    <3>1. \A j \in Conns : /\ wire'["server"][j] = wire["server"][j]
                           /\ j # k => wire'["client"][j] = wire["client"][j]
      BY <2>14, PeersAre
    <3> QED
      BY <1>3, <1>8, <1>9, <2>4, <2>18, <3>1 DEF Kept
  <2>19. ASSUME NEW own \in Seq(Buffers), NEW back \in Seq(Buffers), Parts(q, own, back), pool' = With(back),
                Lines'[y] = own, \A j \in Conns : j # k => OwnLen(j)' = 0
         PROVE  /\ Apart(Lines, pool, opt.buffers)'
                /\ Stray(Lines, pool, opt.buffers)' = {}
    <3>1. /\ Elems(own) \cup Elems(back) = Elems(q) /\ Distinct(own) /\ Distinct(back)
          /\ Elems(own) \cap Elems(back) = {}
      BY <2>3, <2>19 DEF Parts
    <3>2. Elems(back) \cap Free(pool) = {} /\ Elems(own) \cap Free(pool) = {}
      BY <2>3, <3>1
    <3>3. (\A b \in Buffers : With(back)[b] \in {0, 1}) /\ Free(With(back)) = Free(pool) \cup Elems(back)
      <4>1. \A b \in Buffers : pool[b] \in {0, 1}
        BY <1>4
      <4> QED
        BY <3>1, <3>2, <4>1, WithFree
    <3>4. (\A b \in Buffers : pool'[b] \in {0, 1}) /\ Free(pool') = Free(pool) \cup Elems(back)
      BY <2>19, <3>3
    <3>5. Lines'[y] \in Seq(Buffers) /\ Distinct(Lines'[y]) /\ Elems(Lines'[y]) = Elems(own)
      BY <2>19, <3>1
    <3>6. Elems(Lines[x]) = Elems(q) /\ Elems(Lines[y]) = {}
      BY <2>3, <2>5, NoElems
    <3>7. /\ Elems(Lines'[x]) \cap Elems(Lines'[y]) = {}
          /\ Elems(Lines'[x]) \cap Free(pool') = {} /\ Elems(Lines'[y]) \cap Free(pool') = {}
          /\ Elems(Lines'[x]) \cup Elems(Lines'[y]) \cup Free(pool') = Elems(Lines[x]) \cup Elems(Lines[y]) \cup Free(pool)
      BY <2>17, <3>1, <3>2, <3>4, <3>5, <3>6
    <3>8. Kept(x, y)
      BY <2>18, <2>19
    <3>9. /\ Apart(Lines, pool, opt.buffers)'
          /\ Stray(Lines, pool, opt.buffers)' = Stray(Lines, pool, opt.buffers)
      BY <1>1, <2>17, <3>4, <3>5, <3>7, <3>8, Exchange
    <3> QED
      BY <2>1, <3>9
  <2>20. /\ SubSeq(q, 1, n) = q /\ 1 \in Nat \ {0} /\ n \in Nat /\ n <= n /\ 1 <= n + 1
         /\ Lines'[y] = SubSeq(now, 1, OwnLen(k)')
         /\ OwnLen(k)' = 0 => Lines'[y] = << >>
    <3>1. SubSeq(q, 1, n) = q
      BY <2>2, SubSeqFull
    <3>2. Lines'[y] = SubSeq(descs'[k], 1, OwnLen(k)') /\ (OwnLen(k)' = 0 => Lines'[y] = << >>)
      BY <1>9, LinesAtNext DEF LinesAre
    <3> QED
      BY <2>15, <3>1, <3>2
  <2>21. SubSeq(now, 1, n) = q
    BY <2>8, <2>20
  <2>22. CASE c' = [c EXCEPT !.i = rd, !.rsize = rsize] /\ UNCHANGED pool
    <3>1. c' \in ClientStates /\ c'.at = "recv" /\ c'.i = n /\ ClientStates' = ClientStates
      BY <1>1, <1>3, <2>10, <2>12, <2>22 DEF ClientStates
    <3>2. \A j \in Conns : OwnLen(j)' = IF j = k THEN n ELSE 0
      BY <1>1, <1>3, <1>7, <3>1 DEF OwnLen
    <3>3. Lines'[y] = q
      BY <2>20, <2>21, <3>2
    <3>4. Kept(x, y)
      BY <2>18, <3>2
    <3>5. /\ Lines'[y] \in Seq(Buffers) /\ Distinct(Lines'[y]) /\ Elems(Lines'[x]) \cap Elems(Lines'[y]) = {}
          /\ Elems(Lines'[x]) \cap Free(pool') = {} /\ Elems(Lines'[y]) \cap Free(pool') = {}
          /\ Elems(Lines'[x]) \cup Elems(Lines'[y]) \cup Free(pool') = Elems(Lines[x]) \cup Elems(Lines[y]) \cup Free(pool)
      BY <2>3, <2>5, <2>17, <2>22, <3>3, NoElems
    <3>6. \A b \in Buffers : pool'[b] \in {0, 1}
      BY <1>4, <2>22
    <3>7. /\ Apart(Lines, pool, opt.buffers)'
          /\ Stray(Lines, pool, opt.buffers)' = Stray(Lines, pool, opt.buffers)
      BY <1>1, <2>17, <3>4, <3>5, <3>6, Exchange
    <3>8. BenchTypes'
      BY <1>1, <1>3, <2>14, <2>15, <2>16, <3>1 DEF BenchTypes
    <3>9. LInv'
      <4>1. c'.i <= Len(descs'[1]) /\ c'.i = NAnswer' /\ c'.i # 0
        <5>1. Len(now) \in Nat
          BY <2>7, LenProperties
        <5> QED
          BY <1>6, <1>7, <1>10, <2>7, <2>15, <3>1, <5>1
      <4>2. Stray(Lines, pool, opt.buffers)' = {}
        BY <2>1, <3>7
      <4> QED
        BY <2>16, <3>1, <4>1, <4>2 DEF LInv
    <3> QED
      BY <3>7, <3>8, <3>9 DEF LGood, Sound
  <2>23. CASE /\ pool' = With(SubSeq(now, Excess(rd), rd))
              /\ \E at \in {"send", "end"} : c' = [c EXCEPT !.n = @ + 1, !.at = at]
    <3>1. PICK at \in {"send", "end"} : c' = [c EXCEPT !.n = @ + 1, !.at = at]
      BY <2>23
    <3>2. c' \in ClientStates /\ c'.at = at /\ ClientStates' = ClientStates
      <4>1. c.n \in Nat
        BY <1>1 DEF ClientStates
      <4>2. c.n + 1 \in Nat
        BY <4>1
      <4> QED
        BY <1>1, <1>3, <3>1, <4>2 DEF ClientStates
    <3>3. \A j \in Conns : OwnLen(j)' = IF opt.reuse /\ j = k THEN m ELSE 0
      BY <1>1, <1>3, <1>5, <1>7, <1>10, <3>2 DEF OwnLen
    <3>4. /\ Apart(Lines, pool, opt.buffers)' /\ Stray(Lines, pool, opt.buffers)' = {}
          /\ opt.reuse => Len(descs'[k]) >= m
      <4>1. CASE opt.reuse
        <5>1. m <= n /\ m \in Nat
          BY <1>5, <1>6, <4>1 DEF Stale
        <5>2. PICK own : own = SubSeq(q, 1, m)
          OBVIOUS
        <5>3. PICK back : back = SubSeq(q, m + 1, Len(q))
          OBVIOUS
        <5>4. Parts(q, own, back)
          BY <2>2, <5>1, <5>2, <5>3, CutParts
        <5>5. own \in Seq(Buffers) /\ back \in Seq(Buffers)
          BY <5>4 DEF Parts
        <5>6. SubSeq(now, 1, m) = own
          <6>1. PICK g \in Nat \ {0} : g = 1 /\ g <= m + 1
            BY <5>1
          <6>2. SubSeq(now, g, m) = SubSeq(q, g, m)
            BY <2>8, <5>1, <6>1
          <6> QED
            BY <5>2, <6>1, <6>2
        <5>7. SubSeq(now, m + 1, n) = back
          <6>1. PICK g \in Nat \ {0} : g = m + 1 /\ g <= n + 1
            BY <5>1
          <6>2. SubSeq(now, g, n) = SubSeq(q, g, n)
            BY <2>8, <2>20, <6>1
          <6> QED
            BY <2>2, <5>3, <6>1, <6>2
        <5>8. pool' = With(back)
          BY <1>5, <2>10, <2>23, <4>1, <5>7 DEF Excess
        <5>9. Lines'[y] = own
          BY <2>20, <3>3, <4>1, <5>6
        <5>10. \A j \in Conns : j # k => OwnLen(j)' = 0
          BY <3>3
        <5>11. Apart(Lines, pool, opt.buffers)' /\ Stray(Lines, pool, opt.buffers)' = {}
          BY <2>19, <5>4, <5>5, <5>8, <5>9, <5>10
        <5>12. Len(now) \in Nat
          BY <2>7, LenProperties
        <5>13. Len(descs'[k]) >= m
          BY <2>7, <2>15, <5>1, <5>12
        <5> QED
          BY <5>11, <5>13
      <4>2. CASE ~opt.reuse
        <5>1. pool' = With(q)
          BY <2>10, <2>21, <2>23, <4>2 DEF Excess
        <5>2. PICK own : own = << >>
          OBVIOUS
        <5>3. Lines'[y] = own /\ own \in Seq(Buffers)
          BY <2>20, <3>3, <4>2, <5>2, NoElems
        <5>4. Parts(q, own, q)
          BY <5>2, NoElems DEF Parts
        <5>5. \A j \in Conns : j # k => OwnLen(j)' = 0
          BY <3>3
        <5> QED
          BY <2>19, <4>2, <5>1, <5>3, <5>4, <5>5
      <4> QED
        BY <4>1, <4>2
    <3>5. BenchTypes'
      BY <1>1, <1>3, <2>14, <2>15, <2>16, <3>2 DEF BenchTypes
    <3>6. LInv'
      BY <1>3, <1>5, <1>7, <1>10, <2>16, <3>2, <3>4 DEF LInv
    <3> QED
      BY <3>4, <3>5, <3>6 DEF LGood, Sound
  <2> QED
    BY <2>13, <2>22, <2>23
<1> QED
  BY <1>12, <1>13

LEMMA LEndGood ==
  ASSUME LGood, opt.prog = "latency", LEnd PROVE LGood'
<1>1. /\ Sound /\ BenchTypes /\ opt \in Options /\ c \in ClientStates /\ c.at = "end"
      /\ Apart(Lines, pool, opt.buffers)
  BY DEF LGood, Sound, BenchTypes, LEnd
<1>2. LInv
  BY <1>1 DEF LGood, Running
<1>3. UNCHANGED <<opt, s, descs, partial, wire, backlog>>
  BY DEF LEnd
<1>4. c' \in ClientStates /\ c'.at = "done" /\ ClientStates' = ClientStates
  BY <1>1, <1>3 DEF LEnd, ClientStates
<1>5. BenchTypes'
  BY <1>1, <1>3, <1>4 DEF BenchTypes
<1>6. PICK x \in Spots : x = <<"own", 1>>
  BY OneIsConn, SpotsAre
<1>7. /\ \A j \in Conns : OwnLen(j)' = 0 /\ (j # 1 => OwnLen(j) = 0)
      /\ OwnLen(1) = IF opt.reuse THEN ndescs ELSE 0
  BY <1>1, <1>3, <1>4 DEF OwnLen
<1>8. Kept(x, x)
  BY <1>3, <1>6, <1>7 DEF Kept
<1>9. /\ Lines[x] \in Seq(Buffers) /\ Distinct(Lines[x]) /\ Elems(Lines[x]) \cap Free(pool) = {}
      /\ \A b \in Buffers : pool[b] \in {0, 1}
  BY <1>1, ApartFacts
<1>10. Lines'[x] = << >> /\ Elems(Lines'[x]) = {} /\ Lines'[x] \in Seq(Buffers) /\ Distinct(Lines'[x])
  BY <1>6, <1>7, OneIsConn, LinesAtNext, NoElems DEF LinesAre
<1>11. (\A b \in Buffers : pool'[b] \in {0, 1}) /\ Free(pool') = Free(pool) \cup Elems(Lines[x])
  <2>1. CASE opt.reuse
    <3>1. PICK q : q = Lines[x]
      OBVIOUS
    <3>2. q = SubSeq(descs[1], 1, ndescs)
      BY <1>6, <1>7, <2>1, <3>1, OneIsConn, LinesAt DEF LinesAre
    <3>3. pool' = With(q)
      BY <2>1, <3>2 DEF LEnd
    <3>4. (\A b \in Buffers : With(q)[b] \in {0, 1}) /\ Free(With(q)) = Free(pool) \cup Elems(q)
      BY <1>9, <3>1, WithFree
    <3> QED
      BY <3>1, <3>3, <3>4
  <2>2. CASE ~opt.reuse
    <3>1. pool' = pool /\ Lines[x] = << >>
      BY <1>6, <1>7, <2>2, OneIsConn, LinesAt DEF LEnd, LinesAre
    <3> QED
      BY <1>9, <3>1, NoElems
  <2> QED
    BY <2>1, <2>2
<1>12. /\ Elems(Lines'[x]) \cap Free(pool') = {}
       /\ Elems(Lines'[x]) \cup Elems(Lines'[x]) \cup Free(pool') = Elems(Lines[x]) \cup Elems(Lines[x]) \cup Free(pool)
  BY <1>10, <1>11
<1>13. /\ Apart(Lines, pool, opt.buffers)'
       /\ Stray(Lines, pool, opt.buffers)' = Stray(Lines, pool, opt.buffers)
  BY <1>1, <1>8, <1>10, <1>11, <1>12, Exchange
<1>14. (\A k \in Conns : k # 1 => Quiet(k)) /\ Quiet(1) /\ partial = << >>
       /\ Stray(Lines, pool, opt.buffers) = {}
  BY <1>1, <1>2 DEF LInv
<1>15. (\A k \in Conns : k # 1 => Quiet(k)') /\ Quiet(1)' /\ partial' = << >>
  BY <1>3, <1>14 DEF Quiet
<1>16. LInv'
  BY <1>4, <1>13, <1>14, <1>15 DEF LInv
<1> QED
  BY <1>5, <1>13, <1>16 DEF LGood, Sound

-----------------------------------------------------------------------------
(* The latency server *)

LEMMA LServerIdle ==
  ASSUME LGood, UNCHANGED <<opt, c, descs, partial, pool, wire>>, BenchTypes' PROVE LGood'
<1>1. \A k \in Conns : OwnLen(k)' = OwnLen(k)
  BY DEF OwnLen, ndescs, NextReady
<1>2. Sound' /\ Stray(Lines, pool, opt.buffers)' = Stray(Lines, pool, opt.buffers)
  BY <1>1, Unmoved DEF LGood
<1>3. ndescs' = ndescs /\ NAnswer' = NAnswer /\ (Running' => Running)
  BY SameOptions DEF Running
<1>4. (Quiet(1)' <=> Quiet(1)) /\ \A k \in Conns : Quiet(k)' <=> Quiet(k)
  BY DEF Quiet
<1>5. LInv => LInv'
  BY <1>2, <1>3, <1>4 DEF LInv
<1> QED
  BY <1>2, <1>3, <1>5 DEF LGood

LEMMA LListenGood == ASSUME LGood, LListen PROVE LGood'
<1>1. BenchTypes /\ UNCHANGED <<opt, c, descs, partial, pool, wire, backlog, closed>>
  BY DEF LGood, Sound, LListen
<1>2. s' = [s EXCEPT !.at = "accept"] /\ ClientStates' = ClientStates
  BY <1>1 DEF LListen, ClientStates
<1>3. s' \in ServerStates /\ s'.at = "accept"
  BY <1>1, <1>2 DEF BenchTypes, ServerStates
<1>4. BenchTypes'
  BY <1>1, <1>2, <1>3 DEF BenchTypes
<1> QED
  BY <1>1, <1>4, LServerIdle

LEMMA LAcceptGood == ASSUME LGood, LAccept PROVE LGood'
<1>1. BenchTypes /\ UNCHANGED <<opt, c, descs, partial, pool, wire>>
  BY DEF LGood, Sound, LAccept
<1>2. s' = [s EXCEPT !.at = "recv"] /\ ClientStates' = ClientStates
  BY <1>1 DEF LAccept, ClientStates
<1>3. s' \in ServerStates /\ s'.at = "recv"
  BY <1>1, <1>2 DEF BenchTypes, ServerStates
<1>4. backlog' \in Seq(Conns)
  BY <1>1, HeadTailProperties DEF BenchTypes, LAccept
<1>5. BenchTypes'
  BY <1>1, <1>2, <1>3, <1>4 DEF BenchTypes
<1> QED
  BY <1>1, <1>5, LServerIdle

LEMMA LServeGood ==
  ASSUME LGood, opt.prog = "latency", LServe PROVE LGood'
<1>1. /\ Sound /\ BenchTypes /\ opt \in Options /\ s \in ServerStates /\ s.at = "recv"
      /\ wire \in Wires /\ (partial = << >> \/ wire["server"][1] = << >>)
      /\ Apart(Lines, pool, opt.buffers)
  BY DEF LGood, Sound, BenchTypes, LServe
<1>2. PICK k \in Conns : k = 1
  BY OneIsConn
<1>3. PICK ds \in Seq(Desc) : ds = wire["server"][k]
  BY <1>1, WireAt, PeersAre
<1>4. UNCHANGED <<opt, c, descs, backlog>>
  BY DEF LServe
<1>5. ClientStates' = ClientStates /\ ndescs' = ndescs /\ NAnswer' = NAnswer /\ (Running' => Running)
  BY <1>4, SameOptions DEF ClientStates, Running
<1>6. \A at \in {"done", "exit"} : [s EXCEPT !.at = at] \in ServerStates /\ [s EXCEPT !.at = at].at = at
  BY <1>1 DEF ServerStates
<1>7. CASE ds = << >>
  <2>1. s' = [s EXCEPT !.at = "done"] /\ UNCHANGED <<partial, pool, wire>>
    BY <1>2, <1>3, <1>7 DEF LServe
  <2>2. s' \in ServerStates /\ s'.at = "done"
    BY <1>6, <2>1
  <2>3. BenchTypes'
    BY <1>1, <1>4, <1>5, <2>1, <2>2 DEF BenchTypes
  <2> QED
    BY <1>4, <2>1, <2>3, LServerIdle
<1>8. CASE ds # << >>
  <2>1. partial = << >> /\ partial \o ds = ds
    BY <1>1, <1>2, <1>3, <1>8, ConcatEmptySeq
  <2>2. /\ \A x \in Spots : Lines[x] \in Seq(Buffers) /\ Distinct(Lines[x])
        /\ \A b \in Buffers : pool[b] \in {0, 1}
        /\ \A x \in Spots : Elems(Lines[x]) \cap Free(pool) = {}
    BY <1>1, ApartFacts
  <2>3. PICK x \in Spots : x = <<"server", k>>
    BY SpotsAre
  <2>4. Lines[x] = Bufs(ds) /\ Distinct(Bufs(ds)) /\ Elems(Bufs(ds)) \cap Free(pool) = {} /\ Bufs(ds) \in Seq(Buffers)
    <3>1. Lines[x] = Bufs(ds)
      BY <1>3, <2>3, LinesAt DEF LinesAre
    <3> QED
      BY <2>2, <3>1
  <2>5. ASSUME Running
        PROVE  /\ c.at = "recv" /\ Len(ds) = ndescs /\ wire["client"][1] = << >> /\ c.i = 0 /\ c.rsize = 0
               /\ Stray(Lines, pool, opt.buffers) = {} /\ 0 <= Len(descs[1])
               /\ \A j \in Conns : j # 1 => Quiet(j)
    <3>1. LInv /\ ~Quiet(1)
      BY <1>2, <1>3, <1>8, <2>5 DEF LGood, Quiet
    <3>2. c.at = "recv"
      BY <3>1 DEF LInv
    <3>3. Len(ds) = ndescs /\ wire["client"][1] = << >> /\ c.i = 0 /\ c.i <= Len(descs[1])
      BY <1>2, <1>3, <1>8, <3>1, <3>2 DEF LInv
    <3>4. c.rsize = 0 /\ Stray(Lines, pool, opt.buffers) = {} /\ \A j \in Conns : j # 1 => Quiet(j)
      BY <3>1, <3>2, <3>3 DEF LInv
    <3> QED
      BY <3>2, <3>3, <3>4
  <2>6. \/ /\ partial' = ds /\ wire' = Put(wire, "server", k, << >>) /\ UNCHANGED <<s, pool>>
        \/ /\ partial' = << >> /\ wire' = Put(wire, "server", k, << >>)
           /\ \E at \in {"done", "exit"} : s' = [s EXCEPT !.at = at]
           /\ pool' \in {pool, With(Bufs(ds))}
        \/ /\ partial' = << >> /\ CanAnswer(ds) /\ pool' = AnswerPool(ds) /\ UNCHANGED s
           /\ wire' = Sent(Put(wire, "server", k, << >>), "server", k, Answer(ds))
    BY <1>2, <1>3, <1>8, <2>1 DEF LServe, Put, SExit
  <2>7. CASE partial' = ds /\ wire' = Put(wire, "server", k, << >>) /\ UNCHANGED <<s, pool>>
    <3>1. PICK y \in Spots : y = <<"part", k>>
      BY SpotsAre
    <3>2. /\ wire' \in Wires /\ wire'["server"][k] = << >>
          /\ \A f \in Ends, j \in Conns : f # "server" \/ j # k => wire'[f][j] = wire[f][j]
      <4>1. << >> \in Seq(Desc)
        BY EmptySeq
      <4>2. PICK w : w = wire'
        OBVIOUS
      <4>3. Replaced(wire, w, "server", k, << >>)
        BY <1>1, <2>7, <4>1, <4>2, PutAt, PeersAre
      <4> QED
        BY <4>2, <4>3 DEF Replaced
    <3>3. Kept(x, y)
      <4>1. \A j \in Conns : /\ wire'["client"][j] = wire["client"][j]
                             /\ j # k => wire'["server"][j] = wire["server"][j]
        BY <3>2, PeersAre
      <4>2. \A j \in Conns : OwnLen(j)' = OwnLen(j)
        BY <1>4 DEF OwnLen, ndescs, NextReady
      <4> QED
        BY <1>2, <1>4, <2>3, <3>1, <4>1, <4>2 DEF Kept
    <3>4. Lines'[x] = << >> /\ Lines'[y] = Bufs(ds) /\ Lines[y] = << >>
      <4>1. Bufs(<< >>) = << >>
        BY BufsFacts, EmptySeq
      <4>2. /\ Lines'[x] = Bufs(wire'["server"][k]) /\ Lines'[y] = Bufs(partial')
            /\ Lines[y] = Bufs(partial)
        BY <1>2, <2>3, <3>1, LinesAt, LinesAtNext DEF LinesAre
      <4> QED
        BY <2>1, <2>7, <3>2, <4>1, <4>2
    <3>5. /\ Lines'[x] \in Seq(Buffers) /\ Distinct(Lines'[x]) /\ Lines'[y] \in Seq(Buffers) /\ Distinct(Lines'[y])
          /\ \A b \in Buffers : pool'[b] \in {0, 1}
      BY <2>2, <2>4, <2>7, <3>4, NoElems
    <3>6. /\ Elems(Lines'[x]) \cap Elems(Lines'[y]) = {}
          /\ Elems(Lines'[x]) \cap Free(pool') = {} /\ Elems(Lines'[y]) \cap Free(pool') = {}
          /\ Elems(Lines'[x]) \cup Elems(Lines'[y]) \cup Free(pool') = Elems(Lines[x]) \cup Elems(Lines[y]) \cup Free(pool)
      BY <2>4, <2>7, <3>4, NoElems
    <3>7. /\ Apart(Lines, pool, opt.buffers)'
          /\ Stray(Lines, pool, opt.buffers)' = Stray(Lines, pool, opt.buffers)
      BY <1>1, <3>3, <3>5, <3>6, Exchange
    <3>8. BenchTypes'
      <4>1. wire'["server"][1] = << >> /\ partial' \in Seq(Desc)
        BY <1>2, <2>7, <3>2
      <4> QED
        BY <1>1, <1>4, <1>5, <2>7, <3>2, <4>1 DEF BenchTypes
    <3>9. ASSUME Running PROVE LInv'
      <4>1. \A j \in Conns : j # 1 => Quiet(j)'
        BY <1>2, <2>5, <3>2, <3>9, PeersAre DEF Quiet
      <4>2. Quiet(1)'
        BY <1>2, <2>5, <3>2, <3>9, PeersAre DEF Quiet
      <4>3. Len(partial') = ndescs' /\ c'.at = "recv" /\ c'.i = 0 /\ c'.rsize = 0 /\ 0 <= Len(descs'[1])
        BY <1>4, <1>5, <2>5, <2>7, <3>9
      <4>4. Stray(Lines, pool, opt.buffers)' = {}
        BY <2>5, <3>7, <3>9
      <4> QED
        BY <4>1, <4>2, <4>3, <4>4 DEF LInv
    <3> QED
      BY <1>5, <3>7, <3>8, <3>9 DEF LGood, Sound
  <2>8. CASE /\ partial' = << >> /\ wire' = Put(wire, "server", k, << >>)
             /\ \E at \in {"done", "exit"} : s' = [s EXCEPT !.at = at]
             /\ pool' \in {pool, With(Bufs(ds))}
    <3>1. (\A b \in Buffers : pool'[b] \in {0, 1}) /\ Free(pool') \subseteq Elems(Bufs(ds)) \cup Free(pool)
      <4>1. CASE pool' = pool
        BY <2>2, <4>1
      <4>2. CASE pool' = With(Bufs(ds))
        <5>1. PICK q : q = Bufs(ds)
          OBVIOUS
        <5>2. (\A b \in Buffers : With(q)[b] \in {0, 1}) /\ Free(With(q)) = Free(pool) \cup Elems(q)
          BY <2>2, <2>4, <5>1, WithFree
        <5> QED
          BY <4>2, <5>1, <5>2
      <4> QED
        BY <2>8, <4>1, <4>2
    <3>2. UNCHANGED <<opt, c, descs, partial>>
      BY <1>4, <2>1, <2>8
    <3>3. /\ Apart(Lines, pool, opt.buffers)'
          /\ wire' \in Wires /\ wire'["server"][k] = << >> /\ wire'["client"][k] = wire["client"][k]
          /\ \A j \in Conns : j # k => /\ wire'["client"][j] = wire["client"][j]
                                       /\ wire'["server"][j] = wire["server"][j]
      BY <1>1, <1>3, <2>8, <3>1, <3>2, RequestLost
    <3>4. s' \in ServerStates /\ s'.at # "scan"
      BY <1>6, <2>8
    <3>5. BenchTypes'
      BY <1>1, <1>4, <1>5, <2>8, <3>2, <3>3, <3>4 DEF BenchTypes
    <3>6. ASSUME Running PROVE LInv'
      <4>1. (\A j \in Conns : j # 1 => Quiet(j)') /\ Quiet(1)'
        BY <1>2, <2>5, <3>3, <3>6 DEF Quiet
      <4>2. partial' = << >> /\ c'.at = "recv" /\ c'.i = 0 /\ c'.rsize = 0 /\ 0 <= Len(descs'[1])
        BY <1>4, <2>5, <2>8, <3>6
      <4> QED
        BY <4>1, <4>2 DEF LInv
    <3> QED
      BY <1>5, <3>3, <3>5, <3>6 DEF LGood, Sound
  <2>9. CASE /\ partial' = << >> /\ CanAnswer(ds) /\ pool' = AnswerPool(ds) /\ UNCHANGED s
             /\ wire' = Sent(Put(wire, "server", k, << >>), "server", k, Answer(ds))
    <3>1. UNCHANGED <<opt, c, descs, partial>>
      BY <1>4, <2>1, <2>9
    <3>2. /\ Apart(Lines, pool, opt.buffers)'
          /\ Stray(Lines, pool, opt.buffers)' = Stray(Lines, pool, opt.buffers)
          /\ wire' \in Wires /\ wire'["server"][k] = << >>
          /\ Len(wire'["client"][k]) = Len(wire["client"][k]) + NSend(Len(ds))
          /\ \A j \in Conns : j # k => /\ wire'["client"][j] = wire["client"][j]
                                       /\ wire'["server"][j] = wire["server"][j]
      BY <1>1, <1>3, <1>8, <2>9, <3>1, ServeLines
    <3>3. BenchTypes'
      BY <1>1, <1>4, <1>5, <2>9, <3>1, <3>2 DEF BenchTypes
    <3>4. ASSUME Running PROVE LInv'
      <4>1. \A j \in Conns : j # 1 => Quiet(j)'
        BY <1>2, <2>5, <3>2, <3>4 DEF Quiet
      <4>2. NAnswer = NSend(ndescs) /\ NAnswer \in Nat \ {0} /\ Len(<< >>) = 0
        BY <1>1, MessageFacts, EmptySeq
      <4>3. Len(wire'["client"][1]) = NAnswer' /\ wire'["server"][1] = << >>
        BY <1>2, <1>5, <2>5, <3>2, <3>4, <4>2
      <4>4. partial' = << >> /\ c'.at = "recv" /\ c'.i = 0 /\ c'.rsize = 0 /\ 0 <= Len(descs'[1])
        BY <1>4, <2>5, <2>9, <3>4
      <4>5. Stray(Lines, pool, opt.buffers)' = {}
        BY <2>5, <3>2, <3>4
      <4> QED
        BY <4>1, <4>3, <4>4, <4>5 DEF LInv
    <3> QED
      BY <1>5, <3>2, <3>3, <3>4 DEF LGood, Sound
  <2> QED
    BY <2>6, <2>7, <2>8, <2>9
<1> QED
  BY <1>7, <1>8

LEMMA LStep ==
  ASSUME LGood, ~Stale, opt.prog = "latency", LClient \/ LListen \/ LServer PROVE LGood'
<1>1. CASE LConnect
  BY <1>1, LConnectGood
<1>2. CASE LSend
  BY <1>2, LSendGood
<1>3. CASE LRecv
  BY <1>3, LRecvGood
<1>4. CASE LEnd
  BY <1>4, LEndGood
<1>5. CASE LListen
  BY <1>5, LListenGood
<1>6. CASE LAccept
  BY <1>6, LAcceptGood
<1>7. CASE LServe
  BY <1>7, LServeGood
<1> QED
  BY <1>1, <1>2, <1>3, <1>4, <1>5, <1>6, <1>7 DEF LClient, LServer

-----------------------------------------------------------------------------
(* The invariant holds *)

LEMMA SameOpt == Next => opt' = opt
BY DEF Next, TClient, TServer, LClient, LServer, TConnect, TFirst, TPoll, TRecv, TAgain, TTime, TFinal,
       ClientSend, ClientRecv, TListen, TServerPoll, TServe, TAccept, LConnect, LSend, LRecv, LEnd,
       LListen, LAccept, LServe

LEMMA NoLines ==
  ASSUME \A k \in Conns : OwnLen(k) = 0 /\ Quiet(k), partial = << >>
  PROVE  \A x \in Spots : Lines[x] = << >> /\ Elems(Lines[x]) = {}
<1> SUFFICES ASSUME NEW x \in Spots PROVE Lines[x] = << >>
  BY NoElems
<1>1. PICK k \in Conns : x \in {<<"client", k>>, <<"server", k>>, <<"own", k>>, <<"part", k>>}
  BY SpotsAre
<1>2. Bufs(<< >>) = << >>
  BY BufsFacts, EmptySeq
<1>3. OwnLen(k) = 0 /\ wire["server"][k] = << >> /\ wire["client"][k] = << >>
  BY DEF Quiet
<1>4. /\ Lines[<<"client", k>>] = Bufs(wire["client"][k])
      /\ Lines[<<"server", k>>] = Bufs(wire["server"][k])
      /\ Lines[<<"part", k>>] = IF k = 1 THEN Bufs(partial) ELSE << >>
      /\ Lines[<<"own", k>>] = << >>
  BY <1>3, LinesAt DEF LinesAre
<1>5. /\ Lines[<<"client", k>>] = << >> /\ Lines[<<"server", k>>] = << >>
      /\ Lines[<<"part", k>>] = << >> /\ Lines[<<"own", k>>] = << >>
  BY <1>2, <1>3, <1>4
<1> QED
  BY <1>1, <1>5

LEMMA BenchInit == Init => BenchInv
<1> SUFFICES ASSUME Init PROVE BenchInv
  OBVIOUS
<1>1. opt \in Options /\ (opt.prog = "latency" => opt.conns = 1)
  BY DEF Init
<1>2. /\ c = [at |-> "connect", i |-> 1, ready |-> {}, n |-> 0, rsize |-> 0]
      /\ s = [at |-> "off", i |-> 1, ready |-> {}, socks |-> << >>, started |-> FALSE]
      /\ descs = [k \in Conns |-> << >>] /\ partial = << >> /\ backlog = << >>
      /\ wire = [e \in Ends |-> [k \in Conns |-> << >>]]
      /\ pool = [b \in Buffers |-> IF b <= opt.buffers THEN 1 ELSE 0]
  BY DEF Init
<1>3. << >> \in Seq(Desc) /\ << >> \in Seq(Conns) /\ << >> \in Seq(Buffers)
  BY EmptySeq
<1>4. c \in ClientStates /\ s \in ServerStates
  <2>1. c \in ClientStates
    BY <1>2 DEF ClientStates, Received
  <2>2. s \in ServerStates
    BY <1>2, <1>3 DEF ServerStates
  <2> QED
    BY <2>1, <2>2
<1>5. wire \in Wires /\ descs \in [Conns -> Seq(Buffers)]
  BY <1>2, <1>3 DEF Wires
<1>6. \A k \in Conns : Quiet(k)
  BY <1>2, PeersAre DEF Quiet
<1>7. BenchTypes
  BY <1>1, <1>2, <1>3, <1>4, <1>5 DEF BenchTypes
<1>8. (\A k \in Conns : k \in Nat \ {0}) /\ opt.conns \in Nat \ {0} /\ opt.buffers \in Nat /\ 1 .. opt.buffers \subseteq Buffers
  BY <1>1, ConnIs, OptionFacts
<1>9. \A k \in Conns : OwnLen(k) = 0 /\ ~Awaits(k)
  BY <1>2, <1>8 DEF OwnLen, Awaits
<1>10. \A x \in Spots : Lines[x] = << >> /\ Elems(Lines[x]) = {}
  BY <1>2, <1>6, <1>9, NoLines
<1>11. (\A b \in Buffers : pool[b] \in {0, 1}) /\ Free(pool) = 1 .. opt.buffers
  <2>1. PICK n \in Nat : Buffers = 1 .. n
    BY BuffersFinite
  <2>2. \A b \in Buffers : pool[b] \in {0, 1} /\ (pool[b] > 0 <=> b <= opt.buffers)
    BY <1>2
  <2>3. \A b \in Buffers : b <= opt.buffers <=> b \in 1 .. opt.buffers
    BY <1>8, <2>1
  <2> QED
    BY <1>8, <2>2, <2>3 DEF Free
<1>12. Apart(Lines, pool, opt.buffers)
  BY <1>10, <1>11, NoElems DEF Apart
<1>13. Stray(Lines, pool, opt.buffers) = {}
  BY <1>11 DEF Stray
<1>14. Sound
  BY <1>7, <1>12 DEF Sound
<1>15. CASE opt.prog = "throughput"
  <2>1. TAt
    BY <1>2, <1>8 DEF TAt
  <2>2. Connected = 0
    BY <1>2 DEF Connected
  <2>3. TDescs
    BY <1>8, <2>2 DEF TDescs
  <2>4. TStray
    <3>1. PICK S : S = Stray(Lines, pool, opt.buffers)
      OBVIOUS
    <3>2. Cardinality(S) = 0
      BY <1>13, <3>1, FS_EmptySet
    <3>3. 0 * ndescs = 0
      <4>1. PICK m \in Nat : m = ndescs
        BY <1>1, MessageFacts
      <4> QED
        BY <4>1
    <3> QED
      BY <2>2, <3>1, <3>2, <3>3 DEF TStray
  <2>5. TInv
    BY <1>6, <1>9, <2>3, <2>4 DEF TInv, TLine
  <2> QED
    BY <1>14, <1>15, <2>1, <2>5 DEF BenchInv
<1>16. CASE opt.prog # "throughput"
  <2>1. LInv
    BY <1>2, <1>6, <1>13, OneIsConn DEF LInv
  <2> QED
    BY <1>14, <1>16, <2>1 DEF BenchInv
<1> QED
  BY <1>15, <1>16

LEMMA BenchStep == BenchInv /\ [Next]_vars => BenchInv'
<1> SUFFICES ASSUME BenchInv, [Next]_vars, ~Stale' PROVE BenchInv'
  BY DEF BenchInv
<1>1. opt' = opt
  BY SameOpt DEF vars
<1>2. ~Stale
  BY <1>1, SameOptions
<1>3. CASE opt.prog = "throughput"
  <2>1. TGood
    BY <1>2, <1>3 DEF BenchInv, TGood
  <2>2. TGood'
    <3>1. CASE Next
      <4>1. TClient \/ TListen \/ TServer
        BY <1>3, <3>1 DEF Next
      <4> QED
        BY <1>2, <1>3, <2>1, <4>1, TStep
    <3>2. CASE UNCHANGED vars
      <4>1. UNCHANGED <<opt, c, s, descs, partial, pool, wire, backlog>>
        BY <3>2 DEF vars
      <4>2. BenchTypes'
        BY <2>1, <4>1 DEF TGood, Sound, BenchTypes, ClientStates
      <4> QED
        BY <2>1, <4>1, <4>2, TServerIdle
    <3> QED
      BY <3>1, <3>2
  <2> QED
    BY <1>1, <1>3, <2>2 DEF BenchInv, TGood
<1>4. CASE opt.prog # "throughput"
  <2>1. LGood
    BY <1>2, <1>4 DEF BenchInv, LGood
  <2>2. opt.prog = "latency"
    BY <1>4, <2>1 DEF LGood, Sound, BenchTypes, Options
  <2>3. LGood'
    <3>1. CASE Next
      <4>1. LClient \/ LListen \/ LServer
        BY <1>4, <3>1 DEF Next
      <4> QED
        BY <1>2, <2>1, <2>2, <4>1, LStep
    <3>2. CASE UNCHANGED vars
      <4>1. UNCHANGED <<opt, c, s, descs, partial, pool, wire, backlog>>
        BY <3>2 DEF vars
      <4>2. BenchTypes'
        BY <2>1, <4>1 DEF LGood, Sound, BenchTypes, ClientStates
      <4> QED
        BY <2>1, <4>1, <4>2, LServerIdle
    <3> QED
      BY <3>1, <3>2
  <2> QED
    BY <1>1, <1>4, <2>3 DEF BenchInv, LGood
<1> QED
  BY <1>3, <1>4

\* What the invariant gives.
LEMMA InvOneOwner == BenchInv => OneOwner
<1> SUFFICES ASSUME BenchInv, ~Stale, NEW b \in Buffers PROVE Places(b) <= 1
  BY DEF OneOwner
<1>1. /\ \A x \in Spots : Lines[x] \in Seq(Buffers) /\ Distinct(Lines[x])
      /\ pool[b] \in {0, 1}
      /\ \A x, y \in Spots : x # y => Elems(Lines[x]) \cap Elems(Lines[y]) = {}
      /\ \A x \in Spots : Elems(Lines[x]) \cap Free(pool) = {}
      /\ wire \in Wires
  BY ApartFacts DEF BenchInv, Sound, BenchTypes
<1>2. PICK S : S = {x \in Ends \X Conns \X (1 .. Depth) :
                      x[3] <= Len(wire[x[1]][x[2]]) /\ wire[x[1]][x[2]][x[3]].buf = b}
  OBVIOUS
<1>3. Places(b) = pool[b] + Cardinality(S)
  BY <1>2 DEF Places
<1>4. ASSUME NEW x \in S
      PROVE  /\ x = <<x[1], x[2], x[3]>> /\ <<x[1], x[2]>> \in Spots
             /\ x[3] \in 1 .. Len(Lines[<<x[1], x[2]>>])
             /\ Lines[<<x[1], x[2]>>][x[3]] = b /\ b \in Elems(Lines[<<x[1], x[2]>>])
  <2>1. PICK e \in Ends, k \in Conns, i \in 1 .. Depth : x = <<e, k, i>>
    BY <1>2
  <2>2. x[1] = e /\ x[2] = k /\ x[3] = i
    BY <2>1
  <2>3. PICK l \in Seq(Desc) : l = wire[e][k]
    BY <1>1, WireAt
  <2>4. i <= Len(l) /\ l[i].buf = b
    BY <1>2, <2>2, <2>3
  <2>5. <<e, k>> \in Spots /\ Lines[<<e, k>>] = Bufs(l)
    BY <2>3, SpotsAre, LinesAt DEF LinesAre, Ends
  <2>6. Len(l) \in Nat /\ Len(Bufs(l)) = Len(l) /\ \A j \in 1 .. Len(l) : Bufs(l)[j] = l[j].buf
    BY BufsFacts
  <2>7. i \in 1 .. Len(l)
    BY <2>4, <2>6
  <2>8. i \in 1 .. Len(Bufs(l)) /\ Bufs(l)[i] = b
    BY <2>4, <2>6, <2>7
  <2>9. b \in Elems(Bufs(l))
    BY <2>8 DEF Elems
  <2> QED
    BY <2>1, <2>2, <2>5, <2>8, <2>9
<1>5. CASE S = {}
  <2>1. Cardinality(S) = 0
    BY <1>5, FS_EmptySet
  <2> QED
    BY <1>1, <1>3, <2>1
<1>6. CASE S # {}
  <2>1. PICK x \in S : TRUE
    BY <1>6
  <2>2. PICK z \in Spots : z = <<x[1], x[2]>> /\ b \in Elems(Lines[z])
    BY <1>4
  <2>3. pool[b] = 0
    <3>1. b \notin Free(pool)
      BY <1>1, <2>2
    <3> QED
      BY <1>1, <3>1 DEF Free
  <2>4. ASSUME NEW y \in S PROVE y = x
    <3>1. PICK v \in Spots : v = <<y[1], y[2]>> /\ b \in Elems(Lines[v])
      BY <1>4
    <3>2. v = z
      BY <1>1, <2>2, <3>1
    <3>3. x[1] = y[1] /\ x[2] = y[2]
      BY <2>2, <3>1, <3>2
    <3>4. /\ x[3] \in 1 .. Len(Lines[z]) /\ y[3] \in 1 .. Len(Lines[z])
          /\ Lines[z][x[3]] = b /\ Lines[z][y[3]] = b
      BY <1>4, <2>2, <3>1, <3>2
    <3>5. Distinct(Lines[z])
      BY <1>1
    <3>6. x[3] = y[3]
      BY <3>4, <3>5 DEF Distinct
    <3>7. x = <<x[1], x[2], x[3]>> /\ y = <<y[1], y[2], y[3]>>
      BY <1>4
    <3> QED
      BY <3>3, <3>6, <3>7
  <2>5. S = {x}
    BY <2>1, <2>4
  <2>6. Cardinality(S) = 1
    BY <2>5, FS_Singleton
  <2> QED
    BY <1>3, <2>3, <2>6
<1> QED
  BY <1>5, <1>6

LEMMA InvAllReturned == BenchInv => AllReturned
<1> SUFFICES ASSUME BenchInv, c.at = "done", ~Stale, ~Oversized
             PROVE  Pooled = opt.buffers - Unused
  BY DEF AllReturned
<1>1. Sound /\ BenchTypes /\ opt \in Options /\ Running
  BY DEF BenchInv, Sound, BenchTypes, Running
<1>2. /\ ndescs \in Nat /\ NAnswer \in Nat /\ opt.conns \in Nat /\ opt.buffers \in Nat
      /\ \A k \in Conns : k \in Nat \ {0}
  BY <1>1, MessageFacts, OptionFacts, ConnIs
<1>3. PICK S : S = Stray(Lines, pool, opt.buffers)
  OBVIOUS
<1>4. /\ \A k \in Conns : OwnLen(k) = 0 /\ Quiet(k)
      /\ partial = << >> /\ Cardinality(S) = Unused
  <2>1. CASE opt.prog = "throughput"
    <3>1. TInv
      <4>1. NAnswer <= ndescs
        BY <1>2, <2>1 DEF Oversized
      <4> QED
        BY <1>1, <2>1, <4>1 DEF BenchInv
    <3>2. \A k \in Conns : ~Awaits(k) /\ OwnLen(k) = 0
      BY <2>1 DEF Awaits, OwnLen
    <3>3. \A k \in Conns : Quiet(k)
      BY <3>1, <3>2 DEF TInv, TLine
    <3>4. Cardinality(S) = IF opt.reuse THEN 0 ELSE Connected * ndescs
      BY <1>3, <3>1, <3>2 DEF TInv, TStray
    <3>5. Cardinality(S) = Unused
      BY <2>1, <3>4 DEF Connected, Unused
    <3> QED
      BY <1>1, <2>1, <3>2, <3>3, <3>5 DEF BenchTypes
  <2>2. CASE opt.prog # "throughput"
    <3>1. LInv
      BY <1>1, <2>2 DEF BenchInv
    <3>2. Quiet(1) /\ partial = << >> /\ (\A k \in Conns : k # 1 => Quiet(k)) /\ S = {}
      BY <1>3, <3>1 DEF LInv
    <3>3. \A k \in Conns : OwnLen(k) = 0
      BY <2>2 DEF OwnLen
    <3>4. Cardinality(S) = Unused
      BY <2>2, <3>2, FS_EmptySet DEF Unused
    <3> QED
      BY <3>2, <3>3, <3>4
  <2> QED
    BY <2>1, <2>2
<1>5. \A x \in Spots : Elems(Lines[x]) = {}
  BY <1>4, NoLines
<1>6. PICK n \in Nat : n = opt.buffers
  BY <1>2
<1>7. Free(pool) \subseteq 1 .. n
  BY <1>1, <1>6 DEF Sound, Apart
<1>8. S = (1 .. n) \ Free(pool)
  BY <1>3, <1>5, <1>6 DEF Stray
<1>9. Free(pool) = (1 .. n) \ S /\ (1 .. n) \cap S = S
  BY <1>7, <1>8
<1>10. PICK I : I = 1 .. n
  OBVIOUS
<1>11. IsFiniteSet(I) /\ Cardinality(I) = n
  <2>1. 1 \in Int /\ n \in Int /\ (IF 1 > n THEN 0 ELSE n - 1 + 1) = n
    OBVIOUS
  <2> QED
    BY <1>10, <2>1, FS_Interval
<1>12. Cardinality(I \ S) = Cardinality(I) - Cardinality(I \cap S)
  BY <1>11, FS_Difference
<1>13. Pooled = Cardinality(Free(pool))
  BY DEF Pooled, Free
<1> QED
  BY <1>4, <1>6, <1>9, <1>10, <1>11, <1>12, <1>13

LEMMA BenchSafe == Spec => []BenchInv
<1>1. Init => BenchInv
  BY BenchInit
<1>2. BenchInv /\ [Next]_vars => BenchInv'
  BY BenchStep
<1> QED
  BY <1>1, <1>2, PTL DEF Spec

\* Whatever the options, the number of connections and of rounds, the sizes of
\* the messages, the buffers and the pool, and however the two processes
\* interleave or end: no buffer is in the pool, or on a connection, a second
\* time, unless a client reuses buffers that the server does not send back
\* (client_send, client_recv and do_server_rr of the throughput benchmark,
\* do_client_rr and the server of the latency benchmark).
THEOREM BuffersHaveOneOwner == Spec => []OneOwner
BY BenchSafe, InvOneOwner, PTL

\* A client that comes to its end has returned all buffers of the pool but the
\* ones a throughput client that does not reuse buffers gets when it connects:
\* none is left on a connection or with the server.  Two combinations of options
\* are left out: answers of more buffers than the requests in the throughput
\* benchmark, and a latency client that reuses buffers of which the server puts
\* some back.
THEOREM ClientsReturnBuffers == Spec => []AllReturned
BY BenchSafe, InvAllReturned, PTL

=============================================================================
