------------------------------ MODULE ShmLink ------------------------------
(***************************************************************************)
(* What the two benchmarks share: a client and a server process, their     *)
(* options, and the unimsg library between them (external, modelled from   *)
(* its use): a pool of shared buffers, and connections on which            *)
(* descriptors of buffers are passed.  Nothing in the library checks that  *)
(* a process owns what it sends or puts back.                              *)
(***************************************************************************)
EXTENDS Integers, Sequences, FiniteSets

CONSTANTS
  MaxConns,   \* bound: connections of the throughput client
  MaxRounds,  \* bound: rounds within the duration of a test, or iterations
  Sizes,      \* message sizes tried
  Pools,      \* numbers of buffers tried
  Available,  \* UNIMSG_BUFFER_AVAILABLE: the bytes of a buffer
  HttpReq,    \* sizeof(http_req)
  HttpResp,   \* sizeof(http_resp), the least size an HTTP server accepts
  Depth       \* descriptors a connection holds in one direction

ASSUME LinkAssumption ==
  /\ MaxConns \in Nat \ {0} /\ MaxRounds \in Nat \ {0}
  /\ Sizes \subseteq Nat \ {0} /\ Pools \subseteq Nat
  /\ \E n \in Pools : \A m \in Pools : m <= n
  /\ Available \in Nat \ {0} /\ HttpReq \in 1 .. Available
  /\ HttpResp \in 1 .. Available
  /\ Depth \in Nat

VARIABLES
  opt,      \* the options of the two processes, and the size of the pool
  c,        \* the client: where it is, its loop variable, ready[], rounds done, rsize
  s,        \* the server: where it is, i, ready[], socks[], started
  descs,    \* descs[k]: the client's descriptors for connection k
  partial,  \* the descriptors of a request the server has not received whole
  pool,     \* pool[b]: how many times buffer b is in the pool
  wire,     \* wire[e][k]: the descriptors on the way to end e of connection k
  backlog,  \* connections not yet accepted
  closed    \* the <<end, connection>> closed

vars == <<opt, c, s, descs, partial, pool, wire, backlog, closed>>

Conns == 1 .. MaxConns
Buffers == 1 .. CHOOSE n \in Pools : \A m \in Pools : m <= n
Ends == {"client", "server"}
Peer(e) == IF e = "client" THEN "server" ELSE "client"

\* The buffers that a message of some size takes.
NDescs(size) == ((size - 1) \div Available) + 1
ndescs == NDescs(opt.csize)

\* The last descriptor has what is left of the message.
Sized(bufs, size) ==
  [k \in DOMAIN bufs |->
     [buf |-> bufs[k],
      size |-> IF k < Len(bufs) THEN Available ELSE ((size - 1) % Available) + 1]]

Bufs(ds) == [k \in DOMAIN ds |-> ds[k].buf]
Drop(ds, n) == SubSeq(ds, n + 1, Len(ds))

Options ==
  [prog : {"throughput", "latency"}, conns : Conns, rounds : 1 .. MaxRounds,
   reuse : BOOLEAN, chttp : BOOLEAN, shttp : BOOLEAN,
   csize : Sizes, ssize : Sizes, buffers : Pools]

\* parse_command_line
Accepted(o) == o.shttp => o.ssize >= HttpResp

Init ==
  /\ opt \in {o \in Options : Accepted(o)}
  \* One connection measures latency; throughput's client only writes the request.
  /\ opt.prog = "latency" => opt.conns = 1
  /\ opt.prog = "throughput" => ~opt.chttp
  /\ c = [at |-> "connect", i |-> 1, ready |-> {}, n |-> 0, rsize |-> 0]
  /\ s = [at |-> "off", i |-> 1, ready |-> {}, socks |-> << >>, started |-> FALSE]
  /\ descs = [k \in Conns |-> << >>]
  /\ partial = << >>
  /\ pool = [b \in Buffers |-> IF b <= opt.buffers THEN 1 ELSE 0]
  /\ wire = [e \in Ends |-> [k \in Conns |-> << >>]]
  /\ backlog = << >>
  /\ closed = {}

-----------------------------------------------------------------------------
(* The library *)

\* Buffers in the pool are alike: unimsg_buffer_get takes the first ones.
CanGet(n) == n <= Cardinality({b \in Buffers : pool[b] > 0})
Got(n) ==
  LET free == {b \in Buffers : pool[b] > 0}
      Nth(k) == CHOOSE b \in free : Cardinality({a \in free : a < b}) = k - 1
  IN [k \in 1 .. n |-> Nth(k)]
Without(bufs) ==
  [b \in Buffers |-> IF \E k \in DOMAIN bufs : bufs[k] = b THEN pool[b] - 1 ELSE pool[b]]
With(bufs) ==
  [b \in Buffers |-> pool[b] + Cardinality({k \in DOMAIN bufs : bufs[k] = b})]

Readable(e, k) == wire[e][k] # << >> \/ <<Peer(e), k>> \in closed
Open(e, k) == <<Peer(e), k>> \notin closed
Room(e, k, ds) == Len(wire[Peer(e)][k]) + Len(ds) <= Depth
Sent(w, e, k, ds) == [w EXCEPT ![Peer(e)][k] = @ \o ds]

\* exit(1), or the end of main: what was open is closed.
Stop(e) == closed' = closed \cup {e} \X Conns
CExit == c' = [c EXCEPT !.at = "exit"] /\ Stop("client")
Refused == c' = [c EXCEPT !.at = "refused"] /\ Stop("client")
SExit == s' = [s EXCEPT !.at = "exit"] /\ Stop("server")

Listening == s.at \notin {"off", "done", "exit"} /\ <<"server", 0>> \notin closed

\* How many buffers an HTTP server answers with; another sends back what it got.
NSend(n) == IF opt.shttp THEN NDescs(opt.ssize) ELSE n

\* The answer to a request of descriptors ds, and the pool afterwards; missing
\* buffers are taken from the pool, those in excess put back.
Answer(ds) ==
  LET n == Len(ds)
      m == NSend(n)
      bufs == IF m > n THEN Bufs(ds) \o Got(m - n) ELSE SubSeq(Bufs(ds), 1, m)
  IN IF opt.shttp THEN Sized(bufs, opt.ssize) ELSE ds
AnswerPool(ds) ==
  LET n == Len(ds)
      m == NSend(n)
  IN IF m > n THEN Without(Got(m - n)) ELSE With(Bufs(Drop(ds, m)))
CanAnswer(ds) == NSend(Len(ds)) <= Len(ds) \/ CanGet(NSend(Len(ds)) - Len(ds))

=============================================================================
