------------------------------- MODULE Bench -------------------------------
(***************************************************************************)
(* The two benchmarks, each with every combination of options.             *)
(***************************************************************************)
EXTENDS Throughput, RrLatency

TypeOK ==
  /\ opt \in Options
  /\ c.at \in {"connect", "send", "poll", "round", "again", "final", "recv", "end",
               "done", "exit", "refused"}
  /\ s.at \in {"off", "poll", "scan", "accept", "recv", "done", "exit"}
  /\ \A e \in Ends, k \in Conns : Len(wire[e][k]) <= Depth
  /\ closed \subseteq Ends \X (Conns \cup {0})

Client == IF opt.prog = "throughput" THEN TClient ELSE LClient
Server == IF opt.prog = "throughput" THEN TServer ELSE LServer

Next ==
  \/ opt.prog = "throughput" /\ (TClient \/ TListen \/ TServer)
  \/ opt.prog = "latency" /\ (LClient \/ LListen \/ LServer)

\* A process that was started takes its next step unless it blocks.
Spec == Init /\ [][Next]_vars /\ WF_vars(Client) /\ WF_vars(Server)

-----------------------------------------------------------------------------
(* Properties *)

Ended == {"done", "exit", "refused"}

\* The buffers of an answer.
NAnswer == NSend(ndescs)

\* A client that reuses buffers relies on getting back those it sent.  With an
\* HTTP server and another size that is not so: the throughput client puts back
\* buffers that are still under way, the latency client sends buffers the server
\* has put back.
Stale ==
  /\ opt.reuse
  /\ IF opt.prog = "throughput" THEN NAnswer > ndescs ELSE NAnswer < ndescs

Places(b) ==
  pool[b] + Cardinality({x \in Ends \X Conns \X (1 .. Depth) :
                           LET line == wire[x[1]][x[2]]
                           IN x[3] <= Len(line) /\ line[x[3]].buf = b})

\* No buffer is in two places, the pool and the connections, except then.
OneOwner == ~Stale => \A b \in Buffers : Places(b) <= 1

Pooled == Cardinality({b \in Buffers : pool[b] > 0})

\* The buffers a throughput client gets for its connections and never uses.
Unused == IF opt.prog = "throughput" /\ ~opt.reuse THEN opt.conns * ndescs ELSE 0

\* The throughput client receives as many descriptors as it sent, so it leaves
\* what a longer answer has beyond those on the connection, for the next receive
\* or for ever.
Oversized == opt.prog = "throughput" /\ NAnswer > ndescs

\* A client that comes to its end has returned all buffers but those, whichever
\* answers the final loop received into the descriptors of connection 0.  Not so
\* in two cases: Oversized, when buffers are left behind, with or without reuse,
\* and the latency client that reuses buffers the server has put back.
AllReturned == c.at = "done" /\ ~Stale /\ ~Oversized => Pooled = opt.buffers - Unused

Needed ==
  IF opt.prog = "throughput" THEN opt.conns * ndescs + Unused
  ELSE IF NAnswer > ndescs THEN NAnswer ELSE ndescs

\* What makes a process end with an error: too few buffers, or, in the throughput
\* benchmark, answers with another number of buffers than the requests.
ErrorExpected ==
  opt.buffers < Needed \/ (opt.prog = "throughput" /\ NAnswer # ndescs)

RequestBytes == Bytes(Request([k \in 1 .. ndescs |-> k]))

\* One side of the latency benchmark waits for more than the other ever sends.
Starved ==
  /\ opt.prog = "latency"
  /\ \/ ~opt.shttp /\ RequestBytes < opt.ssize
     \/ opt.shttp /\ ~opt.chttp /\ opt.ssize < opt.csize

\* Once the client is connected both processes come to their end, except then,
\* and without an error, unless one is expected.
TestEnds ==
  c.at = "send" ~> \/ c.at = "done" /\ s.at = "done"
                   \/ ErrorExpected /\ c.at \in Ended /\ s.at \in Ended
                   \/ Starved

=============================================================================
