----------------------------- MODULE RrLatency -----------------------------
(***************************************************************************)
(* The latency benchmark: a client makes requests one after the other on   *)
(* its one connection, a server answers them.  With busy polling a call is *)
(* repeated until it succeeds, so that both variants block.  Unless it     *)
(* uses HTTP each side receives until it has as many bytes as its own      *)
(* option says.                                                            *)
(***************************************************************************)
EXTENDS ShmLink

Bytes(ds) == LET Upto[k \in 0 .. Len(ds)] == IF k = 0 THEN 0 ELSE Upto[k - 1] + ds[k].size
             IN Upto[Len(ds)]

\* The HTTP request is shorter than its buffer.
Request(bufs) ==
  LET ds == Sized(bufs, opt.csize)
  IN IF opt.chttp THEN [ds EXCEPT ![1].size = HttpReq] ELSE ds

-----------------------------------------------------------------------------
(* The client *)

LConnect ==
  /\ c.at = "connect"
  /\ IF Listening
     THEN /\ backlog' = Append(backlog, 1)
          /\ IF opt.reuse => CanGet(ndescs)
             THEN /\ descs' = IF opt.reuse THEN [descs EXCEPT ![1] = Got(ndescs)] ELSE descs
                  /\ pool' = IF opt.reuse THEN Without(Got(ndescs)) ELSE pool
                  /\ c' = [c EXCEPT !.at = "send"]
                  /\ UNCHANGED closed
             ELSE CExit /\ UNCHANGED <<descs, pool>>
     ELSE Refused /\ UNCHANGED <<backlog, descs, pool>>
  /\ UNCHANGED <<opt, s, partial, wire>>

\* The first half of do_client_rr; descs keeps what it had behind the request.
LSend ==
  /\ c.at = "send"
  /\ LET bufs == IF opt.reuse THEN SubSeq(descs[1], 1, ndescs) ELSE Got(ndescs)
     IN IF ~opt.reuse /\ ~CanGet(ndescs)
        THEN CExit /\ UNCHANGED <<descs, pool, wire>>
        ELSE /\ descs' = [descs EXCEPT ![1] = bufs \o Drop(@, ndescs)]
             /\ IF Open("client", 1)
                THEN /\ Room("client", 1, bufs)
                     /\ wire' = Sent(wire, "client", 1, Request(bufs))
                     /\ pool' = IF opt.reuse THEN pool ELSE Without(bufs)
                     /\ c' = [c EXCEPT !.at = "recv", !.i = 0, !.rsize = 0]
                     /\ UNCHANGED closed
                \* ERR_PUT
                ELSE /\ pool' = IF opt.reuse THEN With(bufs) ELSE pool
                     /\ CExit
                     /\ UNCHANGED wire
  /\ UNCHANGED <<opt, s, partial, backlog>>

\* unimsg_recv to &descs[rdescs], rdescs being c.i.
Landed(ds) ==
  [k \in 1 .. IF c.i + Len(ds) > Len(descs[1]) THEN c.i + Len(ds) ELSE Len(descs[1]) |->
     IF k \in c.i + 1 .. c.i + Len(ds) THEN ds[k - c.i].buf ELSE descs[1][k]]

\* What the client keeps of rdescs received descriptors: all are put back, or
\* those in excess of its own.
Excess_Kept(rdescs) == IF opt.reuse THEN rdescs + 1 ELSE 1
Excess(rdescs) == IF opt.reuse THEN ndescs + 1 ELSE 1

\* The second half of do_client_rr.  c.n counts warm-up and measured requests.
LRecv ==
  /\ c.at = "recv"
  /\ Readable("client", 1)
  /\ LET ds == wire["client"][1]
         rdescs == c.i + Len(ds)
         now == Landed(ds)
         rsize == c.rsize + Bytes(ds)
         whole == opt.chttp \/ rsize >= opt.csize
     IN IF ds = << >>
        THEN CExit /\ UNCHANGED <<descs, pool, wire>>
        ELSE /\ wire' = [wire EXCEPT !["client"][1] = << >>]
             /\ descs' = [descs EXCEPT ![1] = now]
             /\ IF whole
                THEN /\ pool' = With(SubSeq(now, Excess(rdescs), rdescs))
                     /\ c' = [c EXCEPT !.n = @ + 1,
                                       !.at = IF c.n + 1 < opt.rounds THEN "send" ELSE "end"]
                ELSE c' = [c EXCEPT !.i = rdescs, !.rsize = rsize] /\ UNCHANGED pool
             /\ UNCHANGED closed
  /\ UNCHANGED <<opt, s, partial, backlog>>

LEnd ==
  /\ c.at = "end"
  /\ pool' = IF opt.reuse THEN With(SubSeq(descs[1], 1, ndescs)) ELSE pool
  /\ c' = [c EXCEPT !.at = "done"]
  /\ Stop("client")
  /\ UNCHANGED <<opt, s, descs, partial, wire, backlog>>

-----------------------------------------------------------------------------
(* The server *)

LListen ==
  /\ s.at = "off"
  /\ s' = [s EXCEPT !.at = "accept"]
  /\ UNCHANGED <<opt, c, descs, partial, pool, wire, backlog, closed>>

\* One connection is accepted, and the listening socket closed.
LAccept ==
  /\ s.at = "accept" /\ backlog # << >>
  /\ s' = [s EXCEPT !.at = "recv"]
  /\ backlog' = Tail(backlog)
  /\ closed' = closed \cup {<<"server", 0>>}
  /\ UNCHANGED <<opt, c, descs, partial, pool, wire>>

\* A request is received, to the end of it or not, and answered.
LServe ==
  /\ s.at = "recv" /\ Readable("server", 1)
  /\ LET new == wire["server"][1]
         ds == partial \o new
         taken == [wire EXCEPT !["server"][1] = << >>]
     IN IF new = << >>
        THEN /\ s' = [s EXCEPT !.at = "done"]
             /\ Stop("server")
             /\ UNCHANGED <<partial, pool, wire>>
        ELSE IF ~opt.shttp /\ Bytes(ds) < opt.ssize
        THEN /\ partial' = ds
             /\ wire' = taken
             /\ UNCHANGED <<s, pool, closed>>
        ELSE /\ partial' = << >>
             /\ IF ~CanAnswer(ds) THEN SExit /\ wire' = taken /\ UNCHANGED pool
                ELSE IF Open("server", 1)
                THEN /\ Room("server", 1, Answer(ds))
                     /\ pool' = AnswerPool(ds)
                     /\ wire' = Sent(taken, "server", 1, Answer(ds))
                     /\ UNCHANGED <<s, closed>>
                \* The client has gone: the buffers of the answer are put back.
                ELSE /\ pool' = With(Bufs(ds))
                     /\ wire' = taken
                     /\ s' = [s EXCEPT !.at = "done"]
                     /\ Stop("server")
  /\ UNCHANGED <<opt, c, descs, backlog>>

LClient == LConnect \/ LSend \/ LRecv \/ LEnd
LServer == LAccept \/ LServe

=============================================================================
