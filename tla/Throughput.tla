----------------------------- MODULE Throughput -----------------------------
(***************************************************************************)
(* The throughput benchmark: a client keeps one request outstanding on     *)
(* each of its connections until the time is up, then receives the last    *)
(* answers; a server polls its connections and ends when the last one was  *)
(* closed.  All sends, and receives but the last, do not block; an error   *)
(* ends the process.                                                       *)
(***************************************************************************)
EXTENDS ShmLink

-----------------------------------------------------------------------------
(* The client *)

\* unimsg_connect, and buffers for the connection.  The ones of a client that
\* does not reuse buffers are never used.
TConnect ==
  /\ c.at = "connect"
  /\ IF Listening
     THEN /\ backlog' = Append(backlog, c.i)
          /\ IF CanGet(ndescs)
             THEN /\ descs' = [descs EXCEPT ![c.i] = Got(ndescs)]
                  /\ pool' = Without(Got(ndescs))
                  /\ c' = IF c.i < opt.conns THEN [c EXCEPT !.i = @ + 1]
                          ELSE [c EXCEPT !.at = "send", !.i = 1]
                  /\ UNCHANGED closed
             ELSE CExit /\ UNCHANGED <<descs, pool>>
     ELSE Refused /\ UNCHANGED <<backlog, descs, pool>>
  /\ UNCHANGED <<opt, s, partial, wire>>

\* client_send on connection k, then the client goes on at next.
ClientSend(k, next) ==
  /\ LET bufs == IF opt.reuse THEN descs[k] ELSE Got(ndescs)
         ds == Sized(bufs, opt.csize)
     IN IF opt.reuse \/ CanGet(ndescs)
        THEN /\ descs' = [descs EXCEPT ![k] = bufs]
             /\ pool' = IF opt.reuse THEN pool ELSE Without(bufs)
             /\ IF Open("client", k) /\ Room("client", k, ds)
                THEN wire' = Sent(wire, "client", k, ds) /\ c' = next /\ UNCHANGED closed
                ELSE CExit /\ UNCHANGED wire
        ELSE CExit /\ UNCHANGED <<descs, pool, wire>>
  /\ UNCHANGED <<opt, s, partial, backlog>>

TFirst ==
  /\ c.at = "send"
  /\ ClientSend(c.i, IF c.i < opt.conns THEN [c EXCEPT !.i = @ + 1] ELSE [c EXCEPT !.at = "poll"])

TPoll ==
  /\ c.at = "poll"
  /\ \E k \in 1 .. opt.conns : Readable("client", k)
  /\ c' = [c EXCEPT !.at = "round", !.ready = {k \in 1 .. opt.conns : Readable("client", k)}]
  /\ UNCHANGED <<opt, s, descs, partial, pool, wire, backlog, closed>>

\* client_recv on connection k into descs[id], after which the client puts back
\* the buffers of descs[put], if any, and goes on at next.
ClientRecv(k, id, put, next, close) ==
  /\ LET ds == SubSeq(wire["client"][k], 1, ndescs)
         got == Bufs(ds)
         now == [descs EXCEPT ![id] = got]
     IN IF Len(wire["client"][k]) >= ndescs
        THEN /\ descs' = now
             /\ pool' = IF put = 0 THEN pool ELSE With(now[put])
             /\ c' = next
             /\ wire' = [wire EXCEPT !["client"][k] = Drop(@, ndescs)]
             /\ closed' = closed \cup close
        \* The connection was closed, or too few descriptors came.
        ELSE CExit /\ UNCHANGED <<descs, pool, wire>>
  /\ UNCHANGED <<opt, s, partial, backlog>>

NextReady == CHOOSE k \in c.ready : \A j \in c.ready : k <= j

\* One ready connection: its answer is received, then the next request sent.
TRecv ==
  /\ c.at = "round" /\ c.ready # {}
  /\ ClientRecv(NextReady, NextReady, IF opt.reuse THEN 0 ELSE NextReady,
                [c EXCEPT !.at = "again"], {})

TAgain ==
  /\ c.at = "again"
  /\ ClientSend(NextReady, [c EXCEPT !.at = "round", !.ready = @ \ {NextReady}])

\* The condition of the loop: the duration is the rounds that fit into it.
TTime ==
  /\ c.at = "round" /\ c.ready = {}
  /\ c' = [c EXCEPT !.at = IF c.n + 1 < opt.rounds THEN "poll" ELSE "final",
                    !.n = @ + 1, !.i = 1]
  /\ UNCHANGED <<opt, s, descs, partial, pool, wire, backlog, closed>>

\* The last answer of each connection, which blocks, always goes to descs[0]; a
\* client that reuses buffers then puts back those of its own entry.
Returned_Next == IF opt.reuse /\ c.i < opt.conns THEN c.i + 1 ELSE 1
Returned == IF opt.reuse THEN c.i ELSE 1

TFinal ==
  /\ c.at = "final"
  /\ Readable("client", c.i)
  /\ ClientRecv(c.i, 1, Returned,
                IF c.i < opt.conns THEN [c EXCEPT !.i = @ + 1] ELSE [c EXCEPT !.at = "done"],
                {<<"client", c.i>>})

-----------------------------------------------------------------------------
(* The server *)

TListen ==
  /\ s.at = "off"
  /\ s' = [s EXCEPT !.at = "poll"]
  /\ UNCHANGED <<opt, c, descs, partial, pool, wire, backlog, closed>>

\* ready[0] is the listening socket's.
Polled ==
  {i \in 0 .. Len(s.socks) :
     IF i = 0 THEN backlog # << >> ELSE Readable("server", s.socks[i])}

TServerPoll ==
  /\ s.at = "poll" /\ Polled # {}
  /\ s' = [s EXCEPT !.at = "scan", !.i = 1, !.ready = Polled]
  /\ UNCHANGED <<opt, c, descs, partial, pool, wire, backlog, closed>>

\* The ready sockets still to be served in this round.
ToServe == {i \in s.ready : i >= s.i /\ i <= Len(s.socks)}
Serving == CHOOSE i \in ToServe : \A j \in ToServe : i <= j

\* The socket is removed, the ones behind it move down with their flags, and the
\* next index is another one's: that one waits for the next round.
Removed_Not(i) == [s EXCEPT !.i = i + 1]
Removed(i) ==
  [s EXCEPT !.socks = SubSeq(@, 1, i - 1) \o Drop(@, i),
            !.ready = {j \in @ : j < i} \cup {j - 1 : j \in {k \in @ : k > i}},
            !.i = i + 1]

\* do_server_rr
TServe ==
  /\ s.at = "scan" /\ ToServe # {}
  /\ LET k == s.socks[Serving]
         ds == wire["server"][k]
         taken == [wire EXCEPT !["server"][k] = << >>]
     IN IF ds = << >>
        THEN /\ s' = Removed(Serving)
             /\ closed' = closed \cup {<<"server", k>>}
             /\ UNCHANGED <<pool, wire>>
        ELSE IF ~CanAnswer(ds) THEN SExit /\ wire' = taken /\ UNCHANGED pool
        ELSE /\ pool' = AnswerPool(ds)
             /\ IF Open("server", k) /\ Room("server", k, Answer(ds))
                THEN /\ wire' = Sent(taken, "server", k, Answer(ds))
                     /\ s' = [s EXCEPT !.i = Serving + 1]
                     /\ UNCHANGED closed
                ELSE SExit /\ wire' = taken
  /\ UNCHANGED <<opt, c, descs, partial, backlog>>

\* A connection that came is accepted, after the others were served.
Joined == s.socks \o (IF 0 \in s.ready THEN <<Head(backlog)>> ELSE << >>)
EndsWith(socks, started) == socks = << >> /\ started

TAccept ==
  /\ s.at = "scan" /\ ToServe = {}
  /\ LET started == s.started \/ 0 \in s.ready
         over == EndsWith(Joined, started)
     IN /\ s' = [s EXCEPT !.socks = Joined, !.started = started,
                          !.at = IF over THEN "done" ELSE "poll"]
        /\ closed' = IF over THEN closed \cup {"server"} \X Conns ELSE closed
  /\ backlog' = IF 0 \in s.ready THEN Tail(backlog) ELSE backlog
  /\ UNCHANGED <<opt, c, descs, partial, pool, wire>>

TClient == TConnect \/ TFirst \/ TPoll \/ TRecv \/ TAgain \/ TTime \/ TFinal
TServer == TServerPoll \/ TServe \/ TAccept

=============================================================================
