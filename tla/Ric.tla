-------------------------------- MODULE Ric --------------------------------
(***************************************************************************)
(* The four xApps of the near real-time RIC and their control loop.        *)
(* Anomaly detection (AD) reports users with anomalies to traffic steering *)
(* (TS), which asks QoE prediction (QP) for a prediction, posts a handover *)
(* to RAN control (RC) over a new connection, and sends the report back as *)
(* the acknowledgment.  Each is a process with a number of iterations of   *)
(* its own, started at any time; all errors end in exit(1).                *)
(*                                                                         *)
(* A step ends where the process blocks (accept, recv).  A message is only *)
(* there or not; of the JSON and HTTP texts the model keeps whether they   *)
(* can be parsed and whether they fit a buffer.                            *)
(***************************************************************************)
EXTENDS Integers

CONSTANTS
  MaxIters,  \* bound: iterations of a process
  MaxUes,    \* bound: users with anomalies
  ReportFit, \* users that fit in a report
  ReplyFit,  \* users that fit in a prediction
  MaxPool    \* bound: buffers

ASSUME RicAssumption ==
  /\ MaxIters \in Nat \ {0} /\ MaxUes \in Nat
  /\ ReportFit \in Nat /\ ReplyFit \in Nat /\ MaxPool \in Nat

VARIABLES
  opt,     \* the options: iterations of each process, users per report, cells; buffers
  pc,      \* where each process is
  i,       \* i[p]: iterations done
  net,     \* <<p, q>>: a message is on the way from p to q
  linked,  \* connections made: <<client, server>>
  closed,  \* <<p, q>>: p has closed its end of the connection with q
  pool,    \* buffers in the pool
  handed,  \* history: the handovers RC carried out
  late     \* history: a process was started after one that connects to it

vars == <<opt, pc, i, net, linked, closed, pool, handed, late>>

Procs == {"AD", "TS", "QP", "RC"}
\* After exit(1), one because of a lost connection, or a crash.
Failed == {"exit", "lost", "fault"}

\* parse_command_line accepts an anomaly rate of 0, and any number of cells.
Options == [iters : [Procs -> 1 .. MaxIters], ues : 0 .. MaxUes, cells : 0 .. 1,
            buffers : 1 .. MaxPool]

TypeOK ==
  /\ opt \in Options
  /\ pc \in [Procs -> {"off", "accept", "loop", "recv", "predict", "post", "done"} \cup Failed]
  /\ i \in [Procs -> 0 .. MaxIters]
  /\ \A S \in {net, linked, closed} : S \subseteq Procs \X Procs
  /\ pool \in 0 .. opt.buffers
  /\ handed \in 0 .. MaxIters
  /\ late \in BOOLEAN

Init ==
  /\ opt \in Options
  /\ pc = [p \in Procs |-> "off"]
  /\ i = [p \in Procs |-> 0]
  /\ net = {} /\ linked = {} /\ closed = {}
  /\ pool = opt.buffers
  /\ handed = 0
  /\ late = FALSE

-----------------------------------------------------------------------------
(* Processes and connections *)

At(p, from) == pc[p] = from
To(p, to) == pc' = [pc EXCEPT ![p] = to]

\* All connections of a process that ends are closed.
End(p, how) ==
  /\ To(p, how)
  /\ closed' = closed \cup {p} \X Procs

\* exit(1) after an error, with so many buffers in the pool.
Fail(p, how, buffers) ==
  /\ End(p, how)
  /\ pool' = buffers
  /\ UNCHANGED <<opt, i, net, linked, handed>>

Listening(p) == p # "AD" /\ At(p, "accept")

\* p cannot connect to q.
Refused(p, q, buffers) ==
  /\ ~Listening(q)
  /\ late' = (late \/ At(q, "off"))
  /\ Fail(p, "exit", buffers)

\* unimsg_send succeeds unless the peer has closed.
CanSend(p, q) == <<q, p>> \notin closed

Arrived(p, q) == <<q, p>> \in net

\* p receives from one process and sends to another.
Moved(p, from, to) == (net \ {<<from, p>>}) \cup {<<p, to>>}

\* Whose message each process waits for.
WaitsFor_NotQP(p) ==
  CASE p = "AD" -> {q \in {"TS"} : At(p, "recv")}
    [] p = "TS" -> {q \in {"AD"} : At(p, "recv")} \cup {q \in {"RC"} : At(p, "post")}
    [] OTHER    -> {q \in {"TS"} : At(p, "recv")}
WaitsFor(p) ==
  CASE p = "AD" -> {q \in {"TS"} : At(p, "recv")}
    [] p = "TS" -> {q \in {"AD"} : At(p, "recv")} \cup {q \in {"QP"} : At(p, "predict")}
                     \cup {q \in {"RC"} : At(p, "post")}
    [] OTHER    -> {q \in {"TS"} : At(p, "recv")}

\* unimsg_recv fails: the peer has closed, and nothing is left to receive.
RecvFails(p) ==
  /\ \E q \in WaitsFor(p) : ~Arrived(p, q) /\ <<q, p>> \in closed
  /\ Fail(p, "lost", pool)
  /\ UNCHANGED late

\* There are iterations left after so many.
Left_OneShort(p, n) == n + 1 < opt.iters[p]
Left(p, n) == n < opt.iters[p]

\* The servers create, bind and listen on their socket.
Listen(p) ==
  /\ p # "AD" /\ At(p, "off")
  /\ To(p, "accept")
  /\ UNCHANGED <<opt, i, net, linked, closed, pool, handed, late>>

-----------------------------------------------------------------------------
(* AD *)

AdConnect ==
  /\ At("AD", "off")
  /\ \/ Refused("AD", "TS", pool)
     \/ /\ Listening("TS")
        /\ To("AD", "loop")
        /\ linked' = linked \cup {<<"AD", "TS">>}
        /\ UNCHANGED <<opt, i, net, closed, pool, handed, late>>

\* The report is built, put in a buffer and sent.
AdReport ==
  /\ At("AD", "loop") /\ i["AD"] < opt.iters["AD"]
  /\ \/ /\ opt.ues > ReportFit \/ pool = 0
        /\ Fail("AD", "exit", pool)
     \/ /\ opt.ues <= ReportFit /\ pool > 0 /\ ~CanSend("AD", "TS")
        /\ Fail("AD", "exit", pool - 1)
     \/ /\ opt.ues <= ReportFit /\ pool > 0 /\ CanSend("AD", "TS")
        /\ pool' = pool - 1
        /\ net' = net \cup {<<"AD", "TS">>}
        /\ To("AD", "recv")
        /\ UNCHANGED <<opt, i, linked, closed, handed>>
  /\ UNCHANGED late

\* ts_callback puts the buffer of the acknowledgment back.
AdAcked ==
  /\ At("AD", "recv") /\ Arrived("AD", "TS")
  /\ net' = net \ {<<"TS", "AD">>}
  /\ pool' = pool + 1
  /\ i' = [i EXCEPT !["AD"] = @ + 1]
  /\ To("AD", "loop")
  /\ UNCHANGED <<opt, linked, closed, handed, late>>

\* The average is over opt_iterations - 1 loops.
AdEnd ==
  /\ At("AD", "loop") /\ i["AD"] = opt.iters["AD"]
  /\ Fail("AD", IF opt.iters["AD"] = 1 THEN "fault" ELSE "done", pool)
  /\ UNCHANGED late

-----------------------------------------------------------------------------
(* TS *)

\* AD is accepted, and QP connected to.
TsAccept ==
  /\ At("TS", "accept") /\ <<"AD", "TS">> \in linked
  /\ \/ Refused("TS", "QP", pool)
     \/ /\ Listening("QP")
        /\ To("TS", "recv")
        /\ linked' = linked \cup {<<"TS", "QP">>}
        /\ UNCHANGED <<opt, i, net, closed, pool, handed, late>>

\* The users AnomalyHandler finds in a report.
prediction_ues == opt.ues

\* ad_callback and send_prediction_request: the users of the report are sent to
\* QP in a new buffer, as a list that without users is not closed.
Forwarded_AckFirst == Moved("TS", "AD", "QP") \cup {<<"TS", "AD">>}
Forwarded == Moved("TS", "AD", "QP")

TsPredict ==
  /\ At("TS", "recv") /\ Arrived("TS", "AD")
  /\ \/ /\ pool = 0 \/ ~CanSend("TS", "QP")
        /\ Fail("TS", "exit", IF pool = 0 THEN 0 ELSE pool - 1)
     \/ /\ pool > 0 /\ CanSend("TS", "QP")
        /\ pool' = pool - 1
        /\ net' = Forwarded
        /\ To("TS", "predict")
        /\ UNCHANGED <<opt, i, linked, closed, handed>>
  /\ UNCHANGED late

\* PredictionHandler takes the first cell of a prediction for the serving one.
NoServingCell == opt.cells = 0

\* prediction_callback puts the buffer back and looks the serving cell up, which
\* without cells dereferences the end of the map: a fault, or any value.  Then,
\* whatever the prediction, do_post: a connection to RC, a buffer, the request.
PutPrediction_Not == pool
PutPrediction == pool + 1

TsPost ==
  /\ At("TS", "predict") /\ Arrived("TS", "QP")
  /\ \/ /\ NoServingCell
        /\ Fail("TS", "fault", PutPrediction)
        /\ UNCHANGED late
     \/ Refused("TS", "RC", PutPrediction)
     \/ /\ Listening("RC")
        /\ linked' = linked \cup {<<"TS", "RC">>}
        /\ closed' = closed \ {<<"TS", "RC">>, <<"RC", "TS">>}
        /\ pool' = PutPrediction - 1
        /\ net' = Moved("TS", "QP", "RC")
        /\ To("TS", "post")
        /\ UNCHANGED <<opt, i, handed, late>>

\* The response's buffer is put back, the connection closed, and the report sent
\* back to AD.  After the last iteration all is closed.
TsAck ==
  /\ At("TS", "post") /\ Arrived("TS", "RC")
  /\ pool' = pool + 1
  /\ linked' = linked \ {<<"TS", "RC">>}
  /\ net' = Moved("TS", "RC", "AD")
  /\ i' = [i EXCEPT !["TS"] = @ + 1]
  /\ IF CanSend("TS", "AD") /\ Left("TS", i["TS"] + 1)
     THEN To("TS", "recv") /\ closed' = closed \cup {<<"TS", "RC">>}
     ELSE End("TS", IF CanSend("TS", "AD") THEN "done" ELSE "exit")
  /\ UNCHANGED <<opt, handed, late>>

-----------------------------------------------------------------------------
(* QP *)

QpAccept ==
  /\ At("QP", "accept") /\ <<"TS", "QP">> \in linked
  /\ To("QP", "recv")
  /\ UNCHANGED <<opt, i, net, linked, closed, pool, handed, late>>

\* The next iteration, or the end.
QpNext ==
  /\ i' = [i EXCEPT !["QP"] = @ + 1]
  /\ IF Left("QP", i["QP"] + 1) THEN UNCHANGED <<pc, closed>> ELSE End("QP", "done")

\* The request is the list of users; the prediction goes back in its buffer.
QpReply ==
  /\ At("QP", "recv") /\ Arrived("QP", "TS")
  /\ prediction_ues > 0
  /\ \/ /\ prediction_ues <= ReplyFit /\ CanSend("QP", "TS")
        /\ net' = Moved("QP", "TS", "TS")
        /\ QpNext
        /\ UNCHANGED <<opt, linked, pool, handed>>
     \/ /\ prediction_ues > ReplyFit \/ ~CanSend("QP", "TS")
        /\ Fail("QP", "exit", pool)
  /\ UNCHANGED late

\* The list of no users cannot be parsed: an assertion fails or, without
\* assertions, the callback returns, and no answer is sent.
QpMalformed ==
  /\ At("QP", "recv") /\ Arrived("QP", "TS")
  /\ prediction_ues = 0
  /\ \/ Fail("QP", "fault", pool)
     \/ /\ net' = net \ {<<"TS", "QP">>}
        /\ QpNext
        /\ UNCHANGED <<opt, linked, pool, handed>>
  /\ UNCHANGED late

-----------------------------------------------------------------------------
(* RC *)

RcAccept ==
  /\ At("RC", "accept") /\ <<"TS", "RC">> \in linked
  /\ To("RC", "recv")
  /\ UNCHANGED <<opt, i, net, linked, closed, pool, handed, late>>

\* The handover is answered in a buffer of its own, the request's is put back,
\* and the connection closed.
RcHandover ==
  /\ At("RC", "recv") /\ Arrived("RC", "TS")
  /\ \/ /\ pool = 0 \/ ~CanSend("RC", "TS")
        /\ Fail("RC", "exit", pool)
     \/ /\ pool > 0 /\ CanSend("RC", "TS")
        /\ handed' = handed + 1
        /\ linked' = linked \ {<<"TS", "RC">>}
        /\ net' = Moved("RC", "TS", "TS")
        /\ i' = [i EXCEPT !["RC"] = @ + 1]
        /\ closed' = closed \cup {<<"RC", "TS">>}
        /\ To("RC", IF Left("RC", i["RC"] + 1) THEN "accept" ELSE "done")
        /\ UNCHANGED <<opt, pool>>
  /\ UNCHANGED late

-----------------------------------------------------------------------------

Step(p) ==
  \/ RecvFails(p)
  \/ p = "AD" /\ (AdReport \/ AdAcked \/ AdEnd)
  \/ p = "TS" /\ (TsAccept \/ TsPredict \/ TsPost \/ TsAck)
  \/ p = "QP" /\ (QpAccept \/ QpReply \/ QpMalformed)
  \/ p = "RC" /\ (RcAccept \/ RcHandover)

Next == AdConnect \/ \E p \in Procs : Listen(p) \/ Step(p)

\* A process that was started takes its next step unless it blocks.  None need
\* be started.
Spec == Init /\ [][Next]_vars /\ \A p \in Procs : WF_vars(Step(p))

-----------------------------------------------------------------------------
(* Properties *)

\* What can be wrong with the options: different numbers of iterations, no
\* anomalies, no cells, reports or predictions too long for a buffer.
GoodOptions ==
  /\ \A p, q \in Procs : opt.iters[p] = opt.iters[q]
  /\ opt.ues \in 1 .. ReportFit /\ opt.ues <= ReplyFit
  /\ opt.cells > 0

\* The buffers of a loop at most: the report, the request to RC and its response.
PerLoop == 3

\* With good options, processes started before those that connect to them and
\* three buffers no process fails, however they are interleaved; AD alone faults
\* after the last loop, if it was the only one.
FailureNeedsCause ==
  \A p \in Procs : pc[p] \in Failed =>
    \/ ~GoodOptions \/ late \/ opt.buffers < PerLoop
    \/ p = "AD" /\ opt.iters["AD"] = 1 /\ i["AD"] = 1

\* Between two loops every buffer is back in the pool, and a loop uses no more
\* than three, whichever process failed in it.
BuffersBack ==
  /\ At("AD", "loop") => pool = opt.buffers
  /\ pool + PerLoop >= opt.buffers

Loop == INSTANCE ControlLoop
          WITH reported <- IF pc["AD"] \in {"recv", "lost"} THEN i["AD"] + 1 ELSE i["AD"],
               handed <- handed,
               acked <- i["AD"]

\* The xApps implement the control loop: every report leads to one handover and
\* is acknowledged after it.
ImplementsControlLoop == Loop!Spec

\* Every loop with anomalies is closed, or AD finds out that TS is gone; no
\* number of iterations and no order of starting leaves everyone waiting.
EveryLoopCloses == At("AD", "recv") /\ opt.ues > 0 ~> ~At("AD", "recv")

=============================================================================
