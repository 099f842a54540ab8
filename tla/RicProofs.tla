----------------------------- MODULE RicProofs -----------------------------
(***************************************************************************)
(* Proofs about the xApps, for every number of iterations, users, cells    *)
(* and buffers.  One message at most is under way, and which one it is     *)
(* says where AD and TS are, how many handovers there were and how many    *)
(* buffers are in use.  When nothing is wrong from outside it also says    *)
(* how far each process has come, and so that none ends early.             *)
(***************************************************************************)
EXTENDS Ric, TLAPS

\* AD has sent a report and has no acknowledgment.
Waiting == pc["AD"] \in {"recv", "lost"}

\* TS has no request under way, to QP or to RC.
TsIdle == pc["TS"] \notin {"predict", "post"}
TsAsks(where) == pc["TS"] \in {where} \cup Failed

Done == i["AD"]

\* Where the loop is.
AtReport == net = {<<"AD", "TS">>} /\ TsIdle /\ handed = Done
AtRequest == net = {<<"TS", "QP">>} /\ TsAsks("predict") /\ handed = Done
AtPrediction == net = {<<"QP", "TS">>} /\ TsAsks("predict") /\ handed = Done
Unanswered == net = {} /\ TsAsks("predict") /\ handed = Done
AtPost == net = {<<"TS", "RC">>} /\ TsAsks("post") /\ handed = Done
AtHandover == net = {<<"RC", "TS">>} /\ TsAsks("post") /\ handed = Done + 1
AtAck == net = {<<"TS", "AD">>} /\ TsIdle /\ handed = Done + 1

TurnInv ==
  /\ i \in [Procs -> Nat] /\ handed \in Nat
  /\ pc \in [Procs -> {"off", "accept", "loop", "recv", "predict", "post", "done"} \cup Failed]
  /\ IF Waiting
     THEN AtReport \/ AtRequest \/ AtPrediction \/ Unanswered \/ AtPost \/ AtHandover \/ AtAck
     ELSE net = {} /\ TsIdle /\ handed = Done

\* The buffers in use: the report's, and that of what TS asks.
PoolInv ==
  /\ opt.buffers \in Nat /\ pool \in Int
  /\ pool + PerLoop >= opt.buffers
  /\ pc["AD"] \in {"off", "loop"} => pool = opt.buffers
  /\ Waiting /\ net = {<<"TS", "AD">>} => pool = opt.buffers - 1
  /\ Waiting /\ net = {<<"AD", "TS">>} /\ pc["TS"] \notin Failed => pool = opt.buffers - 1
  /\ Waiting /\ ~TsIdle => pool = opt.buffers - 2

Inv == TurnInv /\ PoolInv

-----------------------------------------------------------------------------
(* The invariant *)

LEMMA InvInit == Init => Inv
BY RicAssumption DEF Init, Options, Inv, TurnInv, PoolInv, Waiting, TsIdle, Done, Procs, Failed, PerLoop

\* Where a process may be.
Places == {"off", "accept", "loop", "recv", "predict", "post", "done"} \cup Failed

\* Messages are told apart by their ends.
LEMMA Apart ==
  /\ {<<"AD", "TS">>} # {<<"TS", "AD">>}
  /\ \A m \in {<<"TS", "QP">>, <<"QP", "TS">>, <<"TS", "RC">>, <<"RC", "TS">>} :
       {m} # {<<"TS", "AD">>} /\ {m} # {<<"AD", "TS">>} /\ {m} # {}
<1>1. \A m, n : m # n => {m} # {n} /\ {m} # {}
  OBVIOUS
<1> QED
  BY <1>1

\* QP and RC use no more buffers than they put back; what they do beyond
\* receiving and sending leaves the loop where it is.
LEMMA OthersMove ==
  ASSUME Inv, NEW p \in {"QP", "RC"}, NEW to \in Places,
         pc' = [pc EXCEPT ![p] = to], pool' = pool, opt' = opt,
         net' = net, handed' = handed, i' \in [Procs -> Nat], i'["AD"] = i["AD"]
  PROVE  Inv'
<1>1. pc' \in [Procs -> Places] /\ pc'["AD"] = pc["AD"] /\ pc'["TS"] = pc["TS"]
  BY DEF Inv, TurnInv, Procs, Places
<1>2. Waiting' = Waiting /\ TsIdle' = TsIdle /\ Done' = Done
  BY <1>1 DEF Waiting, TsIdle, Done
<1>3. \A w : TsAsks(w)' = TsAsks(w)
  BY <1>1 DEF TsAsks
<1>4. TurnInv'
  BY <1>1, <1>2, <1>3 DEF Inv, TurnInv, AtReport, AtRequest, AtPrediction, Unanswered, AtPost,
     AtHandover, AtAck, Places
<1>5. PoolInv'
  BY <1>1, <1>2 DEF Inv, PoolInv
<1> QED
  BY <1>4, <1>5 DEF Inv

\* When TS fails the loop stays where it is.
LEMMA TsFails ==
  ASSUME Inv, NEW how \in Failed, NEW b \in Int, Fail("TS", how, b),
         b + PerLoop >= opt.buffers,
         pc["AD"] \in {"off", "loop"} \/ net = {<<"TS", "AD">>} => b = pool
  PROVE  Inv'
<1>1. /\ pc' \in [Procs -> Places] /\ pc'["AD"] = pc["AD"] /\ pc'["TS"] = how
      /\ UNCHANGED <<opt, i, net, handed>> /\ pool' = b
  BY DEF Inv, TurnInv, Procs, Places, Fail, End, To
<1>2. Waiting' = Waiting /\ TsIdle' /\ Done' = Done /\ \A w : TsAsks(w)'
  BY <1>1 DEF Waiting, TsIdle, Done, Failed, TsAsks
<1>3. TurnInv'
  BY <1>1, <1>2 DEF Inv, TurnInv, AtReport, AtRequest, AtPrediction, Unanswered, AtPost,
     AtHandover, AtAck, Places
<1>4. PoolInv'
  BY <1>1, <1>2 DEF Inv, PoolInv
<1> QED
  BY <1>3, <1>4 DEF Inv

\* AD fails or ends between two loops.
LEMMA AdFails ==
  ASSUME Inv, NEW how \in {"exit", "fault", "done"}, NEW b \in Int, Fail("AD", how, b),
         ~Waiting, b + PerLoop >= opt.buffers
  PROVE  Inv'
<1>1. /\ pc' \in [Procs -> Places] /\ pc'["AD"] = how /\ pc'["TS"] = pc["TS"]
      /\ UNCHANGED <<opt, i, net, handed>> /\ pool' = b
  BY DEF Inv, TurnInv, Procs, Places, Failed, Fail, End, To
<1>2. ~Waiting' /\ TsIdle' = TsIdle /\ Done' = Done
  BY <1>1 DEF Waiting, TsIdle, Done
<1>3. TurnInv'
  BY <1>1, <1>2 DEF Inv, TurnInv, Places
<1>4. PoolInv'
  BY <1>1, <1>2 DEF Inv, PoolInv
<1> QED
  BY <1>3, <1>4 DEF Inv

\* AD loses TS: it goes on having no acknowledgment.
LEMMA AdLost ==
  ASSUME Inv, pc["AD"] = "recv", Fail("AD", "lost", pool)
  PROVE  Inv'
<1>1. /\ pc' \in [Procs -> Places] /\ pc'["AD"] = "lost" /\ pc'["TS"] = pc["TS"]
      /\ UNCHANGED <<opt, i, net, handed>> /\ pool' = pool
  BY DEF Inv, TurnInv, Procs, Places, Failed, Fail, End, To
<1>2. Waiting /\ Waiting' /\ TsIdle' = TsIdle /\ Done' = Done
  BY <1>1 DEF Waiting, TsIdle, Done
<1>3. \A w : TsAsks(w)' = TsAsks(w)
  BY <1>1 DEF TsAsks
<1>4. TurnInv'
  BY <1>1, <1>2, <1>3 DEF Inv, TurnInv, AtReport, AtRequest, AtPrediction, Unanswered, AtPost,
     AtHandover, AtAck, Places
<1>5. PoolInv'
  BY <1>1, <1>2 DEF Inv, PoolInv
<1> QED
  BY <1>4, <1>5 DEF Inv

LEMMA RecvFailsKeeps ==
  ASSUME Inv, NEW p \in Procs, RecvFails(p)
  PROVE  Inv'
<1>1. Fail(p, "lost", pool) /\ WaitsFor(p) # {}
  BY DEF RecvFails
<1>2. CASE p = "AD"
  <2>1. pc["AD"] = "recv"
    BY <1>1, <1>2 DEF WaitsFor, At
  <2> QED
    BY <1>1, <1>2, <2>1, AdLost
<1>3. CASE p = "TS"
  BY <1>1, <1>3, TsFails DEF Inv, PoolInv, Failed
<1>4. CASE p \in {"QP", "RC"}
  BY <1>1, <1>4, OthersMove DEF Fail, End, To, Places, Failed, Inv, TurnInv
<1> QED
  BY <1>2, <1>3, <1>4 DEF Procs

-----------------------------------------------------------------------------
(* The steps of AD *)

LEMMA AdConnectKeeps == ASSUME Inv, AdConnect PROVE Inv'
<1>0. ~Waiting /\ pc["AD"] = "off"
  BY DEF AdConnect, At, Waiting
<1>1. CASE Refused("AD", "TS", pool)
  BY <1>0, <1>1, AdFails DEF Refused, Inv, PoolInv
<1>2. CASE ~Refused("AD", "TS", pool)
  <2>1. /\ pc' \in [Procs -> Places] /\ pc'["AD"] = "loop" /\ pc'["TS"] = pc["TS"]
        /\ UNCHANGED <<opt, i, net, handed, pool>>
    BY <1>2 DEF AdConnect, To, Inv, TurnInv, Procs, Places
  <2>2. ~Waiting' /\ TsIdle' = TsIdle /\ Done' = Done
    BY <2>1 DEF Waiting, TsIdle, Done
  <2> QED
    BY <1>0, <2>1, <2>2 DEF Inv, TurnInv, PoolInv, Places
<1> QED
  BY <1>1, <1>2

LEMMA AdReportKeeps == ASSUME Inv, AdReport PROVE Inv'
<1>0. ~Waiting /\ pc["AD"] = "loop" /\ pool = opt.buffers /\ opt.buffers \in Nat
  BY DEF AdReport, At, Waiting, Inv, PoolInv
<1>1. CASE Fail("AD", "exit", pool)
  BY <1>0, <1>1, AdFails DEF PerLoop
<1>2. CASE Fail("AD", "exit", pool - 1)
  BY <1>0, <1>2, AdFails DEF PerLoop
<1>3. CASE /\ pool' = pool - 1
           /\ net' = net \cup {<<"AD", "TS">>}
           /\ To("AD", "recv")
           /\ UNCHANGED <<opt, i, linked, closed, handed>>
  <2>1. /\ pc' \in [Procs -> Places] /\ pc'["AD"] = "recv" /\ pc'["TS"] = pc["TS"]
        /\ net' = {<<"AD", "TS">>}
    BY <1>0, <1>3 DEF To, Inv, TurnInv, Procs, Places
  <2>2. Waiting' /\ AtReport'
    BY <1>0, <1>3, <2>1 DEF Waiting, AtReport, TsIdle, Done, Inv, TurnInv
  <2>3. PoolInv'
    BY <1>0, <1>3, <2>1, <2>2 DEF PoolInv, AtReport, PerLoop
  <2> QED
    BY <1>3, <2>1, <2>2, <2>3 DEF Inv, TurnInv, Places
<1> QED
  BY <1>1, <1>2, <1>3 DEF AdReport

LEMMA AdAckedKeeps == ASSUME Inv, AdAcked PROVE Inv'
<1>1. Waiting /\ AtAck /\ pool = opt.buffers - 1 /\ opt.buffers \in Nat
  BY DEF AdAcked, At, Arrived, Waiting, Inv, TurnInv, PoolInv, AtReport, AtRequest, AtPrediction,
     Unanswered, AtPost, AtHandover, AtAck
<1>2. /\ pc' \in [Procs -> Places] /\ pc'["AD"] = "loop" /\ pc'["TS"] = pc["TS"]
      /\ i' \in [Procs -> Nat] /\ i'["AD"] = i["AD"] + 1
      /\ UNCHANGED <<opt, handed>> /\ net' = {} /\ pool' = opt.buffers
  BY <1>1 DEF AdAcked, To, Inv, TurnInv, Procs, Places, AtAck
<1>3. ~Waiting' /\ TsIdle' /\ handed' = Done'
  BY <1>1, <1>2 DEF Waiting, TsIdle, Done, AtAck
<1> QED
  BY <1>1, <1>2, <1>3 DEF Inv, TurnInv, PoolInv, Places, PerLoop

LEMMA AdEndKeeps == ASSUME Inv, AdEnd PROVE Inv'
BY AdFails DEF AdEnd, At, Waiting, Inv, PoolInv

-----------------------------------------------------------------------------
(* The steps of TS *)

\* TS moves without failing and the loop is somewhere else.
LEMMA TsMoves ==
  ASSUME Inv, Waiting, NEW to \in Places,
         pc' = [pc EXCEPT !["TS"] = to], opt' = opt, handed' = handed,
         i' \in [Procs -> Nat], i'["AD"] = i["AD"], pool' \in Int,
         pool' + PerLoop >= opt.buffers
  PROVE  /\ pc' \in [Procs -> Places] /\ pc'["TS"] = to /\ pc'["AD"] = pc["AD"]
         /\ Waiting' /\ Done' = Done
         /\ AtRequest' \/ AtPost' => (pool' = opt.buffers - 2 => Inv')
         /\ AtAck' => (pool' = opt.buffers - 1 => Inv')
<1>1. pc' \in [Procs -> Places] /\ pc'["TS"] = to /\ pc'["AD"] = pc["AD"]
  BY DEF Inv, TurnInv, Procs, Places
<1>2. Waiting' /\ Done' = Done
  BY <1>1 DEF Waiting, Done
<1>3. ASSUME AtRequest' \/ AtPost', pool' = opt.buffers - 2 PROVE Inv'
  <2>1. TurnInv'
    BY <1>1, <1>2, <1>3 DEF Inv, TurnInv, Places
  <2>2. net' # {<<"TS", "AD">>} /\ net' # {<<"AD", "TS">>}
    BY <1>3, Apart DEF AtRequest, AtPost
  <2>3. PoolInv'
    BY <1>2, <1>3, <2>2 DEF Inv, PoolInv, Waiting
  <2> QED
    BY <2>1, <2>3 DEF Inv
<1>4. ASSUME AtAck', pool' = opt.buffers - 1 PROVE Inv'
  <2>1. TurnInv'
    BY <1>1, <1>2, <1>4 DEF Inv, TurnInv, Places
  <2>2. PoolInv'
    BY <1>2, <1>4 DEF Inv, PoolInv, Waiting, AtAck
  <2> QED
    BY <2>1, <2>2 DEF Inv
<1> QED
  BY <1>1, <1>2, <1>3, <1>4

\* TS goes on to its next blocking call without having a request under way.
LEMMA TsIdles ==
  ASSUME Inv, NEW to \in {"accept", "recv"}, TsIdle, pc["TS"] \notin Failed,
         pc' = [pc EXCEPT !["TS"] = to], UNCHANGED <<opt, i, net, handed, pool>>
  PROVE  Inv'
<1>1. pc' \in [Procs -> Places] /\ pc'["TS"] = to /\ pc'["AD"] = pc["AD"]
  BY DEF Inv, TurnInv, Procs, Places
<1>2. Waiting' = Waiting /\ Done' = Done /\ TsIdle' /\ pc'["TS"] \notin Failed
  BY <1>1 DEF Waiting, Done, TsIdle, Failed
<1>3. TurnInv'
  <2>1. CASE ~Waiting
    BY <1>1, <1>2, <2>1 DEF Inv, TurnInv, Places
  <2>2. CASE Waiting
    <3>1. AtReport \/ AtAck
      BY <2>2 DEF Inv, TurnInv, TsIdle, AtReport, AtRequest, AtPrediction, Unanswered, AtPost,
         AtHandover, AtAck, TsAsks
    <3> QED
      BY <1>1, <1>2, <2>2, <3>1 DEF Inv, TurnInv, AtReport, AtAck, Places
  <2> QED
    BY <2>1, <2>2
<1>4. PoolInv'
  BY <1>1, <1>2 DEF Inv, PoolInv
<1> QED
  BY <1>3, <1>4 DEF Inv

LEMMA TsAcceptKeeps == ASSUME Inv, TsAccept PROVE Inv'
<1>1. CASE Refused("TS", "QP", pool)
  BY <1>1, TsFails DEF Refused, Inv, PoolInv, Failed
<1>2. CASE ~Refused("TS", "QP", pool)
  BY <1>2, TsIdles DEF TsAccept, At, To, TsIdle, Failed
<1> QED
  BY <1>1, <1>2

LEMMA TsPredictKeeps == ASSUME Inv, TsPredict PROVE Inv'
<1>1. /\ Waiting /\ AtReport /\ pc["TS"] = "recv"
      /\ pool = opt.buffers - 1 /\ opt.buffers \in Nat
  BY DEF TsPredict, At, Arrived, Failed, Waiting, Inv, TurnInv, PoolInv, AtReport, AtRequest,
     AtPrediction, Unanswered, AtPost, AtHandover, AtAck
<1>2. pc["AD"] \notin {"off", "loop"} /\ net # {<<"TS", "AD">>}
  BY <1>1, Apart DEF Waiting, AtReport
<1>3. CASE Fail("TS", "exit", IF pool = 0 THEN 0 ELSE pool - 1)
  BY <1>1, <1>2, <1>3, TsFails DEF Failed, PerLoop
<1>4. CASE /\ pool' = pool - 1
           /\ net' = Forwarded
           /\ To("TS", "predict")
           /\ UNCHANGED <<opt, i, linked, closed, handed>>
  <2>1. net' = {<<"TS", "QP">>}
    BY <1>1, <1>4 DEF Forwarded, Moved, AtReport
  <2>2. pool' = opt.buffers - 2 /\ pool' \in Int /\ pool' + PerLoop >= opt.buffers
    BY <1>1, <1>4 DEF PerLoop
  <2>3. pc' = [pc EXCEPT !["TS"] = "predict"] /\ i' \in [Procs -> Nat] /\ i'["AD"] = i["AD"]
    BY <1>4 DEF To, Inv, TurnInv
  <2>4. /\ pc'["TS"] = "predict" /\ Done' = Done
        /\ AtRequest' \/ AtPost' => (pool' = opt.buffers - 2 => Inv')
    BY <1>1, <1>4, <2>2, <2>3, TsMoves DEF Places
  <2>5. AtRequest'
    BY <1>1, <1>4, <2>1, <2>4 DEF AtRequest, AtReport, TsAsks
  <2> QED
    BY <2>2, <2>4, <2>5
<1> QED
  BY <1>3, <1>4 DEF TsPredict

LEMMA TsPostKeeps == ASSUME Inv, TsPost PROVE Inv'
<1>1. /\ Waiting /\ AtPrediction /\ pc["TS"] = "predict"
      /\ pool = opt.buffers - 2 /\ opt.buffers \in Nat
  BY DEF TsPost, At, Arrived, Failed, Waiting, TsIdle, Inv, TurnInv, PoolInv, AtReport, AtRequest,
     AtPrediction, Unanswered, AtPost, AtHandover, AtAck
<1>2. pc["AD"] \notin {"off", "loop"} /\ net # {<<"TS", "AD">>}
  BY <1>1, Apart DEF Waiting, AtPrediction
<1>3. ASSUME NEW how \in Failed, Fail("TS", how, PutPrediction) PROVE Inv'
  BY <1>1, <1>2, <1>3, TsFails DEF PutPrediction, PerLoop
<1>4. CASE /\ net' = Moved("TS", "QP", "RC")
           /\ pool' = PutPrediction - 1
           /\ To("TS", "post")
           /\ UNCHANGED <<opt, i, handed, late>>
  <2>1. net' = {<<"TS", "RC">>}
    BY <1>1, <1>4 DEF Moved, AtPrediction
  <2>2. pool' = opt.buffers - 2 /\ pool' \in Int /\ pool' + PerLoop >= opt.buffers
    BY <1>1, <1>4 DEF PerLoop, PutPrediction
  <2>3. pc' = [pc EXCEPT !["TS"] = "post"] /\ i' \in [Procs -> Nat] /\ i'["AD"] = i["AD"]
    BY <1>4 DEF To, Inv, TurnInv
  <2>4. /\ pc'["TS"] = "post" /\ Done' = Done
        /\ AtRequest' \/ AtPost' => (pool' = opt.buffers - 2 => Inv')
    BY <1>1, <1>4, <2>2, <2>3, TsMoves DEF Places
  <2>5. AtPost'
    BY <1>1, <1>4, <2>1, <2>4 DEF AtPost, AtPrediction, TsAsks
  <2> QED
    BY <2>2, <2>4, <2>5
<1> QED
  BY <1>3, <1>4 DEF TsPost, Refused, Failed

LEMMA TsAckKeeps == ASSUME Inv, TsAck PROVE Inv'
<1>1. /\ Waiting /\ AtHandover /\ pc["TS"] = "post"
      /\ pool = opt.buffers - 2 /\ opt.buffers \in Nat
  BY DEF TsAck, At, Arrived, Failed, Waiting, TsIdle, Inv, TurnInv, PoolInv, AtReport, AtRequest,
     AtPrediction, Unanswered, AtPost, AtHandover, AtAck
<1>2. PICK to \in {"recv", "done", "exit"} : pc' = [pc EXCEPT !["TS"] = to]
  BY DEF TsAck, To, End
<1>3. net' = {<<"TS", "AD">>}
  BY <1>1 DEF TsAck, Moved, AtHandover
<1>4. pool' = opt.buffers - 1 /\ pool' \in Int /\ pool' + PerLoop >= opt.buffers
  BY <1>1 DEF TsAck, PerLoop
<1>5. i' \in [Procs -> Nat] /\ i'["AD"] = i["AD"] /\ opt' = opt /\ handed' = handed
  BY DEF TsAck, Inv, TurnInv, Procs
<1>6. /\ pc'["TS"] = to /\ Done' = Done
      /\ AtAck' => (pool' = opt.buffers - 1 => Inv')
  BY <1>1, <1>2, <1>4, <1>5, TsMoves DEF Places, Failed
<1>7. AtAck'
  BY <1>1, <1>3, <1>5, <1>6 DEF AtAck, AtHandover, TsIdle
<1> QED
  BY <1>4, <1>6, <1>7

-----------------------------------------------------------------------------
(* The steps of QP and RC *)

LEMMA OthersPass ==
  ASSUME Inv, Waiting, pc' \in [Procs -> Places], pc'["AD"] = pc["AD"], pc'["TS"] = pc["TS"],
         pool' = pool, opt' = opt, i' \in [Procs -> Nat], i'["AD"] = i["AD"], handed' \in Nat,
         AtPrediction' \/ Unanswered' \/ AtHandover'
  PROVE  Inv'
<1>1. Waiting' /\ TsIdle' = TsIdle
  BY DEF Waiting, TsIdle
<1>2. TurnInv'
  BY <1>1 DEF TurnInv, Places
<1>3. net' # {<<"TS", "AD">>} /\ net' # {<<"AD", "TS">>}
  BY Apart DEF AtPrediction, Unanswered, AtHandover
<1>4. PoolInv'
  BY <1>1, <1>3 DEF Inv, PoolInv, Waiting
<1> QED
  BY <1>2, <1>4 DEF Inv

\* What QP does after a message, whether it goes on or ends.
LEMMA QpGoesOn ==
  ASSUME Inv, QpNext
  PROVE  /\ pc' \in [Procs -> Places] /\ pc'["AD"] = pc["AD"] /\ pc'["TS"] = pc["TS"]
         /\ i' \in [Procs -> Nat] /\ i'["AD"] = i["AD"]
BY DEF Inv, TurnInv, QpNext, End, To, Procs, Places

\* A request at QP.
LEMMA QpAsked ==
  ASSUME Inv, Arrived("QP", "TS")
  PROVE  Waiting /\ AtRequest
BY Apart DEF Inv, TurnInv, Arrived, AtReport, AtRequest, AtPrediction, Unanswered, AtPost,
   AtHandover, AtAck

LEMMA QpReplyKeeps == ASSUME Inv, QpReply PROVE Inv'
<1>1. Waiting /\ AtRequest
  BY QpAsked DEF QpReply
<1>2. CASE Fail("QP", "exit", pool)
  BY <1>2, OthersMove DEF Fail, End, To, Places, Failed, Inv, TurnInv
<1>3. CASE /\ net' = Moved("QP", "TS", "TS")
           /\ QpNext
           /\ UNCHANGED <<opt, linked, pool, handed>>
  <2>1. AtPrediction'
    BY <1>1, <1>3, QpGoesOn DEF Moved, AtRequest, AtPrediction, TsAsks, Done
  <2> QED
    BY <1>1, <1>3, <2>1, QpGoesOn, OthersPass DEF Inv, TurnInv
<1> QED
  BY <1>2, <1>3 DEF QpReply

LEMMA QpMalformedKeeps == ASSUME Inv, QpMalformed PROVE Inv'
<1>1. Waiting /\ AtRequest
  BY QpAsked DEF QpMalformed
<1>2. CASE Fail("QP", "fault", pool)
  BY <1>2, OthersMove DEF Fail, End, To, Places, Failed, Inv, TurnInv
<1>3. CASE /\ net' = net \ {<<"TS", "QP">>}
           /\ QpNext
           /\ UNCHANGED <<opt, linked, pool, handed>>
  <2>1. Unanswered'
    BY <1>1, <1>3, QpGoesOn DEF AtRequest, Unanswered, TsAsks, Done
  <2> QED
    BY <1>1, <1>3, <2>1, QpGoesOn, OthersPass DEF Inv, TurnInv
<1> QED
  BY <1>2, <1>3 DEF QpMalformed

\* A request at RC.
LEMMA RcAsked ==
  ASSUME Inv, Arrived("RC", "TS")
  PROVE  Waiting /\ AtPost
BY Apart DEF Inv, TurnInv, Arrived, AtReport, AtRequest, AtPrediction, Unanswered, AtPost,
   AtHandover, AtAck

LEMMA RcHandoverKeeps == ASSUME Inv, RcHandover PROVE Inv'
<1>1. Waiting /\ AtPost
  BY RcAsked DEF RcHandover
<1>2. CASE Fail("RC", "exit", pool)
  BY <1>2, OthersMove DEF Fail, End, To, Places, Failed, Inv, TurnInv
<1>3. CASE ~Fail("RC", "exit", pool)
  <2>1. /\ handed' = handed + 1 /\ net' = Moved("RC", "TS", "TS")
        /\ i' = [i EXCEPT !["RC"] = @ + 1] /\ UNCHANGED <<opt, pool>>
        /\ To("RC", IF Left("RC", i["RC"] + 1) THEN "accept" ELSE "done")
    BY <1>3 DEF RcHandover
  <2>2. /\ pc' \in [Procs -> Places] /\ pc'["AD"] = pc["AD"] /\ pc'["TS"] = pc["TS"]
        /\ i' \in [Procs -> Nat] /\ i'["AD"] = i["AD"] /\ handed' \in Nat
    BY <2>1 DEF Inv, TurnInv, To, Procs, Places
  <2>3. AtHandover'
    BY <1>1, <2>1, <2>2 DEF Moved, AtPost, AtHandover, TsAsks, Done
  <2> QED
    BY <1>1, <2>1, <2>2, <2>3, OthersPass
<1> QED
  BY <1>2, <1>3

-----------------------------------------------------------------------------
(* All steps *)

LEMMA ListenKeeps ==
  ASSUME Inv, NEW p \in Procs, Listen(p)
  PROVE  Inv'
<1>1. CASE p = "TS"
  BY <1>1, TsIdles DEF Listen, At, To, TsIdle, Failed
<1>2. CASE p \in {"QP", "RC"}
  BY <1>2, OthersMove DEF Listen, To, Places, Inv, TurnInv
<1> QED
  BY <1>1, <1>2 DEF Listen, Procs

LEMMA AcceptKeeps == ASSUME Inv, QpAccept \/ RcAccept PROVE Inv'
<1>1. CASE QpAccept
  BY <1>1, OthersMove DEF QpAccept, To, Places, Inv, TurnInv
<1>2. CASE RcAccept
  BY <1>2, OthersMove DEF RcAccept, To, Places, Inv, TurnInv
<1> QED
  BY <1>1, <1>2

LEMMA StutterKeeps == ASSUME Inv, UNCHANGED vars PROVE Inv'
BY DEF Inv, TurnInv, PoolInv, vars, Waiting, TsIdle, TsAsks, Done, AtReport, AtRequest,
   AtPrediction, Unanswered, AtPost, AtHandover, AtAck

LEMMA InvStep == Inv /\ [Next]_vars => Inv'
<1> SUFFICES ASSUME Inv, [Next]_vars PROVE Inv'
  OBVIOUS
<1>1. CASE UNCHANGED vars
  BY <1>1, StutterKeeps
<1>2. CASE AdConnect
  BY <1>2, AdConnectKeeps
<1>3. ASSUME NEW p \in Procs, Listen(p) PROVE Inv'
  BY <1>3, ListenKeeps
<1>4. ASSUME NEW p \in Procs, Step(p) PROVE Inv'
  BY <1>4, RecvFailsKeeps, AdReportKeeps, AdAckedKeeps, AdEndKeeps, TsAcceptKeeps, TsPredictKeeps,
     TsPostKeeps, TsAckKeeps, AcceptKeeps, QpReplyKeeps, QpMalformedKeeps, RcHandoverKeeps
     DEF Step
<1> QED
  BY <1>1, <1>2, <1>3, <1>4 DEF Next

LEMMA InvHolds == Spec => []Inv
<1> QED
  BY InvInit, InvStep, PTL DEF Spec

-----------------------------------------------------------------------------
(* Buffers *)

\* Between two loops of the xApps every buffer is back in the pool, and a loop
\* uses three at most, for all options and however the processes fail.
THEOREM BuffersComeBack == Spec => []BuffersBack
<1>1. Inv => BuffersBack
  BY DEF Inv, PoolInv, BuffersBack, At
<1> QED
  BY <1>1, InvHolds, PTL

-----------------------------------------------------------------------------
(* The control loop *)

\* Nothing of the abstract loop changes.
Quiet == Waiting' = Waiting /\ Done' = Done /\ handed' = handed

LEMMA QuietStutters ==
  ASSUME Quiet
  PROVE  [Loop!Next]_<<IF pc["AD"] \in {"recv", "lost"} THEN i["AD"] + 1 ELSE i["AD"],
                       handed, i["AD"]>>
BY DEF Quiet, Waiting, Done

\* A failure is not seen from outside.
LEMMA FailQuiet ==
  ASSUME Inv, NEW p \in Procs, NEW how \in Failed \cup {"done"}, NEW b, Fail(p, how, b),
         p = "AD" => (Waiting <=> how = "lost")
  PROVE  Quiet
BY DEF Inv, TurnInv, Fail, End, To, Quiet, Waiting, Done, Procs, Failed

\* Neither is a step of a process that is not AD.
LEMMA OthersQuiet ==
  ASSUME Inv, NEW p \in Procs \ {"AD"}, NEW to, pc' = [pc EXCEPT ![p] = to],
         handed' = handed, i' = i \/ \E q \in Procs \ {"AD"} : i' = [i EXCEPT ![q] = @ + 1]
  PROVE  Quiet
BY DEF Inv, TurnInv, Quiet, Waiting, Done, Procs

LEMMA AdRefines ==
  ASSUME Inv, AdConnect \/ AdReport \/ AdAcked \/ AdEnd
  PROVE  Quiet \/ Loop!Report \/ Loop!Acknowledge
<1>1. CASE AdConnect
  <2>1. CASE Refused("AD", "TS", pool)
    BY <1>1, <2>1, FailQuiet DEF AdConnect, At, Refused, Failed, Waiting, Procs
  <2>2. CASE ~Refused("AD", "TS", pool)
    BY <1>1, <2>2 DEF AdConnect, At, To, Inv, TurnInv, Quiet, Waiting, Done, Procs
  <2> QED
    BY <2>1, <2>2
<1>2. CASE AdReport
  <2>0. pc["AD"] = "loop" /\ ~Waiting /\ handed = i["AD"]
    BY <1>2 DEF AdReport, At, Waiting, Inv, TurnInv, Done
  <2>1. ASSUME NEW b, Fail("AD", "exit", b) PROVE Quiet
    BY <2>0, <2>1, FailQuiet DEF Failed, Procs
  <2>2. CASE To("AD", "recv") /\ UNCHANGED <<i, handed>>
    <3>1. pc'["AD"] = "recv"
      BY <2>2 DEF To, Inv, TurnInv, Procs
    <3> QED
      BY <2>0, <2>2, <3>1 DEF Loop!Report
  <2> QED
    BY <1>2, <2>1, <2>2 DEF AdReport
<1>3. CASE AdAcked
  <2>1. Waiting /\ AtAck
    BY <1>3, Apart DEF AdAcked, At, Arrived, Waiting, Inv, TurnInv, AtReport, AtRequest,
       AtPrediction, Unanswered, AtPost, AtHandover, AtAck
  <2>2. /\ pc["AD"] = "recv" /\ pc'["AD"] = "loop" /\ i'["AD"] = i["AD"] + 1
        /\ i["AD"] \in Nat /\ handed' = handed
    BY <1>3 DEF AdAcked, At, To, Inv, TurnInv, Procs
  <2> QED
    BY <2>1, <2>2 DEF AtAck, Done, Loop!Acknowledge
<1>4. CASE AdEnd
  BY <1>4, FailQuiet DEF AdEnd, At, Waiting, Failed, Procs
<1> QED
  BY <1>1, <1>2, <1>3, <1>4

LEMMA TsRefines ==
  ASSUME Inv, TsAccept \/ TsPredict \/ TsPost \/ TsAck
  PROVE  Quiet
<1>1. ASSUME NEW how \in Failed, NEW b, Fail("TS", how, b) PROVE Quiet
  BY <1>1, FailQuiet DEF Procs
<1>2. ASSUME NEW to, To("TS", to), UNCHANGED <<i, handed>> PROVE Quiet
  BY <1>2, OthersQuiet DEF To, Procs
<1>3. CASE TsAccept
  BY <1>1, <1>2, <1>3 DEF TsAccept, Refused, Failed
<1>4. CASE TsPredict
  BY <1>1, <1>2, <1>4 DEF TsPredict, Failed
<1>5. CASE TsPost
  BY <1>1, <1>2, <1>5 DEF TsPost, Refused, Failed
<1>6. CASE TsAck
  <2>1. PICK to : pc' = [pc EXCEPT !["TS"] = to]
    BY <1>6 DEF TsAck, To, End
  <2> QED
    BY <1>6, <2>1, OthersQuiet DEF TsAck, Procs
<1> QED
  BY <1>3, <1>4, <1>5, <1>6

LEMMA QpRefines ==
  ASSUME Inv, QpAccept \/ QpReply \/ QpMalformed
  PROVE  Quiet
<1>1. ASSUME NEW how \in Failed, Fail("QP", how, pool) PROVE Quiet
  BY <1>1, FailQuiet DEF Procs
<1>2. ASSUME QpNext, handed' = handed PROVE Quiet
  BY <1>2, QpGoesOn DEF Quiet, Waiting, Done
<1>3. CASE QpAccept
  BY <1>3, OthersQuiet DEF QpAccept, To, Procs
<1> QED
  BY <1>1, <1>2, <1>3 DEF QpReply, QpMalformed, Failed

LEMMA RcRefines ==
  ASSUME Inv, RcAccept \/ RcHandover
  PROVE  Quiet \/ Loop!Handover
<1>1. CASE RcAccept
  BY <1>1, OthersQuiet DEF RcAccept, To, Procs
<1>2. CASE Fail("RC", "exit", pool)
  BY <1>2, FailQuiet DEF Failed, Procs
<1>3. CASE RcHandover /\ ~Fail("RC", "exit", pool)
  <2>1. Waiting /\ AtPost
    BY <1>3, RcAsked DEF RcHandover
  <2>2. /\ handed' = handed + 1 /\ pc'["AD"] = pc["AD"] /\ i'["AD"] = i["AD"] /\ i["AD"] \in Nat
    BY <1>3 DEF RcHandover, To, Inv, TurnInv, Procs
  <2> QED
    BY <2>1, <2>2 DEF AtPost, Done, Waiting, Loop!Handover
<1> QED
  BY <1>1, <1>2, <1>3 DEF RcHandover

LEMMA LoopStep ==
  ASSUME Inv, [Next]_vars
  PROVE  [Loop!Next]_<<IF pc["AD"] \in {"recv", "lost"} THEN i["AD"] + 1 ELSE i["AD"],
                       handed, i["AD"]>>
<1>1. CASE UNCHANGED vars
  BY <1>1, QuietStutters DEF vars, Quiet, Waiting, Done
<1>2. ASSUME NEW p \in Procs, Listen(p) PROVE Quiet
  BY <1>2, OthersQuiet DEF Listen, To
<1>3. ASSUME NEW p \in Procs, RecvFails(p) PROVE Quiet
  <2>1. Fail(p, "lost", pool) /\ WaitsFor(p) # {}
    BY <1>3 DEF RecvFails
  <2>2. p = "AD" => Waiting
    BY <2>1 DEF WaitsFor, At, Waiting
  <2> QED
    BY <2>1, <2>2, FailQuiet DEF Failed
<1>4. Next => \/ Quiet \/ Loop!Report \/ Loop!Handover \/ Loop!Acknowledge
  BY <1>2, <1>3, AdRefines, TsRefines, QpRefines, RcRefines DEF Next, Step
<1> QED
  BY <1>1, <1>4, QuietStutters DEF Loop!Next

\* The xApps implement the abstract control loop: a report is followed by one
\* handover and then by its acknowledgment, for all options, numbers of
\* iterations and failures.
THEOREM LoopRefinement == Spec => ImplementsControlLoop
<1>1. Init => Loop!Init
  BY DEF Init, Loop!Init, Procs
<1>2. Inv /\ [Next]_vars
        => [Loop!Next]_<<IF pc["AD"] \in {"recv", "lost"} THEN i["AD"] + 1 ELSE i["AD"],
                         handed, i["AD"]>>
  BY LoopStep
<1> QED
  BY <1>1, <1>2, InvHolds, PTL DEF Spec, ImplementsControlLoop, Loop!Spec
-----------------------------------------------------------------------------
(* Failures *)

\* Nothing is wrong with the options, the order of starting and the buffers.
Good == GoodOptions /\ ~late /\ opt.buffers >= PerLoop
Loops == opt.iters["AD"]

\* How far TS, QP and RC are ahead of AD.
Ahead(ts, qp, rc) == i["TS"] = Done + ts /\ i["QP"] = Done + qp /\ i["RC"] = Done + rc

TurnsKept ==
  \/ ~Waiting /\ Done <= Loops /\ Ahead(0, 0, 0)
  \/ /\ Waiting /\ Done < Loops
     /\ \/ (AtReport \/ AtRequest) /\ Ahead(0, 0, 0)
        \/ (AtPrediction \/ AtPost) /\ Ahead(0, 1, 0)
        \/ AtHandover /\ Ahead(0, 1, 1)
        \/ AtAck /\ Ahead(1, 1, 1)

\* No one ends before it has done all its iterations, and no one fails, AD apart.
PlacesKept ==
  /\ \/ pc["AD"] \in {"off", "loop", "recv"}
     \/ pc["AD"] = "done" /\ Done = Loops
     \/ pc["AD"] = "fault" /\ Done = Loops /\ Loops = 1
  /\ pc["TS"] \in {"off", "accept", "recv", "predict", "post", "done"}
  /\ \A p \in {"QP", "RC"} : pc[p] \in {"off", "accept", "recv", "done"}
  /\ \A p \in {"TS", "QP", "RC"} : pc[p] = "done" <=> i[p] = Loops

\* A connection is closed by a process that ended, or it is the one for a handover.
LinksKept ==
  /\ \A p, q \in Procs : <<p, q>> \in closed =>
       pc[p] \in {"done", "fault"} \/ <<p, q>> \in {<<"TS", "RC">>, <<"RC", "TS">>}
  /\ AtPost => <<"TS", "RC">> \notin closed /\ <<"RC", "TS">> \notin closed
  /\ <<"TS", "RC">> \in linked \/ pc["RC"] = "recv" => AtPost
  /\ pc["AD"] = "off" => pc["TS"] \in {"off", "accept"} /\ <<"AD", "TS">> \notin linked
  /\ pc["TS"] \in {"off", "accept"} => <<"TS", "QP">> \notin linked
  /\ <<"TS", "QP">> \notin linked => pc["QP"] \in {"off", "accept"}

GoodInv == Good => TurnsKept /\ PlacesKept /\ LinksKept

Kept == TurnsKept /\ PlacesKept /\ LinksKept
OptOK == opt \in Options

\* What good options are.
LEMMA GoodKnown ==
  ASSUME OptOK, Good
  PROVE  /\ Loops \in Nat \ {0} /\ \A p \in Procs : opt.iters[p] = Loops
         /\ opt.ues \in Nat \ {0} /\ opt.ues <= ReportFit /\ opt.ues <= ReplyFit
         /\ opt.cells # 0 /\ opt.buffers \in Nat /\ opt.buffers >= 3
<1>1. opt.iters \in [Procs -> 1 .. MaxIters] /\ opt.cells \in 0 .. 1 /\ opt.buffers \in 1 .. MaxPool
  BY DEF OptOK, Options
<1>2. Loops \in Nat \ {0} /\ opt.buffers \in Nat
  BY <1>1, RicAssumption DEF Loops, Procs
<1>3. \A p \in Procs : opt.iters[p] = Loops
  BY DEF Good, GoodOptions, Loops, Procs
<1>4. opt.ues \in Nat \ {0} /\ opt.ues <= ReportFit
  BY RicAssumption DEF Good, GoodOptions
<1> QED
  BY <1>1, <1>2, <1>3, <1>4 DEF Good, GoodOptions, PerLoop

\* The phases of a loop, when no one failed.
LEMMA Phases ==
  ASSUME Inv, Kept
  PROVE  /\ AtReport => TsIdle
         /\ AtRequest \/ AtPrediction => pc["TS"] = "predict"
         /\ AtPost \/ AtHandover => pc["TS"] = "post"
         /\ Waiting <=> pc["AD"] = "recv"
         /\ i["AD"] \in Nat
         /\ i \in [Procs -> Nat]
         /\ pc \in [Procs -> Places]
BY DEF Inv, TurnInv, Kept, PlacesKept, AtReport, AtRequest, AtPrediction, AtPost, AtHandover,
   TsAsks, Failed, Waiting, Procs, Places

\* The phase, from the message under way.
LEMMA PhaseNow ==
  ASSUME Inv, Kept
  PROVE  /\ net = {} => ~Waiting
         /\ <<"AD", "TS">> \in net => Waiting /\ AtReport /\ Ahead(0, 0, 0)
         /\ <<"TS", "QP">> \in net => Waiting /\ AtRequest /\ Ahead(0, 0, 0)
         /\ <<"QP", "TS">> \in net => Waiting /\ AtPrediction /\ Ahead(0, 1, 0)
         /\ <<"TS", "RC">> \in net => Waiting /\ AtPost /\ Ahead(0, 1, 0)
         /\ <<"RC", "TS">> \in net => Waiting /\ AtHandover /\ Ahead(0, 1, 1)
         /\ <<"TS", "AD">> \in net => Waiting /\ AtAck /\ Ahead(1, 1, 1)
         /\ ~Waiting => net = {} /\ Ahead(0, 0, 0) /\ TsIdle /\ handed = Done
         /\ Waiting => Done < Loops
BY DEF Inv, TurnInv, Kept, TurnsKept, AtReport, AtRequest, AtPrediction, AtPost, AtHandover, AtAck

\* A message is only the one of its phase.
LEMMA PhaseNot ==
  /\ AtReport => net = {<<"AD", "TS">>}
  /\ AtRequest => net = {<<"TS", "QP">>}
  /\ AtPrediction => net = {<<"QP", "TS">>}
  /\ AtPost => net = {<<"TS", "RC">>}
  /\ AtHandover => net = {<<"RC", "TS">>}
  /\ AtAck => net = {<<"TS", "AD">>}
BY DEF AtReport, AtRequest, AtPrediction, AtPost, AtHandover, AtAck

\* Who has ended has done all its iterations.
LEMMA Closing ==
  ASSUME Kept
  PROVE  /\ \A q \in Procs : <<"AD", q>> \in closed => Done = Loops /\ ~Waiting
         /\ <<"TS", "AD">> \in closed \/ <<"TS", "QP">> \in closed => i["TS"] = Loops
         /\ <<"QP", "TS">> \in closed => i["QP"] = Loops
         /\ \A p \in {"TS", "QP", "RC"} : pc[p] # "done" => i[p] # Loops
<1>1. \A q \in Procs : <<"AD", q>> \in closed => pc["AD"] \in {"done", "fault"}
  BY DEF Kept, LinksKept, Procs
<1>2. <<"TS", "AD">> \in closed \/ <<"TS", "QP">> \in closed => pc["TS"] \in {"done", "fault"}
  BY DEF Kept, LinksKept, Procs
<1>3. <<"QP", "TS">> \in closed => pc["QP"] \in {"done", "fault"}
  BY DEF Kept, LinksKept, Procs
<1> QED
  BY <1>1, <1>2, <1>3 DEF Kept, PlacesKept, Waiting

\* No connection is lost.
LEMMA NoneLost ==
  ASSUME Inv, OptOK, Good, Kept, NEW p \in Procs, RecvFails(p)
  PROVE  FALSE
<1>1. PICK q \in WaitsFor(p) : <<q, p>> \notin net /\ <<q, p>> \in closed
  BY DEF RecvFails, Arrived
<1>2. Loops \in Nat \ {0} /\ i \in [Procs -> Nat] /\ Done \in Nat
  BY GoodKnown, Phases DEF Done
<1>3. CASE p = "AD"
  <2>1. q = "TS" /\ pc["AD"] = "recv"
    BY <1>1, <1>3 DEF WaitsFor, At
  <2>2. Waiting /\ i["TS"] = Loops /\ Done < Loops
    BY <1>1, <1>3, <2>1, Closing, PhaseNow DEF Waiting
  <2>3. i["TS"] = Done
    BY <1>1, <1>2, <1>3, <2>1, <2>2, PhaseNot DEF Kept, TurnsKept, Ahead
  <2> QED
    BY <1>2, <2>2, <2>3
<1>4. CASE p = "TS"
  <2>1. \/ q = "AD" /\ pc["TS"] = "recv"
        \/ q = "QP" /\ pc["TS"] = "predict"
        \/ q = "RC" /\ pc["TS"] = "post"
    BY <1>1, <1>4 DEF WaitsFor, At
  <2>2. CASE q = "AD" /\ pc["TS"] = "recv"
    <3>1. ~Waiting /\ Done = Loops /\ i["TS"] # Loops
      BY <1>1, <1>4, <2>2, Closing DEF Procs
    <3> QED
      BY <1>2, <3>1, PhaseNow DEF Ahead
  <2>3. CASE q = "QP" /\ pc["TS"] = "predict"
    <3>1. Waiting /\ Done < Loops
      BY <2>3, PhaseNow DEF TsIdle
    <3>2. AtRequest \/ AtPrediction
      BY <2>3, <3>1, Phases DEF Kept, TurnsKept, TsIdle, AtReport, AtAck
    <3>3. AtRequest /\ Ahead(0, 0, 0)
      BY <1>1, <1>4, <2>3, <3>2, PhaseNot, PhaseNow
    <3> QED
      BY <1>1, <1>2, <1>4, <2>3, <3>1, <3>3, Closing DEF Ahead
  <2>4. CASE q = "RC" /\ pc["TS"] = "post"
    <3>1. Waiting
      BY <2>4, PhaseNow DEF TsIdle
    <3>2. AtPost \/ AtHandover
      BY <2>4, <3>1, Phases DEF Kept, TurnsKept, TsIdle, AtReport, AtAck
    <3>3. AtPost
      BY <1>1, <1>4, <2>4, <3>2, PhaseNot
    <3> QED
      BY <1>1, <1>4, <2>4, <3>3 DEF Kept, LinksKept
  <2> QED
    BY <2>1, <2>2, <2>3, <2>4
<1>5. CASE p = "QP"
  <2>1. q = "TS" /\ pc["QP"] = "recv"
    BY <1>1, <1>5 DEF WaitsFor, At
  <2>2. i["TS"] = Loops /\ i["QP"] # Loops
    BY <1>1, <1>5, <2>1, Closing
  <2> QED
    BY <1>2, <2>2 DEF Kept, TurnsKept, Ahead
<1>6. CASE p = "RC"
  <2>1. q = "TS" /\ pc["RC"] = "recv"
    BY <1>1, <1>6 DEF WaitsFor, At
  <2>2. AtPost
    BY <2>1 DEF Kept, LinksKept
  <2> QED
    BY <1>1, <1>6, <2>1, <2>2, PhaseNot
<1> QED
  BY <1>3, <1>4, <1>5, <1>6 DEF Procs

\* A step that leaves loop, counts and TS where they are.
LEMMA TurnsSame ==
  ASSUME TurnsKept, UNCHANGED <<opt, net, handed, i>>, pc'["TS"] = pc["TS"], Waiting' = Waiting
  PROVE  TurnsKept' /\ (AtPost' <=> AtPost)
<1>1. Done' = Done /\ Loops' = Loops /\ TsIdle' = TsIdle /\ \A w : TsAsks(w)' = TsAsks(w)
  BY DEF Done, Loops, TsIdle, TsAsks
<1>2. \A a, b, d : Ahead(a, b, d)' = Ahead(a, b, d)
  BY <1>1 DEF Ahead
<1>3. /\ AtReport' = AtReport /\ AtRequest' = AtRequest /\ AtPrediction' = AtPrediction
      /\ AtPost' = AtPost /\ AtHandover' = AtHandover /\ AtAck' = AtAck
  BY <1>1 DEF AtReport, AtRequest, AtPrediction, AtPost, AtHandover, AtAck
<1> QED
  BY <1>1, <1>2, <1>3 DEF TurnsKept

\* AD connects to a TS that listens.
LEMMA KeptAdConnect ==
  ASSUME Inv, Good, Good', Kept, AdConnect PROVE Kept'
<1>1. pc["AD"] = "off" /\ pc["TS"] \in {"off", "accept"}
  BY DEF AdConnect, At, Kept, LinksKept
<1>2. ~Refused("AD", "TS", pool)
  BY <1>1 DEF Refused, Listening, At, Good
<1>3. /\ pc' = [pc EXCEPT !["AD"] = "loop"] /\ linked' = linked \cup {<<"AD", "TS">>}
      /\ UNCHANGED <<opt, i, net, closed, handed>>
  BY <1>2 DEF AdConnect, To
<1>4. /\ pc'["AD"] = "loop" /\ \A p \in Procs \ {"AD"} : pc'[p] = pc[p]
  BY <1>3, Phases DEF Procs
<1>5. TurnsKept' /\ (AtPost' <=> AtPost)
  BY <1>1, <1>3, <1>4, TurnsSame DEF Waiting, Kept, Procs
<1>6. PlacesKept'
  BY <1>3, <1>4 DEF Kept, PlacesKept, Loops, Procs
<1>7. LinksKept'
  BY <1>1, <1>3, <1>4, <1>5 DEF Kept, LinksKept, Procs
<1> QED
  BY <1>5, <1>6, <1>7 DEF Kept

\* AD has a buffer for the report, and TS is there to receive it.
LEMMA KeptAdReport ==
  ASSUME Inv, OptOK, Good, Kept, AdReport, Inv' PROVE Kept'
<1>1. pc["AD"] = "loop" /\ Done < Loops /\ ~Waiting /\ Ahead(0, 0, 0) /\ net = {} /\ TsIdle /\ handed = Done
  BY PhaseNow DEF AdReport, At, Done, Loops, Waiting
<1>2. pool > 0 /\ ~(opt.ues > ReportFit) /\ pool # 0
  <2>1. pool = opt.buffers /\ opt.buffers \in Nat /\ opt.buffers >= 3
    BY <1>1, GoodKnown DEF Inv, PoolInv
  <2>2. opt.ues \in Nat /\ opt.ues <= ReportFit /\ ReportFit \in Nat
    BY GoodKnown, RicAssumption
  <2> QED
    BY <2>1, <2>2
<1>3. CanSend("AD", "TS")
  BY <1>1, Phases, GoodKnown, Closing DEF CanSend, Ahead, Done
<1>4. /\ net' = {<<"AD", "TS">>} /\ pc' = [pc EXCEPT !["AD"] = "recv"]
      /\ UNCHANGED <<opt, i, linked, closed, handed>>
  BY <1>1, <1>2, <1>3 DEF AdReport, To
<1>5. pc'["AD"] = "recv" /\ \A p \in Procs \ {"AD"} : pc'[p] = pc[p]
  BY <1>4, Phases DEF Procs
<1>6. Done' = Done /\ Loops' = Loops /\ Waiting' /\ TsIdle' /\ Ahead(0, 0, 0)'
  BY <1>1, <1>4, <1>5 DEF Done, Loops, Waiting, TsIdle, Ahead, Procs
<1>7. AtReport'
  BY <1>1, <1>4, <1>6 DEF AtReport
<1>8. TurnsKept'
  BY <1>1, <1>6, <1>7 DEF TurnsKept
<1>9. PlacesKept'
  BY <1>4, <1>5, <1>6 DEF Kept, PlacesKept, Procs
<1>10. ~AtPost
  BY <1>1, PhaseNot
<1>11. LinksKept'
  <2>1. ~AtPost'
    BY <1>4, Apart DEF AtPost
  <2>2. \A p, q \in Procs : <<p, q>> \in closed' =>
          pc'[p] \in {"done", "fault"} \/ <<p, q>> \in {<<"TS", "RC">>, <<"RC", "TS">>}
    BY <1>1, <1>4, <1>5 DEF Kept, LinksKept, Procs
  <2> QED
    BY <1>1, <1>4, <1>5, <1>10, <2>1, <2>2 DEF Kept, LinksKept, Procs
<1> QED
  BY <1>8, <1>9, <1>11 DEF Kept

\* The loop is closed.
LEMMA KeptAdAcked ==
  ASSUME Inv, OptOK, Good, Kept, AdAcked PROVE Kept'
<1>1. Waiting /\ AtAck /\ Ahead(1, 1, 1) /\ Done < Loops /\ pc["AD"] = "recv"
  BY PhaseNow DEF AdAcked, Arrived, At
<1>2. net' = {} /\ pc' = [pc EXCEPT !["AD"] = "loop"] /\ i' = [i EXCEPT !["AD"] = @ + 1]
      /\ UNCHANGED <<opt, linked, closed, handed>>
  BY <1>1, PhaseNot DEF AdAcked, To
<1>3. pc'["AD"] = "loop" /\ \A p \in Procs \ {"AD"} : pc'[p] = pc[p]
  BY <1>2, Phases DEF Procs
<1>4. Done \in Nat /\ Done' = Done + 1 /\ \A p \in Procs \ {"AD"} : i'[p] = i[p]
  BY <1>2, Phases DEF Procs, Done
<1>5. Loops' = Loops /\ Loops \in Nat
  BY <1>2, GoodKnown DEF Loops
<1>6. ~Waiting' /\ Ahead(0, 0, 0)' /\ Done' <= Loops'
  BY <1>1, <1>3, <1>4, <1>5 DEF Waiting, Ahead, Procs
<1>7. TurnsKept'
  BY <1>6 DEF TurnsKept
<1>8. PlacesKept'
  BY <1>2, <1>3, <1>4, <1>5 DEF Kept, PlacesKept, Procs
<1>9. ~AtPost /\ ~AtPost'
  <2>1. net # {<<"TS", "RC">>} /\ net' # {<<"TS", "RC">>}
    BY <1>1, <1>2, PhaseNot, Apart
  <2> QED
    BY <2>1 DEF AtPost
<1>10. LinksKept'
  <2>1. \A p, q \in Procs : <<p, q>> \in closed' =>
          pc'[p] \in {"done", "fault"} \/ <<p, q>> \in {<<"TS", "RC">>, <<"RC", "TS">>}
    BY <1>1, <1>2, <1>3 DEF Kept, LinksKept, Procs
  <2> QED
    BY <1>1, <1>2, <1>3, <1>9, <2>1 DEF Kept, LinksKept, Procs
<1> QED
  BY <1>7, <1>8, <1>10 DEF Kept

\* AD ends after the last loop.
LEMMA KeptAdEnd ==
  ASSUME Inv, OptOK, Good, Kept, AdEnd PROVE Kept'
<1>1. pc["AD"] = "loop" /\ Done = Loops /\ ~Waiting
  BY DEF AdEnd, At, Done, Loops, Waiting
<1>2. PICK how \in {"done", "fault"} :
        /\ pc' = [pc EXCEPT !["AD"] = how] /\ closed' = closed \cup {"AD"} \X Procs
        /\ UNCHANGED <<opt, i, net, linked, handed>>
        /\ how = "fault" => Loops = 1
  BY DEF AdEnd, Fail, End, To, Loops
<1>3. pc'["AD"] = how /\ \A p \in Procs \ {"AD"} : pc'[p] = pc[p]
  BY <1>2, Phases DEF Procs
<1>4. TurnsKept' /\ (AtPost' <=> AtPost)
  BY <1>1, <1>2, <1>3, TurnsSame DEF Waiting, Kept, Procs
<1>5. PlacesKept'
  BY <1>1, <1>2, <1>3 DEF Kept, PlacesKept, Loops, Done, Procs
<1>6. LinksKept'
  <2>1. \A p, q \in Procs : <<p, q>> \in closed' =>
          pc'[p] \in {"done", "fault"} \/ <<p, q>> \in {<<"TS", "RC">>, <<"RC", "TS">>}
    BY <1>1, <1>2, <1>3 DEF Kept, LinksKept, Procs
  <2>2. AtPost' => <<"TS", "RC">> \notin closed' /\ <<"RC", "TS">> \notin closed'
    BY <1>2, <1>4 DEF Kept, LinksKept
  <2> QED
    BY <1>1, <1>2, <1>3, <1>4, <2>1, <2>2 DEF Kept, LinksKept, Procs
<1> QED
  BY <1>4, <1>5, <1>6 DEF Kept

\* A process that listens, or accepts what was asked for.
LEMMA KeptListen ==
  ASSUME Inv, OptOK, Good, Kept, NEW p \in Procs, Listen(p) PROVE Kept'
<1>1. p # "AD" /\ pc[p] = "off" /\ pc' = [pc EXCEPT ![p] = "accept"]
      /\ UNCHANGED <<opt, i, net, linked, closed, handed>>
  BY DEF Listen, At, To
<1>2. pc'[p] = "accept" /\ \A q \in Procs \ {p} : pc'[q] = pc[q]
  BY <1>1, Phases DEF Procs
<1>3. TurnsKept' /\ (AtPost' <=> AtPost)
  <2>1. CASE p # "TS"
    BY <1>1, <1>2, <2>1, TurnsSame DEF Waiting, Kept, Procs
  <2>2. CASE p = "TS"
    <3>1. TsIdle /\ TsIdle' /\ Waiting' = Waiting /\ Done' = Done /\ Loops' = Loops
      BY <1>1, <1>2, <2>2 DEF TsIdle, Waiting, Done, Loops, Procs
    <3>2. ~AtRequest /\ ~AtPrediction /\ ~AtPost /\ ~AtHandover
      BY <1>1, <2>2, Phases
    <3>3. \A a, b, d : Ahead(a, b, d)' = Ahead(a, b, d)
      BY <1>1, <3>1 DEF Ahead
    <3>4. AtReport' = AtReport /\ AtAck' = AtAck /\ ~AtPost'
      BY <1>1, <1>2, <2>2, <3>1 DEF AtReport, AtAck, AtPost, TsAsks, Failed
    <3> QED
      BY <3>1, <3>2, <3>3, <3>4 DEF Kept, TurnsKept
  <2> QED
    BY <2>1, <2>2
<1>4. PlacesKept'
  BY <1>1, <1>2 DEF Kept, PlacesKept, Loops, Done, Procs
<1>5. LinksKept'
  <2>1. \A r, q \in Procs : <<r, q>> \in closed' =>
          pc'[r] \in {"done", "fault"} \/ <<r, q>> \in {<<"TS", "RC">>, <<"RC", "TS">>}
    BY <1>1, <1>2 DEF Kept, LinksKept
  <2> QED
    BY <1>1, <1>2, <1>3, <2>1 DEF Kept, LinksKept, Procs
<1> QED
  BY <1>3, <1>4, <1>5 DEF Kept

\* TS accepts AD, and QP listens.
LEMMA KeptTsAccept ==
  ASSUME Inv, OptOK, Good, Good', Kept, TsAccept PROVE Kept'
<1>1. pc["TS"] = "accept" /\ <<"AD", "TS">> \in linked /\ pc["QP"] \in {"off", "accept"} /\ pc["AD"] # "off"
  BY DEF TsAccept, At, Kept, LinksKept
<1>2. ~Refused("TS", "QP", pool)
  BY <1>1 DEF Refused, Listening, At, Good
<1>3. /\ pc' = [pc EXCEPT !["TS"] = "recv"] /\ linked' = linked \cup {<<"TS", "QP">>}
      /\ UNCHANGED <<opt, i, net, closed, handed>>
  BY <1>2 DEF TsAccept, To
<1>4. pc'["TS"] = "recv" /\ \A q \in Procs \ {"TS"} : pc'[q] = pc[q]
  BY <1>3, Phases DEF Procs
<1>5. ~AtRequest /\ ~AtPrediction /\ ~AtPost /\ ~AtHandover
  BY <1>1, Phases
<1>6. TurnsKept' /\ ~AtPost'
  <2>1. TsIdle /\ TsIdle' /\ (Waiting' <=> Waiting) /\ Done' = Done /\ Loops' = Loops
    BY <1>1, <1>3, <1>4 DEF TsIdle, Waiting, Done, Loops, Procs
  <2>2. \A a, b, d : Ahead(a, b, d)' <=> Ahead(a, b, d)
    BY <1>3, <2>1 DEF Ahead
  <2>3. (AtReport' <=> AtReport) /\ (AtAck' <=> AtAck) /\ ~AtPost'
    BY <1>1, <1>3, <1>4, <2>1 DEF AtReport, AtAck, AtPost, TsAsks, Failed
  <2> QED
    BY <1>5, <2>1, <2>2, <2>3 DEF Kept, TurnsKept
<1>7. PlacesKept'
  BY <1>1, <1>3, <1>4 DEF Kept, PlacesKept, Loops, Done, Procs
<1>8. LinksKept'
  <2>1. \A r, q \in Procs : <<r, q>> \in closed' =>
          pc'[r] \in {"done", "fault"} \/ <<r, q>> \in {<<"TS", "RC">>, <<"RC", "TS">>}
    BY <1>1, <1>3, <1>4 DEF Kept, LinksKept
  <2>2. <<"TS", "RC">> \notin linked' /\ pc'["RC"] # "recv"
    BY <1>3, <1>4, <1>5 DEF Kept, LinksKept, Procs
  <2> QED
    BY <1>1, <1>3, <1>4, <1>6, <2>1, <2>2 DEF LinksKept, Procs
<1> QED
  BY <1>6, <1>7, <1>8 DEF Kept

\* When the phase of the loop changes, with AD waiting.
LEMMA KeptPhase ==
  ASSUME Inv, Kept, Waiting, pc'["AD"] = pc["AD"], Loops' = Loops, Done' = Done,
         \/ (AtReport' \/ AtRequest') /\ Ahead(0, 0, 0)'
         \/ (AtPrediction' \/ AtPost') /\ Ahead(0, 1, 0)'
         \/ AtHandover' /\ Ahead(0, 1, 1)'
         \/ AtAck' /\ Ahead(1, 1, 1)'
  PROVE  TurnsKept'
<1>1. Waiting' /\ Done < Loops
  BY PhaseNow DEF Waiting
<1> QED
  BY <1>1 DEF TurnsKept

\* TS has a buffer for the request, and QP is there to receive it.
LEMMA KeptTsPredict ==
  ASSUME Inv, OptOK, Good, Kept, TsPredict PROVE Kept'
<1>1. pc["TS"] = "recv" /\ Waiting /\ AtReport /\ Ahead(0, 0, 0) /\ Done < Loops
  BY PhaseNow DEF TsPredict, At, Arrived
<1>2. pool > 0 /\ pool # 0
  <2>1. pool = opt.buffers - 1 /\ opt.buffers \in Nat /\ opt.buffers >= 3
    BY <1>1, GoodKnown, PhaseNot DEF Inv, PoolInv, Failed
  <2> QED
    BY <2>1
<1>3. CanSend("TS", "QP")
  BY <1>1, Phases, GoodKnown, Closing DEF CanSend, Ahead, Done
<1>4. /\ net' = {<<"TS", "QP">>} /\ pc' = [pc EXCEPT !["TS"] = "predict"]
      /\ UNCHANGED <<opt, i, linked, closed, handed>>
  BY <1>1, <1>2, <1>3, PhaseNot DEF TsPredict, To, Forwarded, Moved
<1>5. pc'["TS"] = "predict" /\ \A p \in Procs \ {"TS"} : pc'[p] = pc[p]
  BY <1>4, Phases DEF Procs
<1>6. Done' = Done /\ Loops' = Loops /\ Ahead(0, 0, 0)' /\ AtRequest'
  BY <1>1, <1>4, <1>5 DEF Done, Loops, Ahead, AtReport, AtRequest, TsAsks
<1>7. TurnsKept'
  BY <1>1, <1>5, <1>6, KeptPhase DEF Procs
<1>8. PlacesKept'
  BY <1>1, <1>4, <1>5, <1>6 DEF Kept, PlacesKept, Procs
<1>9. ~AtPost /\ ~AtPost'
  BY <1>1, <1>5, Phases DEF AtPost, TsAsks, Failed
<1>10. LinksKept'
  <2>1. \A r, q \in Procs : <<r, q>> \in closed' =>
          pc'[r] \in {"done", "fault"} \/ <<r, q>> \in {<<"TS", "RC">>, <<"RC", "TS">>}
    BY <1>1, <1>4, <1>5 DEF Kept, LinksKept
  <2>2. pc["AD"] # "off"
    BY <1>1 DEF Waiting
  <2> QED
    BY <1>1, <1>4, <1>5, <1>9, <2>1, <2>2 DEF Kept, LinksKept, Procs
<1> QED
  BY <1>7, <1>8, <1>10 DEF Kept

\* RC listens when TS has a prediction.
LEMMA KeptTsPost ==
  ASSUME Inv, OptOK, Good, Good', Kept, TsPost PROVE Kept'
<1>1. pc["TS"] = "predict" /\ Waiting /\ AtPrediction /\ Ahead(0, 1, 0) /\ Done < Loops
  BY PhaseNow DEF TsPost, At, Arrived
<1>2. ~NoServingCell
  BY GoodKnown DEF NoServingCell
<1>3. pc["RC"] \in {"off", "accept"}
  <2>1. i["RC"] # Loops
    BY <1>1, Phases, GoodKnown DEF Ahead, Done
  <2>2. ~AtPost
    BY <1>1, Phases
  <2> QED
    BY <2>1, <2>2 DEF Kept, PlacesKept, LinksKept
<1>4. ~Refused("TS", "RC", PutPrediction)
  BY <1>3 DEF Refused, Listening, At, Good
<1>5. /\ linked' = linked \cup {<<"TS", "RC">>}
      /\ closed' = closed \ {<<"TS", "RC">>, <<"RC", "TS">>}
      /\ net' = {<<"TS", "RC">>} /\ pc' = [pc EXCEPT !["TS"] = "post"]
      /\ UNCHANGED <<opt, i, handed>>
  BY <1>1, <1>2, <1>4, PhaseNot DEF TsPost, To, Moved
<1>6. pc'["TS"] = "post" /\ \A p \in Procs \ {"TS"} : pc'[p] = pc[p]
  BY <1>5, Phases DEF Procs
<1>7. Done' = Done /\ Loops' = Loops /\ Ahead(0, 1, 0)' /\ AtPost'
  BY <1>1, <1>5, <1>6 DEF Done, Loops, Ahead, AtPrediction, AtPost, TsAsks
<1>8. TurnsKept'
  BY <1>1, <1>6, <1>7, KeptPhase DEF Procs
<1>9. PlacesKept'
  BY <1>1, <1>5, <1>6, <1>7 DEF Kept, PlacesKept, Procs
<1>10. LinksKept'
  <2>1. \A r, q \in Procs : <<r, q>> \in closed' =>
          pc'[r] \in {"done", "fault"} \/ <<r, q>> \in {<<"TS", "RC">>, <<"RC", "TS">>}
    BY <1>1, <1>5, <1>6 DEF Kept, LinksKept
  <2>2. pc["AD"] # "off"
    BY <1>1 DEF Waiting
  <2>3. <<"TS", "RC">> \notin closed' /\ <<"RC", "TS">> \notin closed'
    BY <1>5
  <2>4. <<"TS", "QP">> \notin linked' => pc'["QP"] \in {"off", "accept"}
    BY <1>5, <1>6 DEF Kept, LinksKept, Procs
  <2> QED
    BY <1>1, <1>6, <1>7, <2>1, <2>2, <2>3, <2>4 DEF LinksKept, Procs
<1> QED
  BY <1>8, <1>9, <1>10 DEF Kept

\* AD is there for the acknowledgment, and TS goes on if AD does.
LEMMA KeptTsAck ==
  ASSUME Inv, OptOK, Good, Kept, TsAck PROVE Kept'
<1>1. pc["TS"] = "post" /\ Waiting /\ AtHandover /\ Ahead(0, 1, 1) /\ Done < Loops
  BY PhaseNow DEF TsAck, At, Arrived
<1>2. CanSend("TS", "AD")
  BY <1>1, Closing DEF CanSend, Procs
<1>3. Done \in Nat /\ Loops \in Nat \ {0} /\ i["TS"] = Done /\ opt.iters["TS"] = Loops
      /\ i \in [Procs -> Nat]
  BY <1>1, Phases, GoodKnown DEF Ahead, Done, Procs
<1>4. PICK to \in {"recv", "done"} :
        /\ pc' = [pc EXCEPT !["TS"] = to]
        /\ to = "done" <=> Done + 1 = Loops
        /\ to = "recv" => closed' = closed \cup {<<"TS", "RC">>}
        /\ to = "done" => closed' = closed \cup {"TS"} \X Procs
  <2>1. CASE Left("TS", i["TS"] + 1)
    <3>1. Done + 1 # Loops
      BY <1>1, <1>3, <2>1 DEF Left
    <3> QED
      BY <1>2, <2>1, <3>1 DEF TsAck, To
  <2>2. CASE ~Left("TS", i["TS"] + 1)
    <3>1. Done + 1 = Loops
      BY <1>1, <1>3, <2>2 DEF Left
    <3> QED
      BY <1>2, <2>2, <3>1 DEF TsAck, End, To
  <2> QED
    BY <2>1, <2>2
<1>5. /\ linked' = linked \ {<<"TS", "RC">>} /\ net' = {<<"TS", "AD">>}
      /\ i' = [i EXCEPT !["TS"] = @ + 1] /\ UNCHANGED <<opt, handed>>
  BY <1>1, PhaseNot DEF TsAck, Moved
<1>6. pc'["TS"] = to /\ \A p \in Procs \ {"TS"} : pc'[p] = pc[p]
  BY <1>4, Phases DEF Procs
<1>7. i'["TS"] = Done + 1 /\ \A p \in Procs \ {"TS"} : i'[p] = i[p]
  BY <1>3, <1>5 DEF Procs
<1>8. Done' = Done /\ Loops' = Loops
  BY <1>5, <1>7 DEF Done, Loops, Procs
<1>9. Ahead(1, 1, 1)' /\ AtAck'
  BY <1>1, <1>5, <1>6, <1>7, <1>8 DEF Ahead, AtHandover, AtAck, TsIdle, Procs
<1>10. TurnsKept'
  BY <1>1, <1>6, <1>8, <1>9, KeptPhase DEF Procs
<1>11. PlacesKept'
  <2>1. pc'["TS"] = "done" <=> i'["TS"] = Loops
    BY <1>4, <1>6, <1>7
  <2> QED
    BY <1>6, <1>7, <1>8, <2>1 DEF Kept, PlacesKept, Procs
<1>12. ~AtPost /\ ~AtPost'
  <2>1. net # {<<"TS", "RC">>} /\ net' # {<<"TS", "RC">>}
    <3>1. <<"RC", "TS">> # <<"TS", "RC">> /\ <<"TS", "AD">> # <<"TS", "RC">>
      OBVIOUS
    <3> QED
      BY <1>1, <1>5, <3>1, PhaseNot
  <2> QED
    BY <2>1 DEF AtPost
<1>13. LinksKept'
  <2>1. \A r, q \in Procs : <<r, q>> \in closed' =>
          pc'[r] \in {"done", "fault"} \/ <<r, q>> \in {<<"TS", "RC">>, <<"RC", "TS">>}
    BY <1>1, <1>4, <1>6 DEF Kept, LinksKept
  <2>2. pc["AD"] # "off"
    BY <1>1 DEF Waiting
  <2>3. <<"TS", "RC">> \notin linked' /\ pc'["RC"] # "recv"
    BY <1>5, <1>6, <1>12 DEF Kept, LinksKept, Procs
  <2>4. <<"TS", "QP">> \notin linked' => pc'["QP"] \in {"off", "accept"}
    BY <1>5, <1>6 DEF Kept, LinksKept, Procs
  <2> QED
    BY <1>4, <1>6, <1>12, <2>1, <2>2, <2>3, <2>4 DEF LinksKept, Procs
<1> QED
  BY <1>10, <1>11, <1>13 DEF Kept

\* QP and RC accept the connection made to them.
LEMMA KeptAccept ==
  ASSUME Inv, OptOK, Good, Kept, QpAccept \/ RcAccept PROVE Kept'
<1>1. PICK p \in {"QP", "RC"} :
        /\ pc[p] = "accept" /\ <<"TS", p>> \in linked /\ pc' = [pc EXCEPT ![p] = "recv"]
        /\ UNCHANGED <<opt, i, net, linked, closed, handed>>
  BY DEF QpAccept, RcAccept, At, To
<1>2. pc'[p] = "recv" /\ \A q \in Procs \ {p} : pc'[q] = pc[q]
  BY <1>1, Phases DEF Procs
<1>3. TurnsKept' /\ (AtPost' <=> AtPost)
  BY <1>1, <1>2, TurnsSame DEF Waiting, Kept, Procs
<1>4. PlacesKept'
  BY <1>1, <1>2 DEF Kept, PlacesKept, Loops, Done, Procs
<1>5. LinksKept'
  <2>1. \A r, q \in Procs : <<r, q>> \in closed' =>
          pc'[r] \in {"done", "fault"} \/ <<r, q>> \in {<<"TS", "RC">>, <<"RC", "TS">>}
    BY <1>1, <1>2 DEF Kept, LinksKept
  <2>2. <<"TS", "RC">> \in linked' \/ pc'["RC"] = "recv" => AtPost'
    BY <1>1, <1>2, <1>3 DEF Kept, LinksKept, Procs
  <2>3. <<"TS", "QP">> \notin linked' => pc'["QP"] \in {"off", "accept"}
    BY <1>1, <1>2 DEF Kept, LinksKept, Procs
  <2> QED
    BY <1>1, <1>2, <1>3, <2>1, <2>2, <2>3 DEF Kept, LinksKept, Procs
<1> QED
  BY <1>3, <1>4, <1>5 DEF Kept

\* QP answers every request, and ends after the last.
LEMMA KeptQp ==
  ASSUME Inv, OptOK, Good, Kept, QpReply \/ QpMalformed PROVE Kept'
<1>1. pc["QP"] = "recv" /\ Waiting /\ AtRequest /\ Ahead(0, 0, 0) /\ Done < Loops
  BY PhaseNow DEF QpReply, QpMalformed, At, Arrived
<1>2. pc["TS"] = "predict"
  BY <1>1, Phases
<1>3. CanSend("QP", "TS")
  BY <1>2, <1>1, GoodKnown, Phases, Closing DEF CanSend, Kept, LinksKept, Procs
<1>4. ~(prediction_ues > ReplyFit) /\ prediction_ues # 0
  <2>1. opt.ues \in Nat \ {0} /\ opt.ues <= ReplyFit /\ ReplyFit \in Nat
    BY GoodKnown, RicAssumption
  <2> QED
    BY <2>1 DEF prediction_ues
<1>5. net' = {<<"QP", "TS">>} /\ QpNext /\ UNCHANGED <<opt, linked, handed>>
  BY <1>1, <1>3, <1>4, PhaseNot DEF QpReply, QpMalformed, Moved
<1>6. Done \in Nat /\ Loops \in Nat \ {0} /\ i["QP"] = Done /\ opt.iters["QP"] = Loops
      /\ i \in [Procs -> Nat]
  BY <1>1, Phases, GoodKnown DEF Ahead, Done, Procs
<1>7. i'["QP"] = Done + 1 /\ \A p \in Procs \ {"QP"} : i'[p] = i[p]
  BY <1>5, <1>6 DEF QpNext, Procs
<1>8. Done' = Done /\ Loops' = Loops /\ Ahead(0, 1, 0)'
  BY <1>1, <1>5, <1>7 DEF Done, Loops, Ahead, Procs
<1>9. PICK to \in {"recv", "done"} :
        /\ pc'["QP"] = to /\ \A p \in Procs \ {"QP"} : pc'[p] = pc[p]
        /\ to = "done" <=> Done + 1 = Loops
        /\ closed' = closed \/ (to = "done" /\ closed' = closed \cup {"QP"} \X Procs)
  <2>1. CASE Left("QP", i["QP"] + 1)
    <3>1. Done + 1 # Loops
      BY <1>1, <1>6, <2>1 DEF Left
    <3> QED
      BY <1>1, <1>5, <2>1, <3>1 DEF QpNext
  <2>2. CASE ~Left("QP", i["QP"] + 1)
    <3>1. Done + 1 = Loops
      BY <1>1, <1>6, <2>2 DEF Left
    <3> QED
      BY <1>5, <2>2, <3>1, Phases DEF QpNext, End, To, Procs
  <2> QED
    BY <2>1, <2>2
<1>10. AtPrediction'
  BY <1>1, <1>2, <1>5, <1>8, <1>9 DEF AtRequest, AtPrediction, TsAsks, Procs
<1>11. TurnsKept'
  BY <1>1, <1>8, <1>9, <1>10, KeptPhase DEF Procs
<1>12. PlacesKept'
  <2>1. pc'["QP"] = "done" <=> i'["QP"] = Loops
    BY <1>7, <1>9
  <2> QED
    BY <1>7, <1>8, <1>9, <2>1 DEF Kept, PlacesKept, Procs
<1>13. ~AtPost /\ ~AtPost'
  BY <1>2, <1>9 DEF AtPost, TsAsks, Failed, Procs
<1>14. LinksKept'
  <2>1. \A r, q \in Procs : <<r, q>> \in closed' =>
          pc'[r] \in {"done", "fault"} \/ <<r, q>> \in {<<"TS", "RC">>, <<"RC", "TS">>}
    BY <1>1, <1>9 DEF Kept, LinksKept
  <2>2. pc["AD"] # "off"
    BY <1>1 DEF Waiting
  <2>3. <<"TS", "RC">> \notin linked' /\ pc'["RC"] # "recv"
    BY <1>5, <1>9, <1>13 DEF Kept, LinksKept, Procs
  <2>4. <<"TS", "QP">> \in linked'
    BY <1>1, <1>5 DEF Kept, LinksKept
  <2> QED
    BY <1>2, <1>9, <1>13, <2>1, <2>2, <2>3, <2>4 DEF LinksKept, Procs
<1> QED
  BY <1>11, <1>12, <1>14 DEF Kept

\* RC has a buffer for the response, and TS is there to receive it.
LEMMA KeptRc ==
  ASSUME Inv, OptOK, Good, Kept, RcHandover PROVE Kept'
<1>1. pc["RC"] = "recv" /\ Waiting /\ AtPost /\ Ahead(0, 1, 0) /\ Done < Loops
  BY PhaseNow DEF RcHandover, At, Arrived
<1>2. pc["TS"] = "post"
  BY <1>1, Phases
<1>3. CanSend("RC", "TS")
  BY <1>1 DEF CanSend, Kept, LinksKept
<1>4. pool # 0 /\ pool > 0
  <2>1. pool = opt.buffers - 2 /\ opt.buffers \in Nat /\ opt.buffers >= 3
    BY <1>1, <1>2, GoodKnown DEF Inv, PoolInv, TsIdle
  <2> QED
    BY <2>1
<1>5. /\ handed' = handed + 1 /\ linked' = linked \ {<<"TS", "RC">>} /\ net' = {<<"RC", "TS">>}
      /\ i' = [i EXCEPT !["RC"] = @ + 1] /\ closed' = closed \cup {<<"RC", "TS">>}
      /\ To("RC", IF Left("RC", i["RC"] + 1) THEN "accept" ELSE "done") /\ opt' = opt
  BY <1>1, <1>3, <1>4, PhaseNot DEF RcHandover, Moved
<1>6. Done \in Nat /\ Loops \in Nat \ {0} /\ i["RC"] = Done /\ opt.iters["RC"] = Loops
      /\ i \in [Procs -> Nat]
  BY <1>1, Phases, GoodKnown DEF Ahead, Done, Procs
<1>7. i'["RC"] = Done + 1 /\ \A p \in Procs \ {"RC"} : i'[p] = i[p]
  BY <1>5, <1>6 DEF Procs
<1>8. Done' = Done /\ Loops' = Loops /\ Ahead(0, 1, 1)'
  BY <1>1, <1>5, <1>7 DEF Done, Loops, Ahead, Procs
<1>9. PICK to \in {"accept", "done"} :
        /\ pc'["RC"] = to /\ \A p \in Procs \ {"RC"} : pc'[p] = pc[p]
        /\ to = "done" <=> Done + 1 = Loops
  <2>1. Left("RC", i["RC"] + 1) <=> Done + 1 # Loops
    BY <1>1, <1>6 DEF Left
  <2> QED
    BY <1>5, <2>1, Phases DEF To, Procs
<1>10. AtHandover'
  BY <1>1, <1>2, <1>5, <1>6, <1>8, <1>9 DEF AtPost, AtHandover, TsAsks, Procs
<1>11. TurnsKept'
  BY <1>1, <1>8, <1>9, <1>10, KeptPhase DEF Procs
<1>12. PlacesKept'
  <2>1. pc'["RC"] = "done" <=> i'["RC"] = Loops
    BY <1>7, <1>9
  <2> QED
    BY <1>7, <1>8, <1>9, <2>1 DEF Kept, PlacesKept, Procs
<1>13. ~AtPost'
  <2>1. {<<"RC", "TS">>} # {<<"TS", "RC">>}
    <3>1. <<"RC", "TS">> # <<"TS", "RC">>
      OBVIOUS
    <3> QED
      BY <3>1
  <2> QED
    BY <1>5, <2>1 DEF AtPost
<1>14. LinksKept'
  <2>1. \A r, q \in Procs : <<r, q>> \in closed' =>
          pc'[r] \in {"done", "fault"} \/ <<r, q>> \in {<<"TS", "RC">>, <<"RC", "TS">>}
    BY <1>1, <1>5, <1>9 DEF Kept, LinksKept
  <2>2. pc["AD"] # "off"
    BY <1>1 DEF Waiting
  <2>3. <<"TS", "RC">> \notin linked' /\ pc'["RC"] # "recv"
    BY <1>5, <1>9
  <2>4. <<"TS", "QP">> \notin linked' => pc'["QP"] \in {"off", "accept"}
    BY <1>5, <1>9 DEF Kept, LinksKept, Procs
  <2> QED
    BY <1>2, <1>9, <1>13, <2>1, <2>2, <2>3, <2>4 DEF LinksKept, Procs
<1> QED
  BY <1>11, <1>12, <1>14 DEF Kept

\* Options are given once.
LEMMA OptionsStay == ASSUME [Next]_vars PROVE opt' = opt
BY DEF Next, vars, Listen, Step, RecvFails, Fail, Refused, AdConnect, AdReport, AdAcked, AdEnd,
   TsAccept, TsPredict, TsPost, TsAck, QpAccept, QpReply, QpMalformed, QpNext, RcAccept, RcHandover

\* What is good now was good before.
LEMMA GoodBefore == ASSUME [Next]_vars, Good' PROVE Good /\ opt' = opt
<1>1. opt' = opt
  BY OptionsStay
<1>2. late' = late \/ \E q \in Procs : late' = (late \/ At(q, "off"))
  BY DEF Next, vars, Listen, Step, RecvFails, Refused, AdConnect, AdReport, AdAcked, AdEnd, Procs,
     TsAccept, TsPredict, TsPost, TsAck, QpAccept, QpReply, QpMalformed, RcAccept, RcHandover
<1>3. ~late' => ~late
  BY <1>2
<1> QED
  BY <1>1, <1>3 DEF Good, GoodOptions

LEMMA GoodInvInit == Init => OptOK /\ GoodInv
<1> SUFFICES ASSUME Init PROVE OptOK /\ (Good => Kept)
  BY DEF GoodInv, Kept
<1>1. OptOK
  BY DEF Init, OptOK
<1> SUFFICES ASSUME Good PROVE Kept
  BY <1>1
<1>2. Loops \in Nat \ {0}
  BY <1>1, GoodKnown
<1>3. /\ \A p \in Procs : pc[p] = "off" /\ i[p] = 0
      /\ net = {} /\ linked = {} /\ closed = {}
  BY DEF Init
<1>4. ~AtPost
  BY <1>3 DEF AtPost
<1>5. TurnsKept
  BY <1>2, <1>3 DEF TurnsKept, Ahead, Done, Waiting, Procs
<1>6. PlacesKept
  BY <1>2, <1>3 DEF PlacesKept, Procs
<1>7. LinksKept
  BY <1>3, <1>4 DEF LinksKept, Procs
<1> QED
  BY <1>5, <1>6, <1>7 DEF Kept

\* No step breaks it.
LEMMA GoodInvNext == Inv /\ OptOK /\ GoodInv /\ [Next]_vars => OptOK' /\ GoodInv'
<1> SUFFICES ASSUME Inv, OptOK, GoodInv, [Next]_vars PROVE OptOK' /\ GoodInv'
  OBVIOUS
<1>1. opt' = opt
  BY OptionsStay
<1>2. OptOK'
  BY <1>1 DEF OptOK
<1>3. Inv'
  BY InvStep
<1> SUFFICES ASSUME Good' PROVE Kept'
  BY <1>2 DEF GoodInv, Kept
<1>4. Good /\ Kept
  BY GoodBefore DEF GoodInv, Kept
<1>5. CASE UNCHANGED vars
  <2>1. UNCHANGED <<opt, pc, i, net, linked, closed, handed>>
    BY <1>5 DEF vars
  <2>2. TurnsKept' /\ (AtPost' <=> AtPost)
    BY <1>4, <2>1, TurnsSame DEF Kept, Waiting
  <2> QED
    BY <1>4, <2>1, <2>2 DEF Kept, PlacesKept, LinksKept, Done, Loops
<1>6. ASSUME NEW p \in Procs, Step(p) PROVE Kept'
  BY <1>3, <1>4, <1>6, NoneLost, KeptAdReport, KeptAdAcked, KeptAdEnd, KeptTsAccept, KeptTsPredict,
     KeptTsPost, KeptTsAck, KeptAccept, KeptQp, KeptRc DEF Step
<1> QED
  BY <1>4, <1>5, <1>6, KeptAdConnect, KeptListen DEF Next

\* With good options, processes started in order and three buffers none of the
\* xApps fails, for every number of iterations and interleaving, but for AD's
\* division by zero after a single loop.
THEOREM FailuresHaveCause == Spec => []FailureNeedsCause
<1>1. OptOK /\ GoodInv => FailureNeedsCause
  <2> SUFFICES ASSUME OptOK, GoodInv, NEW p \in Procs, pc[p] \in Failed, Good
               PROVE  p = "AD" /\ opt.iters["AD"] = 1 /\ i["AD"] = 1
    <3>1. ASSUME OptOK PROVE opt.buffers >= PerLoop \/ opt.buffers < PerLoop
      <4>1. opt.buffers \in 1 .. MaxPool
        BY <3>1 DEF OptOK, Options
      <4> QED
        BY <4>1, RicAssumption DEF PerLoop
    <3> QED
      BY <3>1 DEF FailureNeedsCause, Good
  <2>1. PlacesKept
    BY DEF GoodInv
  <2> QED
    BY <2>1 DEF PlacesKept, Failed, Procs, Done, Loops
<1>2. Init => OptOK /\ GoodInv
  BY GoodInvInit
<1> QED
  BY <1>1, <1>2, GoodInvNext, InvHolds, PTL DEF Spec

=============================================================================
