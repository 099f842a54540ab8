------------------------- MODULE ServiceAsyncProofs -------------------------
(***************************************************************************)
(* Proofs about the coroutine runtime, for every number of coroutines,     *)
(* dependencies, sockets and clients, every size of bulk and every         *)
(* handler: coroutines are neither lost nor shared, backpressure is on     *)
(* only while there is no coroutine, an RPC id identifies one call, a      *)
(* request gets one answer, which goes to the client that asked, and the   *)
(* service exits only for cause.                                           *)
(***************************************************************************)
EXTENDS ServiceAsync, SequenceTheorems, FiniteSetTheorems, WellFoundedInduction, TLAPS

Elems(s) == {s[j] : j \in 1 .. Len(s)}
Distinct(s) == \A j, k \in 1 .. Len(s) : s[j] = s[k] => j = k

-----------------------------------------------------------------------------
(* The stack of available coroutines *)

\* Taking the last coroutine of the stack (service_async.h:203).
LEMMA PopFacts ==
  ASSUME NEW s \in Seq(Co), s # << >>, Distinct(s)
  PROVE  LET p == SubSeq(s, 1, Len(s) - 1)
             c == s[Len(s)]
         IN /\ p \in Seq(Co) /\ Distinct(p)
            /\ c \in Elems(s) /\ c \in Co
            /\ Elems(p) = Elems(s) \ {c}
<1> DEFINE n == Len(s)
           p == SubSeq(s, 1, n - 1)
<1>1. n \in Nat /\ n >= 1 /\ DOMAIN s = 1 .. n
  BY EmptySeq, LenProperties
<1>2. /\ p \in Seq(Co) /\ Len(p) = n - 1
      /\ \A j \in 1 .. n - 1 : p[j] = s[j]
  BY <1>1, SubSeqProperties
<1>3. \A j \in 1 .. n : s[j] \in Co
  BY <1>1, ElementOfSeq
<1> HIDE DEF n, p
<1>4. Distinct(p)
  BY <1>1, <1>2 DEF Distinct, n
<1>5. s[n] \in Elems(s) /\ s[n] \in Co
  BY <1>1, <1>3 DEF Elems, n
<1>6. Elems(p) = Elems(s) \ {s[n]}
  <2>1. Elems(p) \subseteq Elems(s) \ {s[n]}
    BY <1>1, <1>2 DEF Elems, Distinct, n
  <2>2. Elems(s) \ {s[n]} \subseteq Elems(p)
    <3> SUFFICES ASSUME NEW x \in Elems(s), x # s[n] PROVE x \in Elems(p)
      OBVIOUS
    <3>1. PICK j \in 1 .. n : x = s[j]
      BY DEF Elems, n
    <3>2. j \in 1 .. n - 1
      BY <1>1, <3>1
    <3> QED
      BY <1>2, <3>1, <3>2 DEF Elems
  <2> QED
    BY <2>1, <2>2
<1> QED
  BY <1>2, <1>4, <1>5, <1>6 DEF p, n

\* Putting a coroutine on the stack (service_async.h:65).
LEMMA PushFacts ==
  ASSUME NEW s \in Seq(Co), NEW c \in Co, c \notin Elems(s), Distinct(s)
  PROVE  /\ Append(s, c) \in Seq(Co) /\ Distinct(Append(s, c))
         /\ Elems(Append(s, c)) = Elems(s) \cup {c}
<1> DEFINE n == Len(s)
           t == Append(s, c)
<1>1. n \in Nat
  BY LenProperties
<1>2. /\ t \in Seq(Co) /\ Len(t) = n + 1 /\ t[n + 1] = c
      /\ \A j \in 1 .. n : t[j] = s[j]
  BY <1>1, AppendProperties
<1> HIDE DEF n, t
<1>3. \A j \in 1 .. n + 1 : j \in 1 .. n \/ j = n + 1
  BY <1>1
<1>4. \A j \in 1 .. n : s[j] # c
  BY DEF Elems, n
<1>5. Distinct(t)
  BY <1>2, <1>3, <1>4 DEF Distinct, n
<1>6. Elems(t) = Elems(s) \cup {c}
  <2>1. \A j \in 1 .. n : j \in 1 .. n + 1
    BY <1>1
  <2>2. n + 1 \in 1 .. n + 1
    BY <1>1
  <2> QED
    BY <1>2, <1>3, <2>1, <2>2 DEF Elems, n
<1> QED
  BY <1>2, <1>5, <1>6 DEF t

-----------------------------------------------------------------------------
(* What is in flight *)

\* A message in flight is on its way to a dependency, back, or just received.
LEMMA FlightMembers ==
  \A m : m \in Flight <=> (\E d \in Deps : m \in reqs[d] \cup resps[d]) \/ m \in inbox
BY DEF Flight

\* The same, after a step.
LEMMA FlightMembersNext ==
  \A m : m \in Flight' <=> (\E d \in Deps : m \in reqs'[d] \cup resps'[d]) \/ m \in inbox'
BY DEF Flight

\* The stack holds the coroutines that are not waiting, once each.
LEMMA AccountedFacts ==
  CoroutinesAccounted <=> (status = "run" => Distinct(avail) /\ Elems(avail) = Co \ Waiting)
BY DEF CoroutinesAccounted, Distinct, Elems

\* The same, after a step.
LEMMA AccountedFactsNext ==
  CoroutinesAccounted' <=> (status' = "run" => Distinct(avail') /\ Elems(avail') = Co \ Waiting')
BY DEF CoroutinesAccounted, Distinct, Elems

\* Clients and sockets have no part in the invariant.
LEMMA PoolInvStutter ==
  ASSUME PoolInv, UNCHANGED <<reqs, resps, inbox, coVars>>, status' = "run" => status = "run"
  PROVE  PoolInv'
<1>1. Flight' = Flight /\ Waiting' = Waiting
  BY DEF Flight, Waiting, coVars
<1>2. FlightOK'
  BY <1>1 DEF PoolInv, FlightOK
<1>3. CoroutinesAccounted'
  BY <1>1, AccountedFacts, AccountedFactsNext DEF PoolInv, coVars
<1>4. DisabledOnlyWhenExhausted'
  BY DEF PoolInv, DisabledOnlyWhenExhausted, coVars
<1>5. IdIdentifiesCall'
  BY <1>1 DEF PoolInv, IdIdentifiesCall, coVars
<1> QED
  BY <1>2, <1>3, <1>4, <1>5 DEF PoolInv, coVars

\* What coroutine c finds when it begins to run with stack av: it is the only one
\* that neither waits nor is on the stack, and nothing in flight carries its id.
Begins(c, av) ==
  /\ c \in Co
  /\ av \in Seq(Co) /\ Distinct(av)
  /\ Elems(av) = Co \ (Waiting \cup {c})
  /\ disabled => av = << >>
  /\ inbox' \subseteq inbox
  /\ resps' = resps
  /\ \A d \in Deps : \A m \in reqs[d] \cup resps[d] : m.id # c
  /\ \A m \in inbox' : m.id # c
  /\ \A m \in inbox : m.id # c => m \in inbox'

\* A coroutine that calls a dependency waits, with its call in flight
\* (do_rpc, service_async.h:382).
LEMMA DoRpcStep ==
  ASSUME PoolInv, status = "run", NEW c, NEW req, NEW k, NEW av, Begins(c, av),
         DoRpc(c, req, k, av)
  PROVE  PoolInv'
<1>1. PICK d \in Deps :
        LET call == [req |-> req, dep |-> d, k |-> k + 1]
        IN /\ reqs' = [reqs EXCEPT ![d] = @ \cup {[id |-> c, call |-> call]}]
           /\ co' = [co EXCEPT ![c] = [st |-> "wait", call |-> call]]
  BY DEF DoRpc
<1> DEFINE call == [req |-> req, dep |-> d, k |-> k + 1]
           msg == [id |-> c, call |-> call]
<1>2. msg.id = c /\ msg.call = call /\ call.dep = d
  OBVIOUS
<1>3. /\ reqs' = [reqs EXCEPT ![d] = @ \cup {msg}]
      /\ co' = [co EXCEPT ![c] = [st |-> "wait", call |-> call]]
  BY <1>1
<1> HIDE DEF call, msg
<1>4. /\ reqs'[d] = reqs[d] \cup {msg}
      /\ \A e \in Deps : e # d => reqs'[e] = reqs[e]
      /\ reqs' = [e \in Deps |-> reqs'[e]]
  BY <1>3 DEF PoolInv
<1>5. /\ co'[c].st = "wait" /\ co'[c].call = call
      /\ \A x \in Co : x # c => co'[x] = co[x]
      /\ co' = [x \in Co |-> co'[x]]
  BY <1>3 DEF PoolInv, Begins
<1>6. Waiting' = Waiting \cup {c}
  BY <1>5 DEF Waiting, Begins
<1>7. avail' = av /\ UNCHANGED <<disabled, status>>
  BY DEF DoRpc
<1>8. CoroutinesAccounted'
  BY <1>6, <1>7, AccountedFactsNext DEF Begins
<1>9. DisabledOnlyWhenExhausted'
  BY <1>7 DEF DisabledOnlyWhenExhausted, Begins
<1>10. \A m \in Flight' : m = msg \/ (m \in Flight /\ m.id # c)
  BY <1>4, FlightMembers, FlightMembersNext DEF Begins
<1>11. msg \in Flight' /\ \A m \in Flight : m.id # c => m \in Flight'
  BY <1>4, FlightMembers, FlightMembersNext DEF Begins
<1>12. FlightOK'
  <2>1. \A m \in Flight' : m.id \in Co /\ m = [id |-> m.id, call |-> m.call]
    BY <1>2, <1>10 DEF PoolInv, FlightOK, Begins, msg
  <2>2. \A e \in Deps : \A m \in reqs'[e] \cup resps'[e] : m.call.dep = e
    BY <1>2, <1>4 DEF PoolInv, FlightOK, Begins
  <2> QED
    BY <2>1, <2>2 DEF FlightOK
<1>13. IdIdentifiesCall'
  <2>1. \A m \in Flight' : co'[m.id].st = "wait" /\ m.call = co'[m.id].call
    <3> SUFFICES ASSUME NEW m \in Flight' PROVE co'[m.id].st = "wait" /\ m.call = co'[m.id].call
      OBVIOUS
    <3>1. CASE m = msg
      BY <3>1, <1>2, <1>5
    <3>2. CASE m \in Flight /\ m.id # c
      <4>1. m.id \in Co /\ co'[m.id] = co[m.id]
        BY <3>2, <1>5 DEF PoolInv, FlightOK
      <4> QED
        BY <3>2, <4>1 DEF PoolInv, IdIdentifiesCall
    <3> QED
      BY <1>10, <3>1, <3>2
  <2>2. \A x \in Waiting' : \E m \in Flight' : m.id = x
    <3> SUFFICES ASSUME NEW x \in Waiting' PROVE \E m \in Flight' : m.id = x
      OBVIOUS
    <3>1. CASE x = c
      BY <3>1, <1>2, <1>11
    <3>2. CASE x # c
      <4>1. x \in Waiting
        BY <3>2, <1>6
      <4>2. PICK m \in Flight : m.id = x
        BY <4>1 DEF PoolInv, IdIdentifiesCall
      <4> QED
        BY <3>2, <4>2, <1>11
    <3> QED
      BY <3>1, <3>2
  <2>3. \A e \in Deps : /\ reqs'[e] \cap (resps'[e] \cup inbox') = {}
                        /\ resps'[e] \cap inbox' = {}
    <3> SUFFICES ASSUME NEW e \in Deps
                 PROVE  /\ reqs'[e] \cap (resps'[e] \cup inbox') = {}
                        /\ resps'[e] \cap inbox' = {}
      OBVIOUS
    <3>1. reqs[e] \cap (resps[e] \cup inbox) = {} /\ resps[e] \cap inbox = {}
      BY DEF PoolInv, IdIdentifiesCall
    <3>2. msg \notin resps[e] /\ msg \notin inbox'
      BY <1>2 DEF Begins
    <3>3. resps'[e] = resps[e] /\ inbox' \subseteq inbox
      BY DEF Begins
    <3>4. reqs'[e] \subseteq reqs[e] \cup {msg}
      BY <1>4
    <3> QED
      BY <3>1, <3>2, <3>3, <3>4
  <2> QED
    BY <2>1, <2>2, <2>3 DEF IdIdentifiesCall
<1>14. avail' \in Seq(Co) /\ resps' = [e \in Deps |-> resps'[e]]
  BY <1>7 DEF Begins, PoolInv
<1> QED
  BY <1>4, <1>5, <1>8, <1>9, <1>12, <1>13, <1>14 DEF PoolInv

\* A coroutine that answers goes back to the stack, and enables upstream
\* reception if it was empty (service_async.h:60).
LEMMA FinishStep ==
  ASSUME PoolInv, status = "run", NEW c, NEW req, NEW av, Begins(c, av), Finish(c, req, av)
  PROVE  PoolInv'
<1>1. /\ avail' = Append(av, c) /\ co' = [co EXCEPT ![c] = Idle]
      /\ disabled' = Release(av) /\ UNCHANGED <<reqs, status>>
  BY DEF Finish
<1>2. /\ co'[c].st = "idle"
      /\ \A x \in Co : x # c => co'[x] = co[x]
      /\ co' = [x \in Co |-> co'[x]]
  BY <1>1 DEF PoolInv, Begins, Idle
<1>3. Waiting' = Waiting \ {c}
  BY <1>2 DEF Waiting, Begins
<1>4. /\ avail' \in Seq(Co) /\ Distinct(avail')
      /\ Elems(avail') = Elems(av) \cup {c}
  BY <1>1, PushFacts DEF Begins
<1>5. Elems(avail') = Co \ Waiting'
  BY <1>3, <1>4 DEF Begins, Waiting
<1>6. CoroutinesAccounted'
  BY <1>4, <1>5, AccountedFactsNext
<1>7. disabled' = FALSE
  BY <1>1 DEF Release, Begins
<1>8. \A m \in Flight' : m \in Flight /\ m.id # c
  BY <1>1, FlightMembers, FlightMembersNext DEF Begins
<1>9. \A m \in Flight : m.id # c => m \in Flight'
  BY <1>1, FlightMembers, FlightMembersNext DEF Begins
<1>10. FlightOK'
  BY <1>1, <1>8 DEF PoolInv, FlightOK, Begins
<1>11. IdIdentifiesCall'
  <2>1. \A m \in Flight' : co'[m.id].st = "wait" /\ m.call = co'[m.id].call
    BY <1>2, <1>8 DEF PoolInv, FlightOK, IdIdentifiesCall
  <2>2. \A x \in Waiting' : \E m \in Flight' : m.id = x
    BY <1>3, <1>9 DEF PoolInv, IdIdentifiesCall
  <2>3. \A e \in Deps : /\ reqs'[e] \cap (resps'[e] \cup inbox') = {}
                        /\ resps'[e] \cap inbox' = {}
    BY <1>1 DEF PoolInv, IdIdentifiesCall, Begins
  <2> QED
    BY <2>1, <2>2, <2>3 DEF IdIdentifiesCall
<1> QED
  BY <1>1, <1>2, <1>4, <1>6, <1>7, <1>10, <1>11 DEF PoolInv, DisabledOnlyWhenExhausted, Begins

\* A coroutine that runs leaves the invariant as it was, whether it calls,
\* answers, or fails to (coroutine_fn, service_async.h:39).
LEMMA RunStep ==
  ASSUME PoolInv, status = "run", NEW c, NEW req, NEW k, NEW av, Begins(c, av),
         Run(c, req, k, av)
  PROVE  PoolInv'
<1>1. CASE DoRpc(c, req, k, av)
  BY <1>1, DoRpcStep
<1>2. CASE Finish(c, req, av)
  BY <1>2, FinishStep
<1>3. CASE FailSend(req) \/ FailRpc(k)
  <2>1. UNCHANGED <<reqs, coVars>> /\ status' # "run" /\ resps' = resps /\ inbox' \subseteq inbox
    BY <1>3 DEF FailSend, FailRpc, Begins
  <2>2. Flight' \subseteq Flight
    BY <2>1, FlightMembers, FlightMembersNext
  <2>3. FlightOK'
    BY <2>1, <2>2 DEF PoolInv, FlightOK
  <2>4. CoroutinesAccounted' /\ IdIdentifiesCall'
    BY <2>1 DEF CoroutinesAccounted, IdIdentifiesCall
  <2>5. DisabledOnlyWhenExhausted'
    BY <2>1 DEF PoolInv, DisabledOnlyWhenExhausted, coVars
  <2> QED
    BY <2>1, <2>3, <2>4, <2>5 DEF PoolInv, coVars
<1> QED
  BY <1>1, <1>2, <1>3 DEF Run

\* Starting the coroutine at the top of the stack on a request.
LEMMA StartStep == ASSUME PoolInv, Start PROVE PoolInv'
<1> DEFINE c == avail[Len(avail)]
<1>1. status = "run" /\ avail # << >> /\ UNCHANGED <<resps, inbox>>
  BY DEF Start, Exhausted
<1>2. PICK req : Run(c, req, 0, Popped)
  BY DEF Start
<1>3. avail \in Seq(Co) /\ Distinct(avail) /\ Elems(avail) = Co \ Waiting
  BY <1>1, AccountedFacts DEF PoolInv
<1>4. /\ Popped \in Seq(Co) /\ Distinct(Popped)
      /\ c \in Elems(avail) /\ c \in Co
      /\ Elems(Popped) = Elems(avail) \ {c}
  BY <1>1, <1>3, PopFacts DEF Popped
<1>5. c \notin Waiting
  BY <1>3, <1>4
<1>6. \A m \in Flight : m.id # c
  BY <1>1, <1>5 DEF PoolInv, IdIdentifiesCall, FlightOK, Waiting
<1>7. ~disabled
  BY <1>1 DEF PoolInv, DisabledOnlyWhenExhausted
<1> HIDE DEF c
<1>8. Begins(c, Popped)
  BY <1>1, <1>3, <1>4, <1>6, <1>7, FlightMembers DEF Begins
<1> QED
  BY <1>1, <1>2, <1>8, RunStep

\* Resuming the coroutine named by the id of a response.
LEMMA ResumeStep == ASSUME PoolInv, NEW m \in inbox, Resume(m) PROVE PoolInv'
<1> DEFINE c == m.id
<1>1. /\ status = "run" /\ inbox' = inbox \ {m} /\ resps' = resps
      /\ Run(c, co[c].call.req, co[c].call.k, avail)
  BY DEF Resume, Resumed
<1>2. avail \in Seq(Co) /\ Distinct(avail) /\ Elems(avail) = Co \ Waiting
  BY <1>1, AccountedFacts DEF PoolInv
<1>3. m \in Flight
  BY FlightMembers
<1>4. c \in Co /\ c \in Waiting /\ m.call = co[c].call
  BY <1>1, <1>3 DEF PoolInv, FlightOK, IdIdentifiesCall, Waiting
<1>5. \A x \in Flight : x.id = c => x = m
  <2> SUFFICES ASSUME NEW x \in Flight, x.id = c PROVE x = m
    OBVIOUS
  <2>1. x.call = co[c].call
    BY <1>1 DEF PoolInv, IdIdentifiesCall
  <2>2. x = [id |-> x.id, call |-> x.call] /\ m = [id |-> m.id, call |-> m.call]
    BY <1>3 DEF PoolInv, FlightOK
  <2> QED
    BY <1>4, <2>1, <2>2
<1>6. \A d \in Deps : m \notin reqs[d] /\ m \notin resps[d]
  BY <1>1 DEF PoolInv, IdIdentifiesCall
<1>7. disabled => avail = << >>
  BY DEF PoolInv, DisabledOnlyWhenExhausted
<1>8. Elems(avail) = Co \ (Waiting \cup {c})
  BY <1>2, <1>4
<1>9. \A d \in Deps : \A x \in reqs[d] \cup resps[d] : x.id # c
  BY <1>5, <1>6, FlightMembers
<1>10. \A x \in inbox' : x.id # c
  BY <1>1, <1>5, FlightMembers
<1>11. \A x \in inbox : x.id # c => x \in inbox'
  BY <1>1
<1> HIDE DEF c
<1>12. Begins(c, avail)
  BY <1>1, <1>2, <1>4, <1>7, <1>8, <1>9, <1>10, <1>11 DEF Begins
<1> QED
  BY <1>1, <1>12, RunStep

\* Receiving a bulk of responses moves them, and changes nothing else.
LEMMA RecvDownStep == ASSUME PoolInv, RecvDown PROVE PoolInv'
<1>1. PICK M \in SUBSET resps[slot] :
        inbox' = M /\ resps' = [resps EXCEPT ![slot] = @ \ M]
  BY DEF RecvDown
<1>2. /\ status = "run" /\ inbox = {} /\ slot \in Deps
      /\ UNCHANGED <<reqs, coVars, status>>
  BY DEF RecvDown, Scanning
<1>3. /\ resps'[slot] = resps[slot] \ M
      /\ \A e \in Deps : e # slot => resps'[e] = resps[e]
      /\ resps' = [e \in Deps |-> resps'[e]]
  BY <1>1, <1>2 DEF PoolInv
<1>4. \A m : m \in Flight' <=> m \in Flight
  BY <1>1, <1>2, <1>3, FlightMembers, FlightMembersNext
<1>5. Flight' = Flight /\ Waiting' = Waiting
  BY <1>2, <1>4 DEF Waiting, coVars
<1>6. FlightOK'
  BY <1>2, <1>3, <1>5 DEF PoolInv, FlightOK
<1>7. CoroutinesAccounted'
  BY <1>2, <1>5, AccountedFacts, AccountedFactsNext DEF PoolInv, coVars
<1>8. DisabledOnlyWhenExhausted'
  BY <1>2 DEF PoolInv, DisabledOnlyWhenExhausted, coVars
<1>9. \A e \in Deps : /\ reqs'[e] \cap (resps'[e] \cup inbox') = {}
                      /\ resps'[e] \cap inbox' = {}
  <2> SUFFICES ASSUME NEW e \in Deps
               PROVE  reqs[e] \cap (resps'[e] \cup M) = {} /\ resps'[e] \cap M = {}
    BY <1>1, <1>2
  <2>1. CASE e = slot
    BY <2>1, <1>1, <1>2, <1>3 DEF PoolInv, IdIdentifiesCall
  <2>2. CASE e # slot
    <3>1. \A m \in M : m.call.dep = slot
      BY <1>1, <1>2 DEF PoolInv, FlightOK
    <3>2. \A m \in reqs[e] \cup resps[e] : m.call.dep = e
      BY DEF PoolInv, FlightOK
    <3> QED
      BY <2>2, <3>1, <3>2, <1>2, <1>3 DEF PoolInv, IdIdentifiesCall
  <2> QED
    BY <2>1, <2>2
<1>10. IdIdentifiesCall'
  BY <1>2, <1>5, <1>9 DEF PoolInv, IdIdentifiesCall, coVars
<1> QED
  BY <1>2, <1>3, <1>6, <1>7, <1>8, <1>10 DEF PoolInv, coVars

\* A dependency that answers moves the message.
LEMMA ServeStep == ASSUME PoolInv, NEW d \in Deps, NEW m \in reqs[d], Serve(d, m) PROVE PoolInv'
<1>1. /\ reqs' = [reqs EXCEPT ![d] = @ \ {m}]
      /\ resps' = [resps EXCEPT ![d] = @ \cup {m}]
      /\ UNCHANGED <<inbox, coVars, status>>
  BY DEF Serve, roundVars
<1>2. /\ reqs'[d] = reqs[d] \ {m} /\ resps'[d] = resps[d] \cup {m}
      /\ \A e \in Deps : e # d => reqs'[e] = reqs[e] /\ resps'[e] = resps[e]
      /\ reqs' = [e \in Deps |-> reqs'[e]] /\ resps' = [e \in Deps |-> resps'[e]]
  BY <1>1 DEF PoolInv
<1>3. \A x : x \in Flight' <=> x \in Flight
  BY <1>1, <1>2, FlightMembers, FlightMembersNext
<1>4. Flight' = Flight /\ Waiting' = Waiting
  BY <1>1, <1>3 DEF Waiting, coVars
<1>5. FlightOK'
  BY <1>2, <1>4 DEF PoolInv, FlightOK
<1>6. CoroutinesAccounted'
  BY <1>1, <1>4, AccountedFacts, AccountedFactsNext DEF PoolInv, coVars
<1>7. DisabledOnlyWhenExhausted'
  BY <1>1 DEF PoolInv, DisabledOnlyWhenExhausted, coVars
<1>8. IdIdentifiesCall'
  <2> SUFFICES ASSUME status = "run" PROVE IdIdentifiesCall'
    BY <1>1 DEF IdIdentifiesCall
  <2>1. \A e \in Deps : /\ reqs'[e] \cap (resps'[e] \cup inbox') = {}
                        /\ resps'[e] \cap inbox' = {}
    <3> SUFFICES ASSUME NEW e \in Deps
                 PROVE  /\ reqs'[e] \cap (resps'[e] \cup inbox) = {}
                        /\ resps'[e] \cap inbox = {}
      BY <1>1
    <3>1. CASE e = d
      BY <3>1, <1>2 DEF PoolInv, IdIdentifiesCall
    <3>2. CASE e # d
      BY <3>2, <1>2 DEF PoolInv, IdIdentifiesCall
    <3> QED
      BY <3>1, <3>2
  <2> QED
    BY <1>1, <1>4, <2>1 DEF PoolInv, IdIdentifiesCall, coVars
<1> QED
  BY <1>1, <1>2, <1>5, <1>6, <1>7, <1>8 DEF PoolInv, coVars

\* Running out of coroutines disables upstream reception (service_async.h:174).
LEMMA DisableStep == ASSUME PoolInv, Disable PROVE PoolInv'
<1>1. avail = << >> /\ UNCHANGED <<reqs, resps, inbox, avail, co, status>>
  BY DEF Disable, Exhausted, netVars
<1>2. Flight' = Flight /\ Waiting' = Waiting
  BY <1>1 DEF Flight, Waiting
<1>3. FlightOK' /\ IdIdentifiesCall'
  BY <1>1, <1>2 DEF PoolInv, FlightOK, IdIdentifiesCall
<1>4. CoroutinesAccounted'
  BY <1>1, <1>2, AccountedFacts, AccountedFactsNext DEF PoolInv
<1>5. DisabledOnlyWhenExhausted'
  BY <1>1 DEF DisabledOnlyWhenExhausted
<1> QED
  BY <1>1, <1>3, <1>4, <1>5 DEF PoolInv

-----------------------------------------------------------------------------
(* The invariant *)

\* Every coroutine is available before the first request.
LEMMA PoolInvInit == Init => PoolInv
<1> SUFFICES ASSUME Init PROVE PoolInv
  OBVIOUS
<1>1. MaxCo \in Nat /\ avail = [j \in 1 .. MaxCo |-> j - 1]
  BY AsyncAssumption DEF Init
<1>2. avail \in Seq(Co) /\ Len(avail) = MaxCo /\ \A j \in 1 .. MaxCo : avail[j] = j - 1
  <2>1. avail \in [1 .. MaxCo -> Co]
    BY <1>1 DEF Co
  <2>2. avail \in Seq(Co)
    BY <1>1, <2>1, SeqDef
  <2>3. Len(avail) = MaxCo
    BY <1>1, <2>1, <2>2, LenProperties
  <2> QED
    BY <1>1, <2>2, <2>3
<1>3. Distinct(avail)
  BY <1>1, <1>2 DEF Distinct
<1>4. Waiting = {}
  BY DEF Init, Waiting, Idle
<1>5. Elems(avail) = Co
  <2>1. \A x \in Co : x + 1 \in 1 .. MaxCo /\ avail[x + 1] = x
    BY <1>1, <1>2 DEF Co
  <2>2. Elems(avail) \subseteq Co
    BY <1>1, <1>2 DEF Elems, Co
  <2> QED
    BY <1>2, <2>1, <2>2 DEF Elems
<1>6. CoroutinesAccounted
  BY <1>3, <1>4, <1>5, AccountedFacts
<1>7. \A d \in Deps : reqs[d] = {} /\ resps[d] = {}
  BY DEF Init
<1>8. Flight = {}
  BY <1>7, FlightMembers DEF Init
<1>9. FlightOK /\ IdIdentifiesCall
  BY <1>4, <1>7, <1>8 DEF FlightOK, IdIdentifiesCall
<1>10. DisabledOnlyWhenExhausted
  BY DEF Init, DisabledOnlyWhenExhausted
<1>11. /\ co = [c \in Co |-> co[c]] /\ reqs = [d \in Deps |-> reqs[d]]
       /\ resps = [d \in Deps |-> resps[d]]
  BY DEF Init
<1> QED
  BY <1>2, <1>6, <1>9, <1>10, <1>11 DEF PoolInv

\* Every step of the clients, the dependencies and the service keeps the invariant.
LEMMA PoolInvNext == PoolInv /\ [Next]_vars => PoolInv'
<1> SUFFICES ASSUME PoolInv, [Next]_vars PROVE PoolInv'
  OBVIOUS
<1>1. ASSUME NEW c \in Clients, Connect(c) \/ Ask(c) \/ Close(c) PROVE PoolInv'
  BY <1>1, PoolInvStutter DEF Connect, Ask, Close, roundVars
<1>2. ASSUME NEW d \in Deps, NEW m \in reqs[d], Serve(d, m) PROVE PoolInv'
  BY <1>2, ServeStep
<1>3. CASE Poll \/ LoseDown \/ CloseUp \/ RecvUp \/ Overrun \/ Accept
  <2>1. UNCHANGED <<reqs, resps, inbox, coVars>>
    BY <1>3 DEF Poll, LoseDown, CloseUp, RecvUp, Overrun, Accept, netVars, roundVars
  <2>2. status = "run"
    BY <1>3 DEF Poll, LoseDown, CloseUp, RecvUp, Overrun, Accept, Upstream, Scanning, RoundDone
  <2> QED
    BY <2>1, <2>2, PoolInvStutter
<1>4. CASE RecvDown
  BY <1>4, RecvDownStep
<1>5. ASSUME NEW m \in inbox, Resume(m) PROVE PoolInv'
  BY <1>5, ResumeStep
<1>6. CASE Disable
  BY <1>6, DisableStep
<1>7. CASE Start
  BY <1>7, StartStep
<1>8. CASE UNCHANGED vars
  BY <1>8, PoolInvStutter DEF vars, netVars, roundVars
<1>9. ASSUME NEW d \in Deps, Quit(d) PROVE PoolInv'
  BY <1>9, PoolInvStutter DEF Quit, roundVars
<1> QED
  BY <1>1, <1>2, <1>3, <1>4, <1>5, <1>6, <1>7, <1>8, <1>9 DEF Next, run_service

\* The invariant holds in every reachable state.
THEOREM PoolInvariant == Spec => []PoolInv
BY PoolInvInit, PoolInvNext, PTL DEF Spec

\* However many requests and RPCs are under way, the stack of available
\* coroutines holds exactly those that are not inside a handler, once each: none
\* is lost, and none is given to two requests (service_async.h:65, 203).
THEOREM CoroutinesNeverLost == Spec => []CoroutinesAccounted
<1>1. PoolInv => CoroutinesAccounted
  BY DEF PoolInv
<1> QED
  BY <1>1, PoolInvariant, PTL

\* Upstream reception is off only while no coroutine is available, so that a
\* coroutine's end is bound to turn it on again (service_async.h:60, 170).
THEOREM BackpressureSound == Spec => []DisabledOnlyWhenExhausted
<1>1. PoolInv => DisabledOnlyWhenExhausted
  BY DEF PoolInv
<1> QED
  BY <1>1, PoolInvariant, PTL

\* In whatever order dependencies answer, the id of a response names the
\* coroutine that waits for exactly that response (service_async.h:97, 387).
THEOREM IdsIdentifyCalls == Spec => []IdIdentifiesCall
<1>1. PoolInv => IdIdentifiesCall
  BY DEF PoolInv
<1> QED
  BY <1>1, PoolInvariant, PTL
-----------------------------------------------------------------------------
(* The slots of the loop *)

\* A set of slots has a least one.
LEMMA LeastSlot == ASSUME NEW T \in SUBSET Nat, T # {} PROVE \E t \in T : \A u \in T : t <= u
<1>1. PICK t \in T : \A u \in T : ~(<<u, t>> \in OpToRel(<, Nat))
  BY NatLessThanWellFounded, WFMin
<1>2. \A u \in T : ~(u < t)
  BY <1>1 DEF OpToRel
<1> QED
  BY <1>2

\* The loop goes on with a slot (service_async.h:331).
LEMMA NextReadyType ==
  ASSUME NEW s \in Nat, NEW r, NEW n \in Nat PROVE NextReady(s, r, n) \in Nat
<1> DEFINE S == {t \in s .. n - 1 : r[t]}
<1>1. CASE S = {}
  BY <1>1 DEF NextReady
<1>2. CASE S # {}
  <2>1. S \in SUBSET Nat
    OBVIOUS
  <2>2. \E t \in S : \A u \in S : t <= u
    BY <1>2, <2>1, LeastSlot
  <2>3. (CHOOSE t \in S : \A u \in S : t <= u) \in S
    BY <2>2
  <2> QED
    BY <1>2, <2>1, <2>3 DEF NextReady
<1> QED
  BY <1>1, <1>2

\* A step that leaves the list of sockets alone.
LEMMA SockInvKeep ==
  ASSUME SockInv, UNCHANGED <<handle, socks, npoll, pc>>,
         link' \in [Clients -> {"off", "backlog", "open", "closed"}],
         \A c \in Clients : link[c] \in {"open", "closed"} => link'[c] \in {"open", "closed"},
         slot' \in Nat, burst' \in Nat,
         burst' > 0 => pc = "scan" /\ NDeps < slot' /\ slot' < npoll /\ inbox' = {}
  PROVE  SockInv'
BY DEF SockInv, NSocks

\* Closing a connection takes its socket out of the list (service_async.h:335).
LEMMA SockInvCloseUp == ASSUME SockInv, CloseUp PROVE SockInv'
<1> DEFINE j == slot - NDeps
           n == Len(socks)
           p == SubSeq(socks, 1, j - 1)
           q == SubSeq(socks, j + 1, n)
<1>1. NDeps \in Nat /\ socks \in Seq(Handles)
  BY AsyncAssumption DEF SockInv
<1>2. /\ pc = "scan" /\ burst = 0 /\ NDeps < slot /\ slot < npoll
      /\ handle' = [handle EXCEPT ![socks[j]] = None]
      /\ socks' = p \o q
      /\ npoll' = npoll - 1
      /\ slot' = NextReady(slot + 1, ShiftReady(slot), npoll - 1)
      /\ UNCHANGED <<link, pc, burst>>
  BY DEF CloseUp, Upstream, Scanning, UpSock, Dropped, netVars
<1>3. n \in Nat /\ j \in 1 .. n /\ npoll <= NDeps + 1 + n /\ npoll - 1 \in Nat
  BY <1>1, <1>2, LenProperties DEF SockInv, NSocks
<1>4. /\ p \in Seq(Handles) /\ Len(p) = j - 1
      /\ \A i \in 1 .. j - 1 : p[i] = socks[i]
  BY <1>1, <1>3, SubSeqProperties
<1>5. /\ q \in Seq(Handles) /\ Len(q) = n - j
      /\ \A i \in 1 .. n - j : q[i] = socks[j + i]
  BY <1>1, <1>3, SubSeqProperties
<1>6. /\ socks' \in Seq(Handles) /\ Len(socks') = n - 1
      /\ \A i \in 1 .. n - 1 : socks'[i] = IF i < j THEN socks[i] ELSE socks[i + 1]
  <2> HIDE DEF p, q, n, j
  <2>0. /\ p \o q \in Seq(Handles) /\ Len(p \o q) = Len(p) + Len(q)
        /\ \A i \in 1 .. Len(p) + Len(q) :
             (p \o q)[i] = IF i <= Len(p) THEN p[i] ELSE q[i - Len(p)]
    BY <1>4, <1>5, ConcatProperties
  <2>1. p \o q \in Seq(Handles) /\ Len(p \o q) = n - 1 /\ Len(p) + Len(q) = n - 1
    BY <1>3, <1>4, <1>5, <2>0
  <2>2. \A i \in 1 .. n - 1 : (p \o q)[i] = IF i <= j - 1 THEN p[i] ELSE q[i - (j - 1)]
    BY <1>4, <2>0, <2>1
  <2>3. ASSUME NEW i \in 1 .. n - 1 PROVE (p \o q)[i] = IF i < j THEN socks[i] ELSE socks[i + 1]
    <3>1. CASE i < j
      <4>1. i \in 1 .. j - 1
        BY <3>1, <1>3
      <4> QED
        BY <3>1, <4>1, <2>2, <1>3, <1>4
    <3>2. CASE ~(i < j)
      <4>1. i - (j - 1) \in 1 .. n - j /\ j + (i - (j - 1)) = i + 1 /\ ~(i <= j - 1)
        BY <3>2, <1>3
      <4> QED
        BY <3>2, <4>1, <2>2, <1>5
    <3> QED
      BY <3>1, <3>2
  <2> QED
    BY <2>1, <2>3, <1>2
<1> HIDE DEF p, q, n, j
<1>7. \A i, k \in 1 .. n : socks[i] = socks[k] => i = k
  BY DEF SockInv, n
<1>8. \A i \in 1 .. n : socks[i] \in Handles
  BY <1>1, ElementOfSeq DEF n
<1>9. ASSUME NEW i \in 1 .. n - 1
      PROVE  \E k \in 1 .. n : k # j /\ socks'[i] = socks[k] /\ k = IF i < j THEN i ELSE i + 1
  BY <1>3, <1>6
<1>10. \A i, k \in 1 .. n - 1 : socks'[i] = socks'[k] => i = k
  BY <1>3, <1>7, <1>9
<1>11. handle' \in [Handles -> Clients \cup {None}]
  BY <1>2 DEF SockInv
<1>12. \A i \in 1 .. n - 1 : handle'[socks'[i]] # None
  <2> SUFFICES ASSUME NEW i \in 1 .. n - 1 PROVE handle'[socks'[i]] # None
    OBVIOUS
  <2>1. PICK k \in 1 .. n : k # j /\ socks'[i] = socks[k]
    BY <1>9
  <2>2. socks[k] # socks[j] /\ socks[k] \in Handles
    BY <2>1, <1>3, <1>7, <1>8
  <2>3. handle'[socks[k]] = handle[socks[k]]
    BY <2>2, <1>2 DEF SockInv
  <2> QED
    BY <2>1, <2>3 DEF SockInv, n
<1>13. \A h \in Handles : handle'[h] # None => handle'[h] = handle[h]
  BY <1>2 DEF SockInv
<1>14. \A h \in Handles : handle'[h] # None => link'[handle'[h]] \in {"open", "closed"}
  BY <1>2, <1>13 DEF SockInv
<1>15. slot' \in Nat
  BY <1>2, <1>3, NextReadyType DEF SockInv
<1>16. npoll' \in Nat /\ npoll' <= NDeps + 1 + Len(socks')
  BY <1>1, <1>2, <1>3, <1>6 DEF SockInv
<1>17. burst' \in Nat /\ ~(burst' > 0)
  BY <1>2
<1>18. link' \in [Clients -> {"off", "backlog", "open", "closed"}]
  BY <1>2 DEF SockInv
<1> QED
  BY <1>6, <1>10, <1>11, <1>12, <1>14, <1>15, <1>16, <1>17, <1>18 DEF SockInv, NSocks

\* Accepting a connection puts a socket object that is not in use at the end
\* of the list (service_async.h:375).
LEMMA SockInvAccept == ASSUME SockInv, Accept PROVE SockInv'
<1>1. pc' = "poll" /\ UNCHANGED <<npoll, slot, burst>> /\ burst = 0
  BY DEF Accept, RoundDone, Scanning
<1>2. CASE UNCHANGED <<link, handle, socks>>
  BY <1>1, <1>2 DEF SockInv, NSocks
<1>3. ASSUME NEW c \in Clients, NEW h \in Handles, link[c] = "backlog", handle[h] = None,
             link' = [link EXCEPT ![c] = "open"], handle' = [handle EXCEPT ![h] = c],
             socks' = Append(socks, h)
      PROVE  SockInv'
  <2> DEFINE n == Len(socks)
  <2>1. n \in Nat /\ socks \in Seq(Handles)
    BY LenProperties DEF SockInv
  <2>2. /\ socks' \in Seq(Handles) /\ Len(socks') = n + 1 /\ socks'[n + 1] = h
        /\ \A i \in 1 .. n : socks'[i] = socks[i]
    BY <1>3, <2>1, AppendProperties
  <2>3. \A i \in 1 .. n : socks[i] \in Handles /\ socks[i] # h
    BY <1>3, <2>1, ElementOfSeq DEF SockInv
  <2>4. \A i \in 1 .. n : handle[socks[i]] # None
    BY DEF SockInv
  <2>5. \A i, k \in 1 .. n : socks[i] = socks[k] => i = k
    BY DEF SockInv
  <2> HIDE DEF n
  <2>6. \A i \in 1 .. n + 1 : i \in 1 .. n \/ i = n + 1
    BY <2>1
  <2>7. \A i, k \in 1 .. n + 1 : socks'[i] = socks'[k] => i = k
    BY <2>2, <2>3, <2>5, <2>6
  <2>8. handle'[h] = c /\ \A g \in Handles : g # h => handle'[g] = handle[g]
    BY <1>3 DEF SockInv
  <2>9. c # None
    BY AsyncAssumption
  <2>10. \A i \in 1 .. n + 1 : handle'[socks'[i]] # None
    BY <2>2, <2>3, <2>4, <2>6, <2>8, <2>9
  <2>11. /\ handle' \in [Handles -> Clients \cup {None}]
         /\ link' \in [Clients -> {"off", "backlog", "open", "closed"}]
    BY <1>3 DEF SockInv
  <2>12. link'[c] = "open" /\ \A e \in Clients : e # c => link'[e] = link[e]
    BY <1>3 DEF SockInv
  <2>13. \A g \in Handles : handle'[g] # None => link'[handle'[g]] \in {"open", "closed"}
    <3> SUFFICES ASSUME NEW g \in Handles, handle'[g] # None
                 PROVE  link'[handle'[g]] \in {"open", "closed"}
      OBVIOUS
    <3>1. CASE g = h
      BY <3>1, <2>8, <2>12
    <3>2. CASE g # h
      <4>1. handle'[g] = handle[g] /\ handle[g] \in Clients
        BY <3>2, <2>8 DEF SockInv
      <4>2. link[handle[g]] \in {"open", "closed"}
        BY <4>1 DEF SockInv
      <4> QED
        BY <4>1, <4>2, <1>3, <2>12
    <3> QED
      BY <3>1, <3>2
  <2>14. npoll' \in Nat /\ slot' \in Nat /\ burst' \in Nat /\ ~(burst' > 0)
    BY <1>1 DEF SockInv
  <2> QED
    BY <1>1, <2>2, <2>7, <2>10, <2>11, <2>13, <2>14 DEF SockInv
<1> QED
  BY <1>2, <1>3 DEF Accept
\* No socket is open at the start.
LEMMA SockInvInit == Init => SockInv
<1> SUFFICES ASSUME Init PROVE SockInv
  OBVIOUS
<1>1. socks \in Seq(Handles) /\ Len(socks) = 0
  BY EmptySeq DEF Init
<1> QED
  BY <1>1 DEF Init, SockInv

\* The step that starts or resumes a coroutine leaves the sockets alone.
LEMMA SockInvRun ==
  ASSUME SockInv, Start \/ (\E m \in inbox : Resume(m))
  PROVE  SockInv' /\ (burst' > 0 => slot' = slot)
<1>1. UNCHANGED <<link, handle, socks, npoll, pc>>
  BY DEF Start, Resume
<1>2. /\ slot' = slot \/ slot' = NextReady(slot + 1, ready, npoll)
      /\ burst' \in Nat
      /\ burst' > 0 => burst > 0 /\ slot' = slot /\ inbox' = {}
  <2>1. CASE Start
    BY <2>1 DEF Start, SockInv
  <2>2. CASE \E m \in inbox : Resume(m)
    BY <2>2 DEF Resume, SockInv
  <2> QED
    BY <2>1, <2>2
<1>3. slot' \in Nat
  BY <1>2, NextReadyType DEF SockInv
<1> QED
  BY <1>1, <1>2, <1>3, SockInvKeep DEF SockInv

\* A round begins with the sockets there are (service_async.h:314).
LEMMA SockInvPoll == ASSUME SockInv, Poll PROVE SockInv'
<1>1. /\ npoll' = PollCount /\ slot' = NextReady(1, Polled(PollCount), PollCount)
      /\ pc = "poll" /\ UNCHANGED <<link, handle, socks, inbox, burst>>
  BY DEF Poll, netVars
<1>2. NDeps \in Nat /\ Len(socks) \in Nat
  BY AsyncAssumption, LenProperties DEF SockInv
<1>3. PollCount \in Nat /\ PollCount <= NSocks
  BY <1>2 DEF PollCount, NSocks
<1>4. slot' \in Nat
  BY <1>1, <1>3, NextReadyType
<1>5. npoll' \in Nat /\ npoll' <= NSocks'
  BY <1>1, <1>3 DEF NSocks
<1>6. ~(burst' > 0)
  BY <1>1 DEF SockInv
<1> QED
  BY <1>1, <1>4, <1>5, <1>6 DEF SockInv

\* The socket of an upstream slot is that of a client.
LEMMA UpSockFacts ==
  ASSUME SockInv, pc = "scan", NDeps < slot, slot < npoll
  PROVE  UpSock \in Handles /\ handle[UpSock] \in Clients
<1>1. NDeps \in Nat /\ Len(socks) \in Nat /\ socks \in Seq(Handles)
  BY AsyncAssumption, LenProperties DEF SockInv
<1>2. slot - NDeps \in 1 .. Len(socks)
  BY <1>1 DEF SockInv, NSocks
<1>3. UpSock \in Handles
  BY <1>1, <1>2, ElementOfSeq DEF UpSock
<1> QED
  BY <1>2, <1>3 DEF SockInv, UpSock

\* A bulk is a part of what the client has sent (service_async.h:180).
LEMMA RecvUpFacts ==
  ASSUME SockInv, CountInv, RecvUp
  PROVE  LET c == handle[UpSock]
         IN /\ c \in Clients /\ burst = 0 /\ burst' \in Nat \ {0}
            /\ Http => burst' = 1
            /\ taken' = [taken EXCEPT ![c] = @ + burst']
            /\ taken[c] + burst' <= asked[c]
            /\ UNCHANGED <<slot, socks, handle>>
<1> DEFINE c == handle[UpSock]
           n == asked[c] - taken[c]
<1>1. pc = "scan" /\ NDeps < slot /\ slot < npoll /\ burst = 0
  BY DEF RecvUp, Upstream, Scanning
<1>2. c \in Clients
  BY <1>1, UpSockFacts
<1>3. /\ n > 0 /\ burst' = IF Http THEN 1 ELSE IF n < Bulk THEN n ELSE Bulk
      /\ taken' = [taken EXCEPT ![c] = @ + burst'] /\ UNCHANGED <<slot, socks, handle>>
  BY DEF RecvUp
<1>4. asked[c] \in Nat /\ taken[c] \in Nat /\ Bulk \in Nat \ {0} /\ Http \in BOOLEAN
  BY <1>2, AsyncAssumption DEF CountInv
<1> HIDE DEF c
<1>5. burst' \in Nat \ {0} /\ taken[c] + burst' <= asked[c] /\ (Http => burst' = 1)
  BY <1>3, <1>4
<1> QED
  BY <1>1, <1>2, <1>3, <1>5 DEF c

\* The sockets through a step of anyone.
LEMMA SockInvNext == SockInv /\ CountInv /\ [Next]_vars => SockInv'
<1> SUFFICES ASSUME SockInv, CountInv, [Next]_vars PROVE SockInv'
  OBVIOUS
<1>1. ASSUME NEW c \in Clients, Connect(c) \/ Ask(c) \/ Close(c) PROVE SockInv'
  <2>1. /\ UNCHANGED <<handle, socks, npoll, pc, slot, burst, inbox>>
        /\ link' \in [Clients -> {"off", "backlog", "open", "closed"}]
        /\ \A e \in Clients : link[e] \in {"open", "closed"} => link'[e] \in {"open", "closed"}
    BY <1>1 DEF Connect, Ask, Close, roundVars, SockInv
  <2> QED
    BY <2>1, SockInvKeep DEF SockInv
<1>2. ASSUME NEW d \in Deps, NEW m \in reqs[d], Serve(d, m) PROVE SockInv'
  <2>1. UNCHANGED <<link, handle, socks, npoll, pc, slot, burst, inbox>>
    BY <1>2 DEF Serve, roundVars
  <2> QED
    BY <2>1, SockInvKeep DEF SockInv
<1>3. CASE Poll
  BY <1>3, SockInvPoll
<1>4. CASE RecvDown
  <2>1. UNCHANGED <<link, handle, socks, npoll, pc, slot, burst>> /\ burst = 0
    BY <1>4 DEF RecvDown, Scanning
  <2> QED
    BY <2>1, SockInvKeep DEF SockInv
<1>5. CASE Start \/ (\E m \in inbox : Resume(m))
  BY <1>5, SockInvRun
<1>6. CASE Disable
  <2>1. UNCHANGED <<link, handle, socks, npoll, pc, burst>> /\ slot' = npoll /\ burst = 0
    BY <1>6 DEF Disable, Upstream, Scanning, netVars
  <2> QED
    BY <2>1, SockInvKeep DEF SockInv
<1>7. CASE CloseUp
  BY <1>7, SockInvCloseUp
<1>8. CASE RecvUp
  <2>1. /\ UNCHANGED <<link, handle, socks, npoll, pc, slot, inbox>>
        /\ pc = "scan" /\ NDeps < slot /\ slot < npoll /\ inbox = {}
    BY <1>8 DEF RecvUp, Upstream, Scanning
  <2>2. burst' \in Nat
    BY <1>8, <2>1, RecvUpFacts
  <2> QED
    BY <2>1, <2>2, SockInvKeep DEF SockInv
<1>9. CASE Overrun \/ LoseDown
  <2>1. UNCHANGED <<link, handle, socks, npoll, pc, slot, burst, inbox>>
    BY <1>9 DEF Overrun, LoseDown, netVars, roundVars
  <2> QED
    BY <2>1, SockInvKeep DEF SockInv
<1>10. CASE Accept
  BY <1>10, SockInvAccept
<1>11. CASE UNCHANGED vars
  <2>1. UNCHANGED <<link, handle, socks, npoll, pc, slot, burst, inbox>>
    BY <1>11 DEF vars, netVars, roundVars
  <2> QED
    BY <2>1, SockInvKeep DEF SockInv
<1>12. ASSUME NEW d \in Deps, Quit(d) PROVE SockInv'
  <2>1. UNCHANGED <<link, handle, socks, npoll, pc, slot, burst, inbox>>
    BY <1>12 DEF Quit, roundVars
  <2> QED
    BY <2>1, SockInvKeep DEF SockInv
<1> QED
  BY <1>1, <1>2, <1>3, <1>4, <1>5, <1>6, <1>7, <1>8, <1>9, <1>10, <1>11, <1>12 DEF Next, run_service
\* Nothing is sent or received at the start.
LEMMA CountInvInit == Init => CountInv
<1> SUFFICES ASSUME Init PROVE CountInv
  OBVIOUS
<1>1. 0 \in 0 .. MaxAsked
  BY AsyncAssumption
<1> QED
  BY <1>1 DEF Init, CountInv

\* The counts through a step of anyone.
LEMMA CountInvNext == SockInv /\ CountInv /\ [Next]_vars => CountInv'
<1> SUFFICES ASSUME SockInv, CountInv, [Next]_vars PROVE CountInv'
  OBVIOUS
<1>0. MaxAsked \in Nat
  BY AsyncAssumption
<1>1. ASSUME NEW c \in Clients, Ask(c) PROVE CountInv'
  <2>1. /\ asked' = [asked EXCEPT ![c] = @ + 1] /\ asked[c] < MaxAsked
        /\ UNCHANGED <<taken, burst, slot, socks, handle>>
    BY <1>1 DEF Ask, roundVars
  <2>2. asked' \in [Clients -> 0 .. MaxAsked]
    BY <2>1, <1>0 DEF CountInv
  <2>3. \A e \in Clients : taken'[e] <= asked'[e]
    BY <2>1, <1>0 DEF CountInv
  <2> QED
    BY <2>1, <2>2, <2>3 DEF CountInv, UpSock
<1>2. CASE UNCHANGED <<asked, taken, burst, slot, socks, handle>>
  BY <1>2 DEF CountInv, UpSock
<1>3. CASE UNCHANGED <<asked, taken, burst>> /\ burst = 0
  BY <1>3 DEF CountInv
<1>4. CASE RecvUp
  <2> DEFINE c == handle[UpSock]
  <2>1. /\ c \in Clients /\ burst' \in Nat \ {0} /\ taken' = [taken EXCEPT ![c] = @ + burst']
        /\ taken[c] + burst' <= asked[c] /\ UNCHANGED <<slot, socks, handle>>
    BY <1>4, RecvUpFacts
  <2>2. asked' = asked /\ handle'[UpSock'] = c
    BY <1>4, <2>1 DEF RecvUp, UpSock
  <2> HIDE DEF c
  <2>3. taken'[c] = taken[c] + burst' /\ \A e \in Clients : e # c => taken'[e] = taken[e]
    BY <2>1 DEF CountInv
  <2>4. taken[c] \in Nat /\ asked[c] \in 0 .. MaxAsked
    BY <2>1 DEF CountInv
  <2>5. taken'[c] \in 0 .. MaxAsked /\ taken'[c] <= asked[c] /\ burst' <= taken'[c]
    BY <2>1, <2>3, <2>4, <1>0
  <2>6. taken' \in [Clients -> 0 .. MaxAsked]
    BY <2>1, <2>3, <2>5 DEF CountInv
  <2> QED
    BY <2>2, <2>3, <2>5, <2>6 DEF CountInv
<1>5. CASE Start \/ (\E m \in inbox : Resume(m))
  <2>1. /\ UNCHANGED <<asked, taken, handle, socks>>
        /\ burst' = burst \/ burst' = burst - 1 
    BY <1>5 DEF Start, Resume
  <2>2. burst' > 0 => slot' = slot
    BY <1>5, SockInvRun
  <2>3. burst' > 0 => burst > 0 /\ burst' <= burst /\ UpSock' = UpSock
    BY <2>1, <2>2 DEF SockInv, UpSock
  <2>4. ASSUME burst' > 0 PROVE burst' <= taken[handle[UpSock]]
    <3>1. handle[UpSock] \in Clients
      BY <2>3, <2>4, UpSockFacts DEF SockInv
    <3>2. burst <= taken[handle[UpSock]] /\ taken[handle[UpSock]] \in Nat
      BY <2>3, <2>4, <3>1 DEF CountInv
    <3> QED
      BY <2>1, <2>3, <2>4, <3>2 DEF SockInv
  <2> QED
    BY <2>1, <2>3, <2>4 DEF CountInv
<1>6. CASE Poll \/ RecvDown \/ Disable \/ CloseUp \/ Accept
  <2>1. UNCHANGED <<asked, taken, burst>>
    BY <1>6 DEF Poll, RecvDown, Disable, CloseUp, Accept, netVars
  <2>2. pc = "poll" \/ burst = 0
    BY <1>6 DEF Poll, RecvDown, Disable, CloseUp, Accept, RoundDone, Upstream, Scanning
  <2>3. burst = 0
    BY <2>2 DEF SockInv
  <2> QED
    BY <1>3, <2>1, <2>3
<1>7. ASSUME NEW c \in Clients, Connect(c) \/ Close(c) PROVE CountInv'
  BY <1>2, <1>7 DEF Connect, Close, roundVars
<1>8. ASSUME NEW d \in Deps, NEW m \in reqs[d], Serve(d, m) PROVE CountInv'
  BY <1>2, <1>8 DEF Serve, roundVars
<1>9. CASE Overrun \/ LoseDown
  BY <1>2, <1>9 DEF Overrun, LoseDown, netVars, roundVars
<1>10. CASE UNCHANGED vars
  BY <1>2, <1>10 DEF vars, netVars, roundVars
<1>11. ASSUME NEW d \in Deps, Quit(d) PROVE CountInv'
  BY <1>2, <1>11 DEF Quit, roundVars
<1> QED
  BY <1>1, <1>4, <1>5, <1>6, <1>7, <1>8, <1>9, <1>10, <1>11 DEF Next, run_service
-----------------------------------------------------------------------------
(* Requests and answers *)

\* The two are the same request of the same client.
Same(r, q) == r.from = q.from /\ r.n = q.n

\* An answer that is not its asker's went to the next owner of its socket object.
OnSocket ==
  \A a \in answers : a.to # a.req.from =>
    link[a.req.from] = "closed" /\ (handle[a.req.sock] = a.to \/ link[a.to] = "closed")

\* A request given to a coroutine was received.
LEMMA StartedType ==
  ASSUME SockInv, CountInv, NEW c \in Clients
  PROVE  Started(c) \in Int /\ Started(c) <= taken[c] /\ taken[c] \in Nat /\ taken[c] <= MaxAsked
<1>1. taken[c] \in Nat /\ taken[c] <= MaxAsked /\ burst \in Nat
  BY AsyncAssumption DEF SockInv, CountInv
<1> QED
  BY <1>1 DEF Started

\* A step that starts and ends no handler, and takes a socket object only
\* from a client that closed.
LEMMA RequestInvKeep ==
  ASSUME SockInv, SockInv', CountInv, CountInv', RequestInv, UNCHANGED <<answers, co>>,
         \A c \in Clients : Started(c)' = Started(c),
         \A c \in Clients : link[c] = "closed" => link'[c] = "closed",
         \A h \in Handles : handle[h] \in Clients /\ handle'[h] # handle[h]
                              => link'[handle[h]] = "closed"
  PROVE  RequestInv'
<1>1. Waiting' = Waiting /\ \A c \in Waiting : Asks(c)' = Asks(c)
  BY DEF Waiting, Asks
<1>2. \A a \in answers : a \in [to : Clients, req : Request]
  BY DEF RequestInv
<1>3. \A a \in answers : a.req \in Request /\ a.req.from \in Clients /\ a.req.n \in Int
  BY <1>2 DEF Request
<1>4. \A a \in answers : a.req.n <= Started(a.req.from)'
  BY <1>3 DEF RequestInv
<1>5. \A c \in Clients : Started(c)' \in Int /\ Started(c)' <= taken'[c] /\ taken'[c] \in Nat
  <2> SUFFICES ASSUME NEW c \in Clients
               PROVE  Started(c)' \in Int /\ Started(c)' <= taken'[c] /\ taken'[c] \in Nat
    OBVIOUS
  <2>1. taken'[c] \in Nat /\ burst' \in Nat
    BY AsyncAssumption DEF SockInv, CountInv
  <2> QED
    BY <2>1 DEF Started
<1>6. \A a \in answers : a.req.n <= taken'[a.req.from]
  <2> SUFFICES ASSUME NEW a \in answers PROVE a.req.n <= taken'[a.req.from]
    OBVIOUS
  <2> DEFINE f == a.req.from
  <2>1. f \in Clients /\ a.req.n \in Int /\ a.req.n <= Started(f)'
    BY <1>3, <1>4
  <2>2. Started(f)' \in Int /\ Started(f)' <= taken'[f] /\ taken'[f] \in Nat
    BY <1>5, <2>1
  <2> HIDE DEF f
  <2> QED
    BY <2>1, <2>2 DEF f
<1>7. AnsweredOnce'
  <2>1. AnsweredOnce
    BY DEF RequestInv
  <2> QED
    BY <2>1, <1>1, <1>6 DEF AnsweredOnce
<1>8. OnSocket'
  <2> SUFFICES ASSUME NEW a \in answers, a.to # a.req.from
               PROVE  link'[a.req.from] = "closed" /\ (handle'[a.req.sock] = a.to \/ link'[a.to] = "closed")
    BY DEF OnSocket
  <2>1. link[a.req.from] = "closed" /\ (handle[a.req.sock] = a.to \/ link[a.to] = "closed")
    BY DEF RequestInv
  <2>2. a.req.from \in Clients /\ a.to \in Clients /\ a.req.sock \in Handles
    BY <1>2, <1>3 DEF Request
  <2> QED
    BY <2>1, <2>2
<1>9. ASSUME NEW c \in Waiting, NEW r, r = Asks(c)
      PROVE  /\ r \in Request /\ r.n <= Started(r.from)'
             /\ handle'[r.sock] = r.from \/ link'[r.from] = "closed"
  <2>1. r \in Request /\ r.from \in Clients /\ r.sock \in Handles
    BY <1>9 DEF RequestInv, Request
  <2>2. r.n <= Started(r.from) /\ (handle[r.sock] = r.from \/ link[r.from] = "closed")
    BY <1>9 DEF RequestInv
  <2> QED
    BY <2>1, <2>2
<1>10. \A c, e \in Waiting : Asks(c).from = Asks(e).from /\ Asks(c).n = Asks(e).n => c = e
  BY DEF RequestInv
<1>11. \A c \in Waiting' :
         (/\ Asks(c) \in Request
          /\ Asks(c).n <= Started(Asks(c).from)
          /\ handle[Asks(c).sock] = Asks(c).from \/ link[Asks(c).from] = "closed")'
  BY <1>1, <1>9 DEF Asks, Started
<1> QED
  BY <1>1, <1>2, <1>4, <1>7, <1>8, <1>10, <1>11 DEF RequestInv, OnSocket

\* What coroutine c finds when it begins to run on a request: it is a request
\* that was received, that no other coroutine has and that has no answer.
Takes(c, req) ==
  /\ c \in Co /\ req \in Request
  /\ \A f \in Clients : f = req.from => req.n <= Started(f)'
  /\ handle[req.sock] = req.from \/ link[req.from] = "closed"
  /\ \A e \in Waiting : e # c => ~Same(Asks(e), req)
  /\ \A a \in answers : ~Same(a.req, req)
  /\ \A x \in Clients : Started(x) <= Started(x)'
  /\ UNCHANGED <<link, asked, taken, handle>>

\* A coroutine that runs on such a request keeps the invariant: if it answers
\* it answers the client on whose socket the request came (service_async.h:48).
LEMMA RequestInvRun ==
  ASSUME SockInv, SockInv', CountInv, CountInv', RequestInv, co = [x \in Co |-> co[x]],
         NEW c, NEW req, NEW k, NEW av, Takes(c, req), Run(c, req, k, av)
  PROVE  RequestInv'
<1>1. /\ c \in Co /\ req \in Request /\ req.from \in Clients /\ req.sock \in Handles
      /\ req.n \in Int
  BY DEF Takes, Request
<1>2. \A x \in Clients : /\ Started(x) \in Int /\ Started(x)' \in Int
                         /\ Started(x) <= Started(x)' /\ Started(x)' <= taken[x]
                         /\ taken[x] \in Nat
  <2> SUFFICES ASSUME NEW x \in Clients
               PROVE  /\ Started(x) \in Int /\ Started(x)' \in Int
                      /\ Started(x) <= Started(x)' /\ Started(x)' <= taken[x]
                      /\ taken[x] \in Nat
    OBVIOUS
  <2>1. taken'[x] = taken[x] /\ taken[x] \in Nat /\ burst \in Nat /\ burst' \in Nat
    BY AsyncAssumption DEF SockInv, CountInv, Takes
  <2>2. Started(x) <= Started(x)'
    BY DEF Takes
  <2>3. Started(x) \in Int
    BY <2>1 DEF Started
  <2>4. Started(x)' \in Int /\ Started(x)' <= taken'[x]
    BY <2>1 DEF Started
  <2> QED
    BY <2>1, <2>2, <2>3, <2>4
<1>3. ASSUME NEW r, r \in Request, r.n <= Started(r.from) \/ r.n <= Started(r.from)'
      PROVE  r.n <= Started(r.from)' /\ r.n <= taken[r.from]
  <2> DEFINE f == r.from
  <2>1. f \in Clients /\ r.n \in Int
    BY <1>3 DEF Request
  <2>2. /\ Started(f) \in Int /\ Started(f)' \in Int
        /\ Started(f) <= Started(f)' /\ Started(f)' <= taken[f] /\ taken[f] \in Nat
    BY <1>2, <2>1
  <2>3. r.n <= Started(f) \/ r.n <= Started(f)'
    BY <1>3
  <2> HIDE DEF f
  <2> QED
    BY <2>1, <2>2, <2>3 DEF f
<1>4. \A a \in answers : a \in [to : Clients, req : Request] /\ a.req \in Request
  BY DEF RequestInv
<1>5. \A a \in answers : a.req.n <= Started(a.req.from)' /\ a.req.n <= taken[a.req.from]
  BY <1>3, <1>4 DEF RequestInv
<1>6. req.n <= Started(req.from)' /\ req.n <= taken[req.from]
  BY <1>1, <1>3 DEF Takes
<1>7. \A e \in Waiting : \A r : r = Asks(e) =>
        /\ r \in Request /\ r.n <= Started(r.from)'
        /\ handle[r.sock] = r.from \/ link[r.from] = "closed"
  BY <1>3 DEF RequestInv
<1>8. UNCHANGED <<link, taken, handle>>
  BY DEF Takes
<1>9. /\ \A e, f \in Waiting : Same(Asks(e), Asks(f)) => e = f
      /\ \A e \in Waiting : \A a \in answers : ~Same(a.req, Asks(e))
      /\ \A a, b \in answers : Same(a.req, b.req) => a = b
  BY DEF RequestInv, AnsweredOnce, Same, Asks
<1>10. /\ \A e \in Waiting : e # c => ~Same(Asks(e), req)
       /\ \A a \in answers : ~Same(a.req, req)
  BY DEF Takes
<1>11. CASE DoRpc(c, req, k, av)
  <2>1. PICK d \in Deps : co' = [co EXCEPT ![c] = [st |-> "wait",
                                    call |-> [req |-> req, dep |-> d, k |-> k + 1]]]
    BY <1>11 DEF DoRpc
  <2>2. answers' = answers
    BY <1>11 DEF DoRpc
  <2>3. /\ co'[c].st = "wait" /\ co'[c].call.req = req
        /\ \A x \in Co : x # c => co'[x] = co[x]
    BY <2>1, <1>1
  <2>4. Waiting' = Waiting \cup {c}
    BY <2>3, <1>1 DEF Waiting
  <2>5. Asks(c)' = req /\ \A x \in Co : x # c => Asks(x)' = Asks(x)
    BY <2>3 DEF Asks
  <2>6. \A e \in Waiting' : e = c \/ (e \in Waiting /\ e # c /\ Asks(e)' = Asks(e))
    BY <2>4, <2>5 DEF Waiting
  <2>7. \A e \in Waiting' :
          (/\ Asks(e) \in Request
           /\ Asks(e).n <= Started(Asks(e).from)
           /\ handle[Asks(e).sock] = Asks(e).from \/ link[Asks(e).from] = "closed")'
    <3>1. ASSUME NEW e \in Waiting', NEW r, r = Asks(e)'
          PROVE  /\ r \in Request /\ r.n <= Started(r.from)'
                 /\ handle[r.sock] = r.from \/ link[r.from] = "closed"
      BY <3>1, <2>5, <2>6, <1>1, <1>6, <1>7 DEF Takes
    <3> QED
      BY <3>1, <1>8 DEF Asks, Started
  <2>8. \A e, f \in Waiting' : Same(Asks(e)', Asks(f)') => e = f
    BY <2>5, <2>6, <1>9, <1>10 DEF Same
  <2>9. \A e \in Waiting' : \A a \in answers : ~Same(a.req, Asks(e)')
    BY <2>5, <2>6, <1>9, <1>10
  <2>10. AnsweredOnce'
    BY <2>2, <2>9, <1>5, <1>8, <1>9 DEF AnsweredOnce, Same, Asks
  <2>11. OnSocket'
    BY <2>2, <1>8 DEF RequestInv, OnSocket
  <2> QED
    BY <2>2, <2>7, <2>8, <2>10, <2>11, <1>4, <1>5 DEF RequestInv, OnSocket, Same
<1>12. CASE Finish(c, req, av)
  <2> DEFINE ans == [to |-> handle[req.sock], req |-> req]
  <2>1. /\ handle[req.sock] # None
        /\ answers' = answers \cup {ans}
        /\ co' = [co EXCEPT ![c] = Idle]
    BY <1>12 DEF Finish, Sendable, ReplySock
  <2>2. handle[req.sock] \in Clients
    BY <2>1, <1>1 DEF SockInv
  <2>3. ans.req = req /\ ans.to = handle[req.sock] /\ ans \in [to : Clients, req : Request]
    BY <2>2, <1>1
  <2> HIDE DEF ans
  <2>4. co'[c].st = "idle" /\ \A x \in Co : x # c => co'[x] = co[x]
    BY <2>1, <1>1 DEF Idle
  <2>5. \A e \in Waiting' : e \in Waiting /\ e # c /\ Asks(e)' = Asks(e)
    BY <2>4 DEF Waiting, Asks
  <2>6. \A a \in answers' : a \in answers \/ a = ans
    BY <2>1
  <2>7. \A a \in answers' : /\ a \in [to : Clients, req : Request]
                            /\ a.req.n <= Started(a.req.from)'
                            /\ a.req.n <= taken'[a.req.from]
    BY <2>3, <2>6, <1>4, <1>5, <1>6, <1>8
  <2>8. \A e \in Waiting' :
          (/\ Asks(e) \in Request
           /\ Asks(e).n <= Started(Asks(e).from)
           /\ handle[Asks(e).sock] = Asks(e).from \/ link[Asks(e).from] = "closed")'
    <3>1. ASSUME NEW e \in Waiting', NEW r, r = Asks(e)'
          PROVE  /\ r \in Request /\ r.n <= Started(r.from)'
                 /\ handle[r.sock] = r.from \/ link[r.from] = "closed"
      BY <3>1, <2>5, <1>7
    <3> QED
      BY <3>1, <1>8 DEF Asks, Started
  <2>9. \A e, f \in Waiting' : Same(Asks(e)', Asks(f)') => e = f
    BY <2>5, <1>9
  <2>10. \A e \in Waiting' : \A a \in answers' : ~Same(a.req, Asks(e)')
    BY <2>3, <2>5, <2>6, <1>9, <1>10 DEF Same
  <2>11. \A a, b \in answers' : Same(a.req, b.req) => a = b
    BY <2>3, <2>6, <1>9, <1>10 DEF Same
  <2>12. AnsweredOnce'
    BY <2>7, <2>10, <2>11 DEF AnsweredOnce, Same, Asks
  <2>13. OnSocket'
    <3>1. /\ ans.to = ans.req.from \/ link[ans.req.from] = "closed"
          /\ handle[ans.req.sock] = ans.to
      BY <2>3 DEF Takes
    <3> QED
      BY <3>1, <2>6, <1>8 DEF RequestInv, OnSocket
  <2> QED
    BY <2>7, <2>8, <2>9, <2>12, <2>13 DEF RequestInv, OnSocket, Same
<1>13. CASE FailSend(req) \/ FailRpc(k)
  <2>1. UNCHANGED <<answers, co>>
    BY <1>13 DEF FailSend, FailRpc, coVars
  <2>2. Waiting' = Waiting /\ \A e \in Waiting : Asks(e)' = Asks(e)
    BY <2>1 DEF Waiting, Asks
  <2>3. AnsweredOnce' /\ OnSocket'
    BY <2>1, <2>2, <1>8 DEF RequestInv, AnsweredOnce, OnSocket
  <2> QED
    BY <2>1, <2>2, <2>3, <1>4, <1>5, <1>7, <1>8, <1>9 DEF RequestInv, OnSocket, Same
<1> QED
  BY <1>11, <1>12, <1>13 DEF Run
\* What a coroutine is when it is started: not waiting.
LEMMA TopFacts ==
  ASSUME PoolInv, status = "run", avail # << >>
  PROVE  avail[Len(avail)] \in Co /\ avail[Len(avail)] \notin Waiting
<1>1. avail \in Seq(Co) /\ Distinct(avail) /\ Elems(avail) = Co \ Waiting
  BY AccountedFacts DEF PoolInv
<1>2. avail[Len(avail)] \in Elems(avail) /\ avail[Len(avail)] \in Co
  BY <1>1, PopFacts
<1> QED
  BY <1>1, <1>2

\* What a coroutine is when it is resumed: waiting.
LEMMA ResumedFacts ==
  ASSUME PoolInv, status = "run", NEW m \in inbox
  PROVE  m.id \in Co /\ m.id \in Waiting
<1>1. m \in Flight
  BY FlightMembers
<1> QED
  BY <1>1 DEF PoolInv, FlightOK, IdIdentifiesCall, Waiting

\* The request of the bulk that is started is the next one of its client.
LEMMA StartTakes ==
  ASSUME PoolInv, SockInv, CountInv, RequestInv, Start
  PROVE  LET c == handle[UpSock]
         IN Takes(avail[Len(avail)], [from |-> c, n |-> Current(c), sock |-> UpSock])
<1> DEFINE c == handle[UpSock]
           n == Current(c)
           req == [from |-> c, n |-> n, sock |-> UpSock]
           top == avail[Len(avail)]
<1>1. /\ status = "run" /\ burst > 0 /\ avail # << >> /\ burst' = burst - 1
      /\ UNCHANGED <<link, asked, taken, handle, socks>>
  BY DEF Start, Exhausted
<1>2. UpSock \in Handles /\ c \in Clients
  BY <1>1, UpSockFacts DEF SockInv
<1>3. /\ taken[c] \in Nat /\ taken[c] <= MaxAsked /\ MaxAsked \in Nat
      /\ burst \in Nat /\ burst <= taken[c]
  BY <1>1, <1>2, AsyncAssumption DEF CountInv, SockInv
<1>4. n = taken[c] - burst + 1 /\ n \in 1 .. MaxAsked /\ Started(c) = n - 1
  BY <1>1, <1>3 DEF Current, Started
<1>5. top \in Co /\ top \notin Waiting
  BY <1>1, TopFacts
<1>6. burst' > 0 => UpSock' = UpSock
  BY <1>1, SockInvRun DEF UpSock
<1>7. \A x \in Clients : taken[x] \in Nat
  BY <1>3 DEF CountInv
<1>8. ASSUME NEW x \in Clients PROVE Started(x)' = IF x = c THEN n ELSE Started(x)
  <2>1. Started(x)' = IF burst' > 0 /\ x = handle[UpSock'] THEN taken[x] - burst' ELSE taken[x]
    BY <1>1 DEF Started
  <2>2. CASE x = c
    <3>1. CASE burst' > 0
      BY <3>1, <2>1, <2>2, <1>1, <1>3, <1>4, <1>6
    <3>2. CASE ~(burst' > 0)
      <4>1. burst = 1
        BY <3>2, <1>1, <1>3
      <4> QED
        BY <3>2, <4>1, <2>1, <2>2, <1>3, <1>4
    <3> QED
      BY <3>1, <3>2
  <2>3. CASE x # c
    <3>1. Started(x) = taken[x]
      BY <2>3 DEF Started
    <3> QED
      BY <3>1, <2>1, <2>3, <1>6
  <2> QED
    BY <2>2, <2>3
<1> HIDE DEF c, n, top
<1>9. req \in Request /\ req.from = c /\ req.n = n /\ req.sock = UpSock
  BY <1>2, <1>4 DEF Request
<1>10. \A f \in Clients : f = req.from => req.n <= Started(f)'
  BY <1>4, <1>8, <1>9
<1>11. \A e \in Waiting : ~Same(Asks(e), req)
  <2> SUFFICES ASSUME NEW e \in Waiting, Asks(e).from = c, Asks(e).n = n PROVE FALSE
    BY <1>9 DEF Same
  <2>1. Asks(e).n <= Started(c)
    BY DEF RequestInv
  <2> QED
    BY <2>1, <1>4
<1>12. \A a \in answers : ~Same(a.req, req)
  <2> SUFFICES ASSUME NEW a \in answers, a.req.from = c, a.req.n = n PROVE FALSE
    BY <1>9 DEF Same
  <2>1. a.req.n <= Started(c)
    BY DEF RequestInv
  <2> QED
    BY <2>1, <1>4
<1>13. \A x \in Clients : Started(x) <= Started(x)'
  <2> SUFFICES ASSUME NEW x \in Clients PROVE Started(x) <= Started(x)'
    OBVIOUS
  <2>1. Started(x) \in Int
    BY StartedType
  <2> QED
    BY <2>1, <1>4, <1>8
<1> HIDE DEF req
<1>14. handle[req.sock] = req.from
  BY <1>9 DEF c
<1>15. Takes(top, req)
  BY <1>1, <1>5, <1>9, <1>10, <1>11, <1>12, <1>13, <1>14 DEF Takes
<1> QED
  BY <1>15 DEF top, req, n, c

\* A coroutine that is resumed goes on with its request.
LEMMA ResumeTakes ==
  ASSUME PoolInv, SockInv, CountInv, RequestInv, NEW m \in inbox, Resume(m)
  PROVE  Takes(m.id, co[m.id].call.req)
<1> DEFINE c == m.id
           req == co[m.id].call.req
<1>1. status = "run" /\ UNCHANGED <<link, asked, taken, handle, burst>>
  BY DEF Resume
<1>2. c \in Co /\ c \in Waiting
  BY <1>1, ResumedFacts
<1>3. burst = 0
  BY DEF SockInv
<1>4. \A x \in Clients : Started(x)' = taken[x] /\ Started(x) = taken[x] /\ taken[x] \in Nat
  BY <1>1, <1>3, StartedType DEF Started
<1>5. req = Asks(c)
  BY DEF Asks
<1> HIDE DEF c, req
<1>6. /\ req \in Request /\ req.n <= Started(req.from)
      /\ handle[req.sock] = req.from \/ link[req.from] = "closed"
  BY <1>2, <1>5 DEF RequestInv
<1>7. req.from \in Clients
  BY <1>6 DEF Request
<1>8. \A e \in Waiting : e # c => ~Same(Asks(e), req)
  BY <1>2, <1>5 DEF RequestInv, Same
<1>9. \A a \in answers : ~Same(a.req, req)
  BY <1>2, <1>5 DEF RequestInv, AnsweredOnce, Same, Asks
<1>10. \A f \in Clients : f = req.from => req.n <= Started(f)'
  BY <1>4, <1>6
<1>11. \A x \in Clients : Started(x) <= Started(x)'
  BY <1>4
<1>12. Takes(c, req)
  BY <1>1, <1>2, <1>6, <1>8, <1>9, <1>10, <1>11 DEF Takes
<1> QED
  BY <1>12 DEF c, req
\* Requests and answers through a step of anyone.
LEMMA RequestInvNext ==
  ASSUME PoolInv, SockInv, SockInv', CountInv, CountInv', RequestInv, [Next]_vars
  PROVE  RequestInv'
<1>1. ASSUME UNCHANGED <<answers, co, taken, burst, slot, socks, handle>>,
             \A c \in Clients : link[c] = "closed" => link'[c] = "closed"
      PROVE  RequestInv'
  <2>1. \A c \in Clients : Started(c)' = Started(c)
    BY <1>1 DEF Started, UpSock
  <2> QED
    BY <1>1, <2>1, RequestInvKeep
<1>2. ASSUME UNCHANGED <<answers, co, taken, burst>>, burst = 0,
             \A c \in Clients : link[c] = "closed" => link'[c] = "closed",
             \A h \in Handles : handle[h] \in Clients /\ handle'[h] # handle[h]
                                  => link'[handle[h]] = "closed"
      PROVE  RequestInv'
  <2>1. \A c \in Clients : Started(c)' = Started(c)
    BY <1>2 DEF Started
  <2> QED
    BY <1>2, <2>1, RequestInvKeep
<1>3. ASSUME NEW c \in Clients, Connect(c) \/ Ask(c) \/ Close(c) PROVE RequestInv'
  <2>1. UNCHANGED <<answers, co, taken, burst, slot, socks, handle>>
    BY <1>3 DEF Connect, Ask, Close, coVars, roundVars
  <2>2. \A e \in Clients : link[e] = "closed" => link'[e] = "closed"
    BY <1>3 DEF Connect, Ask, Close, SockInv
  <2> QED
    BY <1>1, <2>1, <2>2
<1>4. ASSUME NEW d \in Deps, NEW m \in reqs[d], Serve(d, m) PROVE RequestInv'
  BY <1>1, <1>4 DEF Serve, coVars, roundVars
<1>5. CASE Poll \/ RecvDown \/ Disable
  <2>1. UNCHANGED <<answers, co, taken, burst, handle, link>>
    BY <1>5 DEF Poll, RecvDown, Disable, netVars, coVars
  <2>2. pc = "poll" \/ burst = 0
    BY <1>5 DEF Poll, RecvDown, Disable, Upstream, Scanning
  <2>3. burst = 0
    BY <2>2 DEF SockInv
  <2> QED
    BY <1>2, <2>1, <2>3
<1>6. CASE CloseUp
  <2> DEFINE h == UpSock
  <2>1. /\ UNCHANGED <<answers, co, taken, burst, link>> /\ burst = 0
        /\ pc = "scan" /\ NDeps < slot /\ slot < npoll
        /\ link[handle[h]] = "closed" /\ handle' = [handle EXCEPT ![h] = None]
    BY <1>6 DEF CloseUp, Upstream, Scanning, netVars, coVars
  <2>2. h \in Handles
    BY <2>1, UpSockFacts
  <2> HIDE DEF h
  <2>3. \A g \in Handles : handle'[g] # handle[g] => g = h
    BY <2>1, <2>2 DEF SockInv
  <2> QED
    BY <1>2, <2>1, <2>3
<1>7. CASE Accept
  <2>1. UNCHANGED <<answers, co, taken, burst>> /\ burst = 0
    BY <1>7 DEF Accept, RoundDone, Scanning, coVars
  <2>2. CASE UNCHANGED <<link, handle>>
    BY <1>2, <2>1, <2>2
  <2>3. ASSUME NEW c \in Clients, NEW h \in Handles, link[c] = "backlog", handle[h] = None,
               link' = [link EXCEPT ![c] = "open"], handle' = [handle EXCEPT ![h] = c]
        PROVE  RequestInv'
    <3>1. \A e \in Clients : link[e] = "closed" => link'[e] = "closed"
      BY <2>3 DEF SockInv
    <3>2. \A g \in Handles : handle'[g] # handle[g] => g = h
      BY <2>3 DEF SockInv
    <3>3. None \notin Clients
      BY AsyncAssumption
    <3> QED
      BY <1>2, <2>1, <2>3, <3>1, <3>2, <3>3
  <2> QED
    BY <1>7, <2>2, <2>3 DEF Accept
<1>8. CASE RecvUp
  <2> DEFINE c == handle[UpSock]
  <2>1. /\ c \in Clients /\ burst = 0 /\ burst' \in Nat \ {0}
        /\ taken' = [taken EXCEPT ![c] = @ + burst'] /\ UNCHANGED <<slot, socks, handle>>
    BY <1>8, RecvUpFacts
  <2>2. UNCHANGED <<answers, co, link>> /\ handle'[UpSock'] = c
    BY <1>8, <2>1 DEF RecvUp, coVars, UpSock
  <2> HIDE DEF c
  <2>3. \A e \in Clients : taken[e] \in Nat
    BY AsyncAssumption DEF CountInv
  <2>4. taken'[c] = taken[c] + burst' /\ \A e \in Clients : e # c => taken'[e] = taken[e]
    BY <2>1 DEF CountInv
  <2>5. ASSUME NEW e \in Clients PROVE Started(e)' = Started(e)
    <3>1. Started(e) = taken[e]
      BY <2>1 DEF Started
    <3>2. Started(e)' = IF burst' > 0 /\ e = c THEN taken'[e] - burst' ELSE taken'[e]
      BY <2>2 DEF Started
    <3> QED
      BY <3>1, <3>2, <2>1, <2>3, <2>4
  <2> QED
    BY <2>1, <2>2, <2>5, RequestInvKeep
<1>9. CASE Start
  <2> DEFINE req == [from |-> handle[UpSock], n |-> Current(handle[UpSock]), sock |-> UpSock]
             top == avail[Len(avail)]
  <2>1. Takes(top, req)
    BY <1>9, StartTakes
  <2>2. Run(top, req, 0, Popped)
    BY <1>9 DEF Start
  <2> HIDE DEF req, top
  <2> QED
    BY <2>1, <2>2, RequestInvRun DEF PoolInv
<1>10. ASSUME NEW m \in inbox, Resume(m) PROVE RequestInv'
  <2> DEFINE req == co[m.id].call.req
             k == co[m.id].call.k
  <2>1. Takes(m.id, req)
    BY <1>10, ResumeTakes
  <2>2. Run(m.id, req, k, avail)
    BY <1>10 DEF Resume, Resumed
  <2> HIDE DEF req, k
  <2> QED
    BY <2>1, <2>2, RequestInvRun DEF PoolInv
<1>11. CASE Overrun \/ LoseDown
  BY <1>1, <1>11 DEF Overrun, LoseDown, netVars, coVars, roundVars
<1>12. CASE UNCHANGED vars
  BY <1>1, <1>12 DEF vars, netVars, coVars, roundVars
<1>13. ASSUME NEW d \in Deps, Quit(d) PROVE RequestInv'
  BY <1>1, <1>13 DEF Quit, coVars, roundVars
<1> QED
  BY <1>3, <1>4, <1>5, <1>6, <1>7, <1>8, <1>9, <1>10, <1>11, <1>12, <1>13 DEF Next, run_service

\* Nothing is asked or answered at the start.
LEMMA RequestInvInit == Init => RequestInv
<1> SUFFICES ASSUME Init PROVE RequestInv
  OBVIOUS
<1>1. Waiting = {} /\ answers = {}
  BY DEF Init, Waiting, Idle
<1> QED
  BY <1>1 DEF RequestInv, AnsweredOnce

\* The three parts of the invariant, together with the pool's, are inductive.
THEOREM RequestInvariant == Spec => [](PoolInv /\ SockInv /\ CountInv /\ RequestInv)
<1>1. Init => PoolInv /\ SockInv /\ CountInv /\ RequestInv
  BY PoolInvInit, SockInvInit, CountInvInit, RequestInvInit
<1>2. PoolInv /\ SockInv /\ CountInv /\ RequestInv /\ [Next]_vars
        => (PoolInv /\ SockInv /\ CountInv /\ RequestInv)'
  BY PoolInvNext, SockInvNext, CountInvNext, RequestInvNext
<1> QED
  BY <1>1, <1>2, PTL DEF Spec

\* However the requests of a bulk, their calls and the responses interleave, a
\* request gets one answer, and only if it was received (service_async.h:202).
THEOREM RequestsAnsweredOnce == Spec => []AnsweredOnce
<1>1. RequestInv => AnsweredOnce
  BY DEF RequestInv
<1> QED
  BY <1>1, RequestInvariant, PTL
-----------------------------------------------------------------------------
(* Why the service exits *)

\* The requests received and not answered.
Open == {r \in Clients \X (1 .. MaxAsked) : r[2] <= taken[r[1]] /\ r[2] \notin Answered(r[1])}

\* The size of a range of requests.
LEMMA RangeSize ==
  ASSUME NEW n \in Nat PROVE IsFiniteSet(1 .. n) /\ Cardinality(1 .. n) = n
<1>1. /\ IsFiniteSet(1 .. n)
      /\ Cardinality(1 .. n) = IF 1 > n THEN 0 ELSE n - 1 + 1
  BY FS_Interval
<1> QED
  BY <1>1

\* The answers of a client are answers to requests it sent.
LEMMA AnsweredBound ==
  ASSUME SockInv, CountInv, RequestInv, NEW c \in Clients
  PROVE  /\ Answered(c) \subseteq 1 .. asked[c] /\ asked[c] \in Nat
         /\ IsFiniteSet(1 .. asked[c]) /\ Cardinality(1 .. asked[c]) = asked[c]
         /\ IsFiniteSet(Answered(c)) /\ Cardinality(Answered(c)) \in Nat
<1>1. asked[c] \in Nat /\ taken[c] \in Nat /\ taken[c] <= asked[c]
  BY AsyncAssumption DEF CountInv
<1>2. ASSUME NEW a \in answers, a.req.from = c PROVE a.req.n \in 1 .. asked[c]
  <2>1. a.req.n \in 1 .. MaxAsked
    BY DEF RequestInv, Request
  <2>2. a.req.n <= taken[c]
    BY <1>2 DEF RequestInv, AnsweredOnce
  <2> QED
    BY <1>1, <2>1, <2>2
<1>3. Answered(c) \subseteq 1 .. asked[c]
  BY <1>2 DEF Answered
<1>4. IsFiniteSet(1 .. asked[c]) /\ Cardinality(1 .. asked[c]) = asked[c]
  BY <1>1, RangeSize
<1> QED
  BY <1>1, <1>3, <1>4, FS_Subset, FS_CardinalityType

\* When a received request finds no coroutine (service_async.h:196), there is
\* an unanswered one for each coroutine, and this one.
LEMMA OverrunCause ==
  ASSUME PoolInv, SockInv, CountInv, RequestInv, status = "run", burst > 0, avail = << >>
  PROVE  Cardinality(Open) > MaxCo
<1> DEFINE h == handle[UpSock]
           x == <<h, taken[h] - burst + 1>>
           f == [c \in Co |-> <<Asks(c).from, Asks(c).n>>]
<1>1. Waiting = Co
  <2>1. Elems(avail) = Co \ Waiting
    BY AccountedFacts DEF PoolInv
  <2>2. Elems(avail) = {}
    BY EmptySeq DEF Elems
  <2> QED
    BY <2>1, <2>2 DEF Waiting
<1>2. h \in Clients
  BY UpSockFacts DEF SockInv
<1>3. /\ taken[h] \in Nat /\ taken[h] <= MaxAsked /\ MaxAsked \in Nat /\ MaxCo \in Nat
      /\ burst \in Nat /\ burst <= taken[h]
  BY <1>2, AsyncAssumption DEF CountInv, SockInv
<1>4. Started(h) = taken[h] - burst
  BY DEF Started
<1>5. x \in Open
  <2>1. taken[h] - burst + 1 \in 1 .. MaxAsked /\ taken[h] - burst + 1 <= taken[h]
    BY <1>3
  <2>2. ASSUME NEW a \in answers, a.req.from = h PROVE a.req.n # taken[h] - burst + 1
    <3>1. a.req.n <= taken[h] - burst /\ a.req.n \in Int
      BY <2>2, <1>4 DEF RequestInv, Request
    <3> QED
      BY <3>1, <1>3
  <2>3. taken[h] - burst + 1 \notin Answered(h)
    BY <2>2 DEF Answered
  <2> HIDE DEF h
  <2> QED
    BY <1>2, <2>1, <2>3 DEF Open
<1>6. ASSUME NEW c \in Co PROVE f[c] \in Open \ {x}
  <2> DEFINE r == Asks(c)
  <2>1. r \in Request /\ r.n <= Started(r.from)
    BY <1>1 DEF RequestInv
  <2>2. r.from \in Clients /\ r.n \in 1 .. MaxAsked
    BY <2>1 DEF Request
  <2>3. Started(r.from) \in Int /\ Started(r.from) <= taken[r.from] /\ taken[r.from] \in Nat
    BY <2>2, StartedType
  <2>4. \A a \in answers : ~(a.req.from = r.from /\ a.req.n = r.n)
    BY <1>1 DEF RequestInv, AnsweredOnce, Asks
  <2> HIDE DEF r, h
  <2>5. r.n <= taken[r.from]
    BY <2>1, <2>2, <2>3
  <2>6. r.n \notin Answered(r.from)
    BY <2>4 DEF Answered
  <2>7. <<r.from, r.n>> \in Open
    BY <2>2, <2>5, <2>6 DEF Open
  <2>8. r.from = h => r.n # taken[h] - burst + 1
    BY <2>1, <2>2, <1>3, <1>4
  <2> QED
    BY <2>7, <2>8 DEF r
<1>7. \A c, e \in Co : f[c] = f[e] => c = e
  BY <1>1 DEF RequestInv
<1> HIDE DEF f, x
<1>8. f \in Injection(Co, Open \ {x})
  BY <1>6, <1>7 DEF f, Injection, IsInjective
<1>9. IsFiniteSet(Open)
  <2>1. IsFiniteSet(Clients) /\ IsFiniteSet(1 .. MaxAsked)
    BY AsyncAssumption, FS_Interval
  <2>2. IsFiniteSet(Clients \X (1 .. MaxAsked))
    BY <2>1, FS_Product
  <2>3. Open \in SUBSET (Clients \X (1 .. MaxAsked))
    BY DEF Open
  <2> QED
    BY <2>2, <2>3, FS_Subset
<1>10. /\ IsFiniteSet(Open \ {x}) /\ Cardinality(Open \ {x}) = Cardinality(Open) - 1
       /\ Cardinality(Open) \in Nat
  BY <1>5, <1>9, FS_RemoveElement, FS_CardinalityType
<1>11. Cardinality(Co) <= Cardinality(Open \ {x})
  BY <1>8, <1>10, FS_Injection
<1>12. Cardinality(Co) = MaxCo
  BY <1>3, FS_Interval DEF Co
<1> QED
  BY <1>3, <1>10, <1>11, <1>12

\* When a response cannot be sent (service_async.h:49), the client closed with
\* this request unanswered.
LEMMA FailSendCause ==
  ASSUME SockInv, SockInv', CountInv, CountInv', RequestInv,
         NEW c, NEW req, Takes(c, req), FailSend(req)
  PROVE  /\ req.from \in Clients /\ link[req.from] = "closed"
         /\ req.n \in 1 .. asked[req.from] /\ req.n \notin Answered(req.from)
         /\ asked[req.from] > Cardinality(Answered(req.from))
<1> DEFINE f == req.from
<1>1. /\ req \in Request /\ f \in Clients /\ req.n \in 1 .. MaxAsked /\ req.sock \in Handles
      /\ handle[req.sock] = f \/ link[f] = "closed"
      /\ req.n <= Started(f)' /\ taken' = taken
      /\ \A a \in answers : ~Same(a.req, req)
  BY DEF Takes, Request
<1>2. taken[f] \in Nat /\ asked[f] \in Nat /\ taken[f] <= asked[f] /\ burst' \in Nat
  BY <1>1, AsyncAssumption DEF CountInv, SockInv
<1>3. Started(f)' \in Int /\ Started(f)' <= taken[f]
  BY <1>1, <1>2 DEF Started
<1>4. req.n \in 1 .. asked[f]
  BY <1>1, <1>2, <1>3
<1>5. link[f] = "closed"
  <2> SUFFICES ASSUME handle[req.sock] = f PROVE link[f] = "closed"
    BY <1>1
  <2>1. f # None
    BY <1>1, AsyncAssumption
  <2>2. link[f] # "open"
    BY <2>1 DEF FailSend, Sendable, ReplySock
  <2> QED
    BY <2>1, <2>2, <1>1 DEF SockInv
<1>6. req.n \notin Answered(f)
  BY <1>1 DEF Same, Answered
<1>7. asked[f] > Cardinality(Answered(f))
  <2>1. /\ Answered(f) \subseteq 1 .. asked[f] /\ Cardinality(1 .. asked[f]) = asked[f]
        /\ IsFiniteSet(1 .. asked[f]) /\ Cardinality(Answered(f)) \in Nat
    BY <1>1, AnsweredBound
  <2>2. Answered(f) # 1 .. asked[f]
    BY <1>4, <1>6
  <2>3. Cardinality(Answered(f)) <= asked[f] /\ Cardinality(Answered(f)) # asked[f]
    <3> DEFINE A == Answered(f)
               B == 1 .. asked[f]
    <3>1. A \subseteq B /\ IsFiniteSet(B) /\ A # B /\ Cardinality(B) = asked[f]
      BY <2>1, <2>2
    <3> HIDE DEF A, B
    <3>2. Cardinality(A) <= Cardinality(B) /\ Cardinality(A) # Cardinality(B)
      BY <3>1, FS_Subset
    <3> QED
      BY <3>1, <3>2 DEF A
  <2> QED
    BY <2>1, <2>3, <1>2
<1> QED
  BY <1>1, <1>4, <1>5, <1>6, <1>7
\* Once the service has exited it receives and sends nothing, and the clients
\* only go on closing and asking.
LEMMA OutageKeep ==
  ASSUME SockInv, CountInv, RequestInv, CountInv', OutageNeedsCause,
         UNCHANGED <<taken, answers, status>>, lost \subseteq lost',
         LimitReached => LimitReached',
         \A c \in Clients : link[c] = "closed" => link'[c] = "closed",
         \A c \in Clients : asked[c] <= asked'[c]
  PROVE  OutageNeedsCause'
<1>1. \A c \in Clients : Answered(c)' = Answered(c)
  BY DEF Answered
<1>2. Open' = Open
  BY <1>1 DEF Open
<1>3. status' = "overrun" => Cardinality(Open') > MaxCo
  BY <1>2 DEF OutageNeedsCause, Open
<1>4. ASSUME status = "send error"
      PROVE  \E c \in Clients : link'[c] = "closed" /\ asked'[c] > Cardinality(Answered(c)')
  <2>1. PICK c \in Clients : link[c] = "closed" /\ asked[c] > Cardinality(Answered(c))
    BY <1>4 DEF OutageNeedsCause
  <2>2. asked[c] \in Nat /\ asked'[c] \in Nat /\ asked[c] <= asked'[c]
    BY AsyncAssumption DEF CountInv
  <2>3. Cardinality(Answered(c)) \in Nat
    BY AnsweredBound
  <2> DEFINE n == Cardinality(Answered(c))
  <2>4. Cardinality(Answered(c)') = n
    BY <1>1
  <2> HIDE DEF n
  <2>5. asked'[c] > n
    BY <2>1, <2>2, <2>3 DEF n
  <2> QED
    BY <2>1, <2>4, <2>5
<1>5. OutageNeedsCause' <=>
        /\ status' = "overrun" => Cardinality(Open') > MaxCo
        /\ status' = "send error" =>
             \E c \in Clients : link'[c] = "closed" /\ asked'[c] > Cardinality(Answered(c)')
        /\ status' = "dependency lost" => lost' # {}
        /\ status' = "max connections" => LimitReached'
  BY DEF OutageNeedsCause, Open
<1>6. /\ status = "dependency lost" => lost' # {}
      /\ status = "max connections" => LimitReached'
  BY DEF OutageNeedsCause
<1> QED
  BY <1>3, <1>4, <1>5, <1>6

\* The coroutine that runs, and the request it runs on.
LEMMA RunOn ==
  ASSUME PoolInv, SockInv, CountInv, RequestInv, Start \/ (\E m \in inbox : Resume(m))
  PROVE  \E c, req, k, av : Takes(c, req) /\ Run(c, req, k, av)
<1>1. CASE Start
  <2>1. Takes(avail[Len(avail)],
              [from |-> handle[UpSock], n |-> Current(handle[UpSock]), sock |-> UpSock])
    BY <1>1, StartTakes
  <2> QED
    BY <1>1, <2>1 DEF Start
<1>2. ASSUME NEW m \in inbox, Resume(m)
      PROVE  \E c, req, k, av : Takes(c, req) /\ Run(c, req, k, av)
  <2>1. Takes(m.id, co[m.id].call.req)
    BY <1>2, ResumeTakes
  <2> QED
    BY <1>2, <2>1 DEF Resume, Resumed
<1> QED
  BY <1>1, <1>2

\* A patient client that has closed has nothing outstanding: what is answered
\* after that is another's.
PatientDone == Patient => \A c \in Clients : link[c] = "closed" => Answered(c) = 1 .. asked[c]

\* The same, after a step that sends nothing.
LEMMA PatientKeep ==
  ASSUME PatientDone, answers' = answers,
         \A c \in Clients : link'[c] = "closed" => link[c] = "closed" /\ asked'[c] = asked[c]
  PROVE  PatientDone'
<1>1. \A c \in Clients : Answered(c)' = Answered(c)
  BY DEF Answered
<1> QED
  BY <1>1 DEF PatientDone

\* Patient clients through a step of anyone.
LEMMA PatientNext ==
  ASSUME PoolInv, SockInv, SockInv', CountInv, CountInv', RequestInv, PatientDone, [Next]_vars
  PROVE  PatientDone'
<1>1. ASSUME UNCHANGED <<answers, link, asked>> PROVE PatientDone'
  BY <1>1, PatientKeep
<1>2. ASSUME NEW c \in Clients, Connect(c) \/ Ask(c) PROVE PatientDone'
  <2>1. answers' = answers
    BY <1>2 DEF Connect, Ask
  <2>2. \A e \in Clients : link'[e] = "closed" => link[e] = "closed" /\ asked'[e] = asked[e]
    BY <1>2 DEF Connect, Ask, SockInv, CountInv
  <2> QED
    BY <2>1, <2>2, PatientKeep
<1>3. ASSUME NEW c \in Clients, Close(c) PROVE PatientDone'
  <2>1. /\ UNCHANGED <<answers, asked>> /\ link' = [link EXCEPT ![c] = "closed"]
        /\ Patient => Cardinality(Answered(c)) = asked[c]
    BY <1>3 DEF Close
  <2>2. \A e \in Clients : e # c => link'[e] = link[e]
    BY <2>1 DEF SockInv
  <2>3. \A e \in Clients : Answered(e)' = Answered(e)
    BY <2>1 DEF Answered
  <2>4. Patient => Answered(c) = 1 .. asked[c]
    BY <2>1, AnsweredBound, FS_Subset
  <2>5. ASSUME Patient, NEW e \in Clients, link'[e] = "closed"
        PROVE  Answered(e)' = 1 .. asked'[e]
    BY <2>1, <2>2, <2>3, <2>4, <2>5 DEF PatientDone
  <2> QED
    BY <2>5 DEF PatientDone
<1>4. CASE Accept
  <2>1. UNCHANGED <<answers, asked>>
    BY <1>4 DEF Accept
  <2>2. link' = link \/ \E c \in Clients : link' = [link EXCEPT ![c] = "open"]
    BY <1>4 DEF Accept
  <2>3. \A e \in Clients : link'[e] = "closed" => link[e] = "closed"
    BY <2>2 DEF SockInv
  <2> QED
    BY <2>1, <2>3, PatientKeep
<1>5. CASE Start \/ (\E m \in inbox : Resume(m))
  <2>1. PICK c, req, k, av : Takes(c, req) /\ Run(c, req, k, av)
    BY <1>5, RunOn
  <2>2. UNCHANGED <<link, asked>>
    BY <2>1 DEF Takes
  <2>3. CASE DoRpc(c, req, k, av) \/ FailRpc(k) \/ FailSend(req)
    BY <1>1, <2>2, <2>3 DEF DoRpc, FailRpc, FailSend
  <2>4. CASE Finish(c, req, av)
    <3> DEFINE ans == [to |-> handle[ReplySock(req)], req |-> req]
    <3>1. answers' = answers \cup {ans} /\ ans.req = req
      BY <2>4 DEF Finish
    <3> HIDE DEF ans
    <3>2. ASSUME Patient, NEW e \in Clients, link[e] = "closed"
          PROVE  Answered(e)' = 1 .. asked[e]
      <4>1. Answered(e) = 1 .. asked[e]
        BY <3>2 DEF PatientDone
      <4>2. req.from # e
        <5> SUFFICES ASSUME req.from = e PROVE FALSE
          OBVIOUS
        <5>1. req.n \in 1 .. MaxAsked /\ req.n <= Started(e)' /\ taken' = taken
          BY <2>1 DEF Takes, Request
        <5>2. taken[e] \in Nat /\ asked[e] \in Nat /\ taken[e] <= asked[e] /\ burst' \in Nat
          BY AsyncAssumption DEF CountInv, SockInv
        <5>3. Started(e)' \in Int /\ Started(e)' <= taken[e]
          BY <5>1, <5>2 DEF Started
        <5>4. req.n \in 1 .. asked[e]
          BY <5>1, <5>2, <5>3
        <5>5. req.n \notin Answered(e)
          BY <2>1 DEF Takes, Same, Answered
        <5> QED
          BY <4>1, <5>4, <5>5
      <4>3. \A a : a \in answers' /\ a.req.from = e <=> a \in answers /\ a.req.from = e
        BY <3>1, <4>2
      <4>4. Answered(e)' = Answered(e)
        BY <4>3 DEF Answered
      <4> QED
        BY <4>1, <4>4
    <3> QED
      BY <2>2, <3>2 DEF PatientDone
  <2> QED
    BY <2>1, <2>3, <2>4 DEF Run
<1>6. ASSUME NEW d \in Deps, NEW m \in reqs[d], Serve(d, m) PROVE PatientDone'
  BY <1>1, <1>6 DEF Serve
<1>7. CASE Poll \/ RecvDown \/ LoseDown \/ Disable \/ CloseUp \/ RecvUp \/ Overrun
  BY <1>1, <1>7 DEF Poll, RecvDown, LoseDown, Disable, CloseUp, RecvUp, Overrun, netVars
<1>8. CASE UNCHANGED vars
  BY <1>1, <1>8 DEF vars, netVars
<1>9. ASSUME NEW d \in Deps, Quit(d) PROVE PatientDone'
  BY <1>1, <1>9 DEF Quit
<1> QED
  BY <1>2, <1>3, <1>4, <1>5, <1>6, <1>7, <1>8, <1>9 DEF Next, run_service
\* With HTTP, a request is received only when there is a coroutine for it
\* (service_async.h:135), and nothing else runs before it is started.
HttpRoom == Http => burst <= 1 /\ (burst > 0 => avail # << >>)

\* That room is there through a step of anyone.
LEMMA HttpNext ==
  ASSUME SockInv, SockInv', CountInv, HttpRoom, [Next]_vars PROVE HttpRoom'
<1>1. ASSUME UNCHANGED <<burst, avail>> PROVE HttpRoom'
  BY <1>1 DEF HttpRoom
<1>2. ASSUME burst' = 0 PROVE HttpRoom'
  BY <1>2 DEF HttpRoom
<1>3. CASE RecvUp
  <2>1. Http => burst' = 1
    BY <1>3, RecvUpFacts
  <2>2. avail' = avail /\ avail # << >>
    BY <1>3 DEF RecvUp, Exhausted, coVars
  <2> QED
    BY <2>1, <2>2 DEF HttpRoom
<1>4. CASE Start
  <2>1. burst > 0 /\ burst' = burst - 1 /\ burst \in Nat
    BY <1>4 DEF Start, SockInv
  <2>2. Http => burst' = 0
    BY <2>1 DEF HttpRoom
  <2> QED
    BY <2>2 DEF HttpRoom
<1>5. ASSUME NEW m \in inbox, Resume(m) PROVE HttpRoom'
  <2>1. burst = 0 /\ burst' = burst
    BY <1>5 DEF Resume, SockInv
  <2> QED
    BY <1>2, <2>1
<1>6. ASSUME NEW c \in Clients, Connect(c) \/ Ask(c) \/ Close(c) PROVE HttpRoom'
  BY <1>1, <1>6 DEF Connect, Ask, Close, coVars, roundVars
<1>7. ASSUME NEW d \in Deps, NEW m \in reqs[d], Serve(d, m) PROVE HttpRoom'
  BY <1>1, <1>7 DEF Serve, coVars, roundVars
<1>8. CASE Poll \/ RecvDown \/ LoseDown \/ Disable \/ CloseUp \/ Overrun \/ Accept
  BY <1>1, <1>8 DEF Poll, RecvDown, LoseDown, Disable, CloseUp, Overrun, Accept, coVars, roundVars
<1>9. CASE UNCHANGED vars
  BY <1>1, <1>9 DEF vars, coVars, roundVars
<1>10. ASSUME NEW d \in Deps, Quit(d) PROVE HttpRoom'
  BY <1>1, <1>10 DEF Quit, coVars, roundVars
<1> QED
  BY <1>3, <1>4, <1>5, <1>6, <1>7, <1>8, <1>9, <1>10 DEF Next, run_service

\* A patient client's answers are its own: another client would get them only
\* after the asker closed, and a patient one closes with nothing unanswered.
PatientTold == Patient => \A a \in answers : a.to = a.req.from

\* That holds through a step of anyone.
LEMMA ToldNext ==
  ASSUME PoolInv, SockInv, SockInv', CountInv, CountInv', RequestInv, PatientDone, PatientTold,
         [Next]_vars
  PROVE  PatientTold'
<1>1. ASSUME UNCHANGED answers PROVE PatientTold'
  BY <1>1 DEF PatientTold
<1>2. CASE Start \/ (\E m \in inbox : Resume(m))
  <2>1. PICK c, req, k, av : Takes(c, req) /\ Run(c, req, k, av)
    BY <1>2, RunOn
  <2>2. CASE DoRpc(c, req, k, av) \/ FailRpc(k) \/ FailSend(req)
    BY <1>1, <2>2 DEF DoRpc, FailRpc, FailSend
  <2>3. CASE Finish(c, req, av)
    <3> DEFINE ans == [to |-> handle[req.sock], req |-> req]
               e == req.from
    <3>1. answers' = answers \cup {ans} /\ ans.req = req /\ ans.to = handle[req.sock]
      BY <2>3 DEF Finish, ReplySock
    <3>2. /\ e \in Clients /\ req.n \in 1 .. MaxAsked /\ req.n <= Started(e)' /\ taken' = taken
          /\ handle[req.sock] = e \/ link[e] = "closed"
          /\ \A a \in answers : ~Same(a.req, req)
      BY <2>1 DEF Takes, Request
    <3>3. taken[e] \in Nat /\ asked[e] \in Nat /\ taken[e] <= asked[e] /\ burst' \in Nat
      BY <3>2, AsyncAssumption DEF CountInv, SockInv
    <3>4. Started(e)' \in Int /\ Started(e)' <= taken[e]
      BY <3>2, <3>3 DEF Started
    <3>5. req.n \in 1 .. asked[e]
      BY <3>2, <3>3, <3>4
    <3>6. req.n \notin Answered(e)
      BY <3>2 DEF Same, Answered
    <3> HIDE DEF ans
    <3>7. Patient => handle[req.sock] = e
      BY <3>2, <3>5, <3>6 DEF PatientDone
    <3> QED
      BY <3>1, <3>7 DEF PatientTold
  <2> QED
    BY <2>1, <2>2, <2>3 DEF Run
<1>3. ASSUME NEW c \in Clients, Connect(c) \/ Ask(c) \/ Close(c) PROVE PatientTold'
  BY <1>1, <1>3 DEF Connect, Ask, Close
<1>4. ASSUME NEW d \in Deps, Quit(d) \/ (\E m \in reqs[d] : Serve(d, m)) PROVE PatientTold'
  BY <1>1, <1>4 DEF Quit, Serve
<1>5. CASE Poll \/ RecvDown \/ LoseDown \/ Disable \/ CloseUp \/ RecvUp \/ Overrun \/ Accept
  BY <1>1, <1>5 DEF Poll, RecvDown, LoseDown, Disable, CloseUp, RecvUp, Overrun, Accept, netVars
<1>6. CASE UNCHANGED vars
  BY <1>1, <1>6 DEF vars, netVars
<1> QED
  BY <1>2, <1>3, <1>4, <1>5, <1>6 DEF Next, run_service

\* A connection that poll saw is in the backlog until the end of the round.
Backlogged == pc = "scan" /\ ready[0] => \E c \in Clients : link[c] = "backlog"

\* Nothing but the end of the round takes one.
LEMMA BackloggedNext == ASSUME SockInv, Backlogged, [Next]_vars PROVE Backlogged'
<1>0. 0 \in Slots /\ 0 \notin Deps /\ NDeps \in Nat
  BY AsyncAssumption DEF Slots, Deps
<1>1. ASSUME UNCHANGED <<pc, ready>>,
             \A c \in Clients : link[c] = "backlog" => link'[c] = "backlog"
      PROVE  Backlogged'
  BY <1>1 DEF Backlogged
<1>2. CASE Poll
  <2>1. ready' = Polled(PollCount) /\ link' = link
    BY <1>2 DEF Poll, netVars
  <2>2. Polled(PollCount)[0] => \E c \in Clients : link[c] = "backlog"
    BY <1>0 DEF Polled
  <2> QED
    BY <2>1, <2>2 DEF Backlogged
<1>3. CASE CloseUp
  <2>1. ready' = ShiftReady(slot) /\ UNCHANGED <<pc, link>> /\ NDeps < slot /\ slot \in Nat
    BY <1>3 DEF CloseUp, Upstream, SockInv, netVars
  <2>2. ShiftReady(slot)[0] = ready[0]
    BY <1>0, <2>1 DEF ShiftReady
  <2> QED
    BY <2>1, <2>2 DEF Backlogged
<1>4. CASE Accept
  BY <1>4 DEF Accept, Backlogged
<1>5. ASSUME NEW c \in Clients, Connect(c) \/ Ask(c) \/ Close(c) PROVE Backlogged'
  BY <1>1, <1>5 DEF Connect, Ask, Close, SockInv, roundVars
<1>6. ASSUME NEW d \in Deps, Quit(d) \/ (\E m \in reqs[d] : Serve(d, m)) PROVE Backlogged'
  BY <1>1, <1>6 DEF Quit, Serve, roundVars
<1>7. ASSUME NEW m \in inbox, Resume(m) PROVE Backlogged'
  BY <1>1, <1>7 DEF Resume
<1>8. CASE RecvDown \/ LoseDown \/ Disable \/ RecvUp \/ Start \/ Overrun
  BY <1>1, <1>8 DEF RecvDown, LoseDown, Disable, RecvUp, Start, Overrun, roundVars, netVars
<1>9. CASE UNCHANGED vars
  BY <1>1, <1>9 DEF vars, roundVars, netVars
<1> QED
  BY <1>2, <1>3, <1>4, <1>5, <1>6, <1>7, <1>8, <1>9 DEF Next, run_service

\* What the service may have exited for, and why.
Caused == status \in {"run"} \cup Exits /\ OutageNeedsCause /\ StaysUp


\* A service that runs has given up for nothing.
LEMMA CausedNone == ASSUME status' = "run" PROVE Caused'
BY DEF Caused, OutageNeedsCause, StaysUp

\* The causes through a step of anyone.
LEMMA OutageInvNext ==
  ASSUME PoolInv, SockInv, SockInv', CountInv, CountInv', RequestInv, OutageInv, [Next]_vars
  PROVE  OutageInv'
<1>1. PatientDone' /\ HttpRoom' /\ PatientTold' /\ Backlogged'
  BY PatientNext, HttpNext, ToldNext, BackloggedNext
     DEF OutageInv, PatientDone, HttpRoom, PatientTold, Backlogged
<1>2. SUFFICES Caused'
  BY <1>1 DEF OutageInv, PatientDone, HttpRoom, PatientTold, Backlogged, Caused
<1>3. ASSUME UNCHANGED <<taken, answers, status>>, lost \subseteq lost',
             LimitReached => LimitReached',
             \A c \in Clients : link[c] = "closed" => link'[c] = "closed",
             \A c \in Clients : asked[c] <= asked'[c]
      PROVE  Caused'
  <2>1. OutageNeedsCause'
    BY <1>3, OutageKeep DEF OutageInv
  <2>2. status' \in {"run"} \cup Exits
    BY <1>3 DEF OutageInv
  <2>3. StaysUp'
    BY <1>3 DEF OutageInv, StaysUp
  <2> QED
    BY <2>1, <2>2, <2>3 DEF Caused
<1>4. \A c \in Clients : asked[c] \in Nat
  BY AsyncAssumption DEF CountInv
<1>5. ASSUME NEW c \in Clients, Connect(c) \/ Ask(c) \/ Close(c) PROVE Caused'
  <2>1. UNCHANGED <<taken, answers, status, lost, socks>>
    BY <1>5 DEF Connect, Ask, Close
  <2>2. \A e \in Clients : /\ link[e] = "closed" => link'[e] = "closed"
                           /\ link[e] = "backlog" => link'[e] = "backlog"
    BY <1>5 DEF Connect, Ask, Close, SockInv
  <2>3. \A e \in Clients : asked[e] <= asked'[e]
    BY <1>4, <1>5 DEF Connect, Ask, Close, CountInv
  <2>4. LimitReached => LimitReached'
    BY <2>1, <2>2 DEF LimitReached, Full, NSocks
  <2> QED
    BY <1>3, <2>1, <2>2, <2>3, <2>4
<1>6. ASSUME NEW d \in Deps, Quit(d) \/ (\E m \in reqs[d] : Serve(d, m)) PROVE Caused'
  <2>1. UNCHANGED <<taken, answers, status, link, asked, socks>> /\ lost \subseteq lost'
    BY <1>6 DEF Quit, Serve
  <2>2. LimitReached => LimitReached'
    BY <2>1 DEF LimitReached, Full, NSocks
  <2> QED
    BY <1>3, <1>4, <2>1, <2>2
<1>7. CASE UNCHANGED vars
  <2>1. UNCHANGED <<taken, answers, status, link, asked, lost, socks>>
    BY <1>7 DEF vars, netVars
  <2>2. LimitReached => LimitReached'
    BY <2>1 DEF LimitReached, Full, NSocks
  <2> QED
    BY <1>3, <1>4, <2>1, <2>2
<1>8. CASE Poll \/ RecvDown \/ Disable \/ CloseUp \/ RecvUp
  <2>1. status = "run"
    BY <1>8 DEF Poll, RecvDown, Disable, CloseUp, RecvUp, Upstream, Scanning
  <2>2. status' = status
    BY <1>8 DEF Poll, RecvDown, Disable, CloseUp, RecvUp
  <2> QED
    BY <2>1, <2>2, CausedNone
<1>9. CASE Overrun
  <2>1. /\ status = "run" /\ burst > 0 /\ avail = << >> /\ status' = "overrun"
        /\ UNCHANGED <<taken, answers>>
    BY <1>9 DEF Overrun, Exhausted, netVars
  <2>2. Cardinality(Open) > MaxCo
    BY <2>1, OverrunCause
  <2>3. Open' = Open
    BY <2>1 DEF Open, Answered
  <2>4. OutageNeedsCause'
    BY <2>1, <2>2, <2>3 DEF OutageNeedsCause, Open
  <2>5. ~Http
    BY <2>1 DEF OutageInv
  <2> QED
    BY <2>1, <2>4, <2>5 DEF Caused, StaysUp, Exits
<1>10. CASE Start \/ (\E m \in inbox : Resume(m))
  <2>1. status = "run" /\ lost' = lost
    BY <1>10 DEF Start, Resume
  <2>2. PICK c, req, k, av : Takes(c, req) /\ Run(c, req, k, av)
    BY <1>10, RunOn
  <2>3. CASE DoRpc(c, req, k, av) \/ Finish(c, req, av)
    BY <2>1, <2>3, CausedNone DEF DoRpc, Finish
  <2>4. CASE FailSend(req)
    <3> DEFINE f == req.from
    <3>1. /\ f \in Clients /\ link[f] = "closed" /\ req.n \in 1 .. asked[f]
          /\ req.n \notin Answered(f) /\ asked[f] > Cardinality(Answered(f))
      BY <2>2, <2>4, FailSendCause
    <3>2. status' = "send error" /\ answers' = answers
      BY <2>4 DEF FailSend
    <3>3. UNCHANGED <<link, asked>>
      BY <2>2 DEF Takes
    <3> HIDE DEF f
    <3>4. Answered(f)' = Answered(f)
      BY <3>2 DEF Answered
    <3>5. OutageNeedsCause'
      BY <3>1, <3>2, <3>3, <3>4 DEF OutageNeedsCause
    <3>6. ~Patient
      BY <3>1 DEF OutageInv
    <3> QED
      BY <3>2, <3>5, <3>6 DEF Caused, StaysUp, Exits
  <2>5. CASE FailRpc(k)
    BY <2>1, <2>5 DEF FailRpc, Caused, OutageNeedsCause, StaysUp, Exits
  <2> QED
    BY <2>2, <2>3, <2>4, <2>5 DEF Run
<1>11. CASE LoseDown
  <2>1. status' = "dependency lost" /\ lost' = lost /\ lost # {}
    BY <1>11 DEF LoseDown, netVars
  <2> QED
    BY <2>1 DEF Caused, OutageNeedsCause, StaysUp, Exits
<1>12. CASE Accept
  <2>1. status = "run" /\ pc = "scan"
    BY <1>12 DEF Accept, RoundDone, Scanning
  <2>2. CASE status' = status
    BY <2>1, <2>2, CausedNone
  <2>3. CASE ready[0] /\ Full /\ status' = "max connections" /\ UNCHANGED <<link, socks>>
    <3>1. LimitReached'
      BY <2>1, <2>3 DEF OutageInv, LimitReached, Full, NSocks
    <3> QED
      BY <2>3, <3>1 DEF Caused, OutageNeedsCause, StaysUp, Exits
  <2> QED
    BY <1>12, <2>2, <2>3 DEF Accept
<1> QED
  BY <1>5, <1>6, <1>7, <1>8, <1>9, <1>10, <1>11, <1>12 DEF Next, run_service

\* The service is up at the start, and no client has closed.
LEMMA OutageInvInit == Init => OutageInv
BY DEF Init, OutageInv, OutageNeedsCause, StaysUp

\* The whole invariant of the runtime.
THEOREM AsyncInvariant == Spec => [](PoolInv /\ SockInv /\ CountInv /\ RequestInv /\ OutageInv)
<1> DEFINE Inv == PoolInv /\ SockInv /\ CountInv /\ RequestInv /\ OutageInv
<1>1. Init => Inv
  BY PoolInvInit, SockInvInit, CountInvInit, RequestInvInit, OutageInvInit
<1>2. Inv /\ [Next]_vars => Inv'
  BY PoolInvNext, SockInvNext, CountInvNext, RequestInvNext, OutageInvNext
<1> QED
  BY <1>1, <1>2, PTL DEF Spec

\* Whatever is closed and accepted between a request and its response, the
\* response goes to the client that asked, or, the asker being gone, to the one
\* its socket object was given to; and to the asker always when clients close
\* only with every request answered, although socket objects are given out again
\* (co->up_sock, service_async.h:48).
THEOREM AnswersReachAsker == Spec => []AnswerToAsker
<1>1. RequestInv /\ OutageInv => AnswerToAsker
  BY DEF RequestInv, OutageInv, AnswerToAsker
<1> QED
  BY <1>1, AsyncInvariant, PTL

\* The service exits for lack of coroutines only when the requests it holds
\* outnumber them, whatever the bulks and the interleaving, for a send error only
\* after a client closed before it was answered, for a dependency only when one
\* exited, and for the limit on connections only with a connection too many
\* (service_async.h:49, 81, 196, 361, 389).
THEOREM OutagesHaveCause == Spec => []OutageNeedsCause
<1>1. OutageInv => OutageNeedsCause
  BY DEF OutageInv
<1> QED
  BY <1>1, AsyncInvariant, PTL

\* With HTTP upstream and clients that wait for their answers before they
\* close, no load makes the service exit but a connection beyond the limit
\* (service_async.h:135, 361): what is left is a dependency that exited.
THEOREM HttpServiceStaysUp == Spec => []StaysUp
<1>1. OutageInv => StaysUp
  BY DEF OutageInv
<1> QED
  BY <1>1, AsyncInvariant, PTL

-----------------------------------------------------------------------------
(* No request is dropped *)

\* A request is answered, or with a coroutine.
Kept(c, n) == n \in Answered(c) \/ \E k \in Waiting : Asks(k).from = c /\ Asks(k).n = n

\* A step that starts and ends no handler.
LEMMA NothingDroppedKeep ==
  ASSUME NothingDropped, UNCHANGED <<answers, co>>, status' = "run" => status = "run",
         \A c \in Clients : Started(c)' = Started(c)
  PROVE  NothingDropped'
<1>1. Waiting' = Waiting /\ \A k \in Waiting : Asks(k)' = Asks(k)
  BY DEF Waiting, Asks
<1>2. \A c : Answered(c)' = Answered(c)
  BY DEF Answered
<1> QED
  BY <1>1, <1>2 DEF NothingDropped

\* A coroutine that runs has its request still, or has answered it, unless the
\* service exits.
LEMMA NothingDroppedRun ==
  ASSUME NothingDropped, co = [x \in Co |-> co[x]], status = "run",
         NEW c, NEW req, NEW k, NEW av, Takes(c, req), Run(c, req, k, av),
         c \in Waiting => Asks(c) = req,
         \A x \in Clients : \A n \in 1 .. Started(x)' :
           n \in 1 .. Started(x) \/ (x = req.from /\ n = req.n)
  PROVE  NothingDropped'
<1> SUFFICES ASSUME status' = "run", NEW x \in Clients, NEW n \in 1 .. Started(x)'
             PROVE  Kept(x, n)'
  BY DEF NothingDropped, Kept
<1>1. Kept(x, n) \/ (x = req.from /\ n = req.n)
  BY DEF NothingDropped, Kept
<1>2. c \in Co
  BY DEF Takes
<1>3. ~FailSend(req) /\ ~FailRpc(k)
  BY DEF FailSend, FailRpc
<1>4. /\ \A e \in Waiting : e # c => e \in Waiting' /\ Asks(e)' = Asks(e)
      /\ \A m : m \in Answered(x) => m \in Answered(x)'
      /\ (x = req.from /\ n = req.n) => Kept(x, n)'
  <2>1. CASE DoRpc(c, req, k, av)
    <3>1. PICK d \in Deps : co' = [co EXCEPT ![c] = [st |-> "wait",
                                      call |-> [req |-> req, dep |-> d, k |-> k + 1]]]
      BY <2>1 DEF DoRpc
    <3>2. answers' = answers
      BY <2>1 DEF DoRpc
    <3>3. /\ co'[c].st = "wait" /\ co'[c].call.req = req
          /\ \A e \in Co : e # c => co'[e] = co[e]
      BY <1>2, <3>1
    <3>4. c \in Waiting' /\ Asks(c)' = req
      BY <1>2, <3>3 DEF Waiting, Asks
    <3>5. \A e \in Waiting : e # c => e \in Waiting' /\ Asks(e)' = Asks(e)
      BY <3>3 DEF Waiting, Asks
    <3>6. Answered(x)' = Answered(x)
      BY <3>2 DEF Answered
    <3> QED
      BY <3>4, <3>5, <3>6 DEF Kept
  <2>2. CASE Finish(c, req, av)
    <3> DEFINE ans == [to |-> handle[req.sock], req |-> req]
    <3>1. answers' = answers \cup {ans} /\ co' = [co EXCEPT ![c] = Idle]
      BY <2>2 DEF Finish, ReplySock
    <3>2. ans.req = req
      OBVIOUS
    <3> HIDE DEF ans
    <3>3. \A e \in Waiting : e # c => e \in Waiting' /\ Asks(e)' = Asks(e)
      BY <3>1 DEF Waiting, Asks
    <3>4. \A m : m \in Answered(x) => m \in Answered(x)'
      BY <3>1 DEF Answered
    <3>5. (x = req.from /\ n = req.n) => n \in Answered(x)'
      BY <3>1, <3>2 DEF Answered
    <3> QED
      BY <3>3, <3>4, <3>5 DEF Kept
  <2> QED
    BY <1>3, <2>1, <2>2 DEF Run
<1>5. CASE n \in Answered(x)
  BY <1>4, <1>5 DEF Kept
<1>6. ASSUME NEW e \in Waiting, Asks(e).from = x, Asks(e).n = n PROVE Kept(x, n)'
  <2>1. CASE e = c
    BY <1>4, <1>6, <2>1
  <2>2. CASE e # c
    BY <1>4, <1>6, <2>2 DEF Kept
  <2> QED
    BY <2>1, <2>2
<1> QED
  BY <1>1, <1>4, <1>5, <1>6 DEF Kept

LEMMA NothingDroppedNext ==
  ASSUME PoolInv, SockInv, SockInv', CountInv, RequestInv, NothingDropped, [Next]_vars
  PROVE  NothingDropped'
<1>1. ASSUME UNCHANGED <<answers, co, taken, burst, slot, socks, handle>>,
             status' = "run" => status = "run"
      PROVE  NothingDropped'
  <2>1. \A c \in Clients : Started(c)' = Started(c)
    BY <1>1 DEF Started, UpSock
  <2> QED
    BY <1>1, <2>1, NothingDroppedKeep
<1>2. ASSUME UNCHANGED <<answers, co, taken, burst>>, burst = 0, status = "run"
      PROVE  NothingDropped'
  <2>1. \A c \in Clients : Started(c)' = Started(c)
    BY <1>2 DEF Started
  <2> QED
    BY <1>2, <2>1, NothingDroppedKeep
<1>3. ASSUME NEW c \in Clients, Connect(c) \/ Ask(c) \/ Close(c) PROVE NothingDropped'
  BY <1>1, <1>3 DEF Connect, Ask, Close, coVars, roundVars
<1>4. ASSUME NEW d \in Deps, NEW m \in reqs[d], Serve(d, m) PROVE NothingDropped'
  BY <1>1, <1>4 DEF Serve, coVars, roundVars
<1>5. CASE Poll \/ RecvDown \/ Disable \/ CloseUp \/ Accept
  <2>1. UNCHANGED <<answers, co, taken, burst>> /\ status = "run"
    BY <1>5 DEF Poll, RecvDown, Disable, CloseUp, Accept, RoundDone, Upstream, Scanning, netVars, coVars
  <2>2. pc = "poll" \/ burst = 0
    BY <1>5 DEF Poll, RecvDown, Disable, CloseUp, Accept, RoundDone, Upstream, Scanning
  <2>3. burst = 0
    BY <2>2 DEF SockInv
  <2> QED
    BY <1>2, <2>1, <2>3
<1>6. CASE RecvUp
  <2> DEFINE c == handle[UpSock]
  <2>1. /\ c \in Clients /\ burst = 0 /\ burst' \in Nat \ {0}
        /\ taken' = [taken EXCEPT ![c] = @ + burst'] /\ UNCHANGED <<slot, socks, handle>>
    BY <1>6, RecvUpFacts
  <2>2. UNCHANGED <<answers, co, status>> /\ handle'[UpSock'] = c
    BY <1>6, <2>1 DEF RecvUp, coVars, UpSock
  <2> HIDE DEF c
  <2>3. \A e \in Clients : taken[e] \in Nat
    BY AsyncAssumption DEF CountInv
  <2>4. taken'[c] = taken[c] + burst' /\ \A e \in Clients : e # c => taken'[e] = taken[e]
    BY <2>1 DEF CountInv
  <2>5. ASSUME NEW e \in Clients PROVE Started(e)' = Started(e)
    <3>1. Started(e) = taken[e]
      BY <2>1 DEF Started
    <3>2. Started(e)' = IF burst' > 0 /\ e = c THEN taken'[e] - burst' ELSE taken'[e]
      BY <2>2 DEF Started
    <3> QED
      BY <3>1, <3>2, <2>1, <2>3, <2>4
  <2> QED
    BY <2>2, <2>5, NothingDroppedKeep
<1>7. CASE Start
  <2> DEFINE c == handle[UpSock]
             req == [from |-> c, n |-> Current(c), sock |-> UpSock]
             top == avail[Len(avail)]
  <2>1. Takes(top, req)
    BY <1>7, StartTakes
  <2>2. Run(top, req, 0, Popped) /\ status = "run" /\ burst > 0 /\ avail # << >>
    BY <1>7 DEF Start, Exhausted
  <2>3. top \notin Waiting
    BY <2>2, TopFacts
  <2>4. req.from = c /\ req.n = Current(c)
    OBVIOUS
  <2>5. ASSUME NEW x \in Clients, NEW n \in 1 .. Started(x)'
        PROVE  n \in 1 .. Started(x) \/ (x = c /\ n = Current(c))
    <3>1. /\ burst' = burst - 1 /\ burst \in Nat /\ taken' = taken /\ taken[x] \in Nat
          /\ UNCHANGED <<socks, handle>>
      BY <1>7 DEF Start, SockInv, CountInv
    <3>2. burst' > 0 => UpSock' = UpSock
      BY <1>7, <2>2, <3>1, SockInvRun DEF UpSock
    <3>3. Started(x)' = IF burst' > 0 /\ x = handle[UpSock'] THEN taken[x] - burst' ELSE taken[x]
      BY <3>1 DEF Started
    <3>4. CASE x # c
      BY <3>1, <3>2, <3>3, <3>4 DEF Started
    <3>5. CASE x = c
      <4>1. Started(x) = taken[x] - burst /\ Current(x) = taken[x] - burst + 1
        BY <2>2, <3>5 DEF Started, Current
      <4>2. Started(x)' = taken[x] - (burst - 1)
        <5>1. CASE burst' > 0
          BY <3>1, <3>2, <3>3, <3>5, <5>1
        <5>2. CASE ~(burst' > 0)
          <6>1. burst = 1
            BY <2>2, <3>1, <5>2
          <6> QED
            BY <3>1, <3>3, <5>2, <6>1
        <5> QED
          BY <5>1, <5>2
      <4> HIDE DEF c
      <4> QED
        BY <2>2, <3>1, <3>5, <4>1, <4>2
    <3> QED
      BY <3>4, <3>5
  <2> HIDE DEF req, top, c
  <2> QED
    BY <2>1, <2>2, <2>3, <2>4, <2>5, NothingDroppedRun DEF PoolInv
<1>8. ASSUME NEW m \in inbox, Resume(m) PROVE NothingDropped'
  <2> DEFINE req == co[m.id].call.req
             k == co[m.id].call.k
  <2>1. Takes(m.id, req)
    BY <1>8, ResumeTakes
  <2>2. Run(m.id, req, k, avail) /\ status = "run"
    BY <1>8 DEF Resume, Resumed
  <2>3. Asks(m.id) = req
    BY DEF Asks
  <2>4. \A x \in Clients : Started(x)' = Started(x)
    <3>1. burst = 0 /\ burst' = 0 /\ taken' = taken
      BY <1>8 DEF Resume, SockInv
    <3> QED
      BY <3>1 DEF Started
  <2> HIDE DEF req, k
  <2> QED
    BY <2>1, <2>2, <2>3, <2>4, NothingDroppedRun DEF PoolInv
<1>9. CASE Overrun \/ LoseDown
  BY <1>1, <1>9 DEF Overrun, LoseDown, Scanning, netVars, coVars, roundVars
<1>10. CASE UNCHANGED vars
  BY <1>1, <1>10 DEF vars, netVars, coVars, roundVars
<1>11. ASSUME NEW d \in Deps, Quit(d) PROVE NothingDropped'
  BY <1>1, <1>11 DEF Quit, coVars, roundVars
<1> QED
  BY <1>3, <1>4, <1>5, <1>6, <1>7, <1>8, <1>9, <1>10, <1>11 DEF Next, run_service

\* However bulks of requests, responses of dependencies and closing clients
\* interleave, a request the service has received is with exactly one coroutine
\* until it is answered, and it is answered once (handle_upstream, coroutine_fn).
THEOREM RequestsNeverDropped == Spec => []EachAnsweredOnce
<1>1. Init => NothingDropped
  BY DEF Init, NothingDropped, Started
<1>2. RequestInv => AnsweredOnce
  BY DEF RequestInv
<1>3. /\ PoolInv /\ SockInv /\ CountInv /\ RequestInv
      /\ (PoolInv /\ SockInv /\ CountInv /\ RequestInv)'
      /\ NothingDropped /\ [Next]_vars
      => NothingDropped'
  BY NothingDroppedNext
<1> QED
  BY <1>1, <1>2, <1>3, RequestInvariant, PTL DEF Spec, EachAnsweredOnce

-----------------------------------------------------------------------------
(* Types *)

\* The types the invariants above do not give.
MsgInv ==
  /\ reqs \in [Deps -> SUBSET Msg] /\ resps \in [Deps -> SUBSET Msg] /\ inbox \subseteq Msg
  /\ co \in [Co -> {Idle} \cup [st : {"wait"}, call : Call]]
  /\ disabled \in BOOLEAN
  /\ lost \subseteq Deps
  /\ status \in {"run"} \cup Exits

\* The table of sockets, and the flags of the round.
TableInv ==
  /\ NSocks <= MaxSocks
  /\ pc \in {"poll", "scan"}
  /\ ready \in [Slots -> BOOLEAN]

LEMMA MsgInvInit == Init => MsgInv
<1> SUFFICES ASSUME Init PROVE MsgInv
  OBVIOUS
<1>1. reqs \in [Deps -> SUBSET Msg] /\ resps \in [Deps -> SUBSET Msg] /\ inbox \subseteq Msg
  BY DEF Init
<1>2. co \in [Co -> {Idle} \cup [st : {"wait"}, call : Call]]
  BY DEF Init
<1> QED
  BY <1>1, <1>2 DEF Init, MsgInv, Exits

\* A coroutine that runs leaves calls of requests behind it (do_rpc).
LEMMA MsgInvRun ==
  ASSUME MsgInv, NEW c \in Co, NEW req \in Request, NEW k \in Nat, NEW av, Run(c, req, k, av),
         UNCHANGED <<resps, lost>>, inbox' \subseteq inbox
  PROVE  MsgInv'
<1>1. resps' \in [Deps -> SUBSET Msg] /\ inbox' \subseteq Msg /\ lost' \subseteq Deps
  BY DEF MsgInv
<1>2. CASE DoRpc(c, req, k, av)
  <2>1. PICK d \in Deps :
          LET call == [req |-> req, dep |-> d, k |-> k + 1]
          IN /\ reqs' = [reqs EXCEPT ![d] = @ \cup {[id |-> c, call |-> call]}]
             /\ co' = [co EXCEPT ![c] = [st |-> "wait", call |-> call]]
    BY <1>2 DEF DoRpc
  <2> DEFINE call == [req |-> req, dep |-> d, k |-> k + 1]
  <2>2. k + 1 \in 1 .. MaxCalls
    BY <1>2, AsyncAssumption DEF DoRpc
  <2>3. call \in Call
    BY <2>2 DEF Call
  <2>4. reqs' = [reqs EXCEPT ![d] = @ \cup {[id |-> c, call |-> call]}]
    BY <2>1
  <2>5. co' = [co EXCEPT ![c] = [st |-> "wait", call |-> call]]
    BY <2>1
  <2> HIDE DEF call
  <2>6. [id |-> c, call |-> call] \in Msg /\ [st |-> "wait", call |-> call] \in [st : {"wait"}, call : Call]
    BY <2>3 DEF Msg
  <2>7. reqs' \in [Deps -> SUBSET Msg]
    <3> DEFINE m == [id |-> c, call |-> call]
    <3>1. m \in Msg /\ reqs' = [reqs EXCEPT ![d] = @ \cup {m}]
      BY <2>4, <2>6
    <3> HIDE DEF m
    <3> QED
      BY <3>1 DEF MsgInv
  <2>8. co' \in [Co -> {Idle} \cup [st : {"wait"}, call : Call]]
    <3> DEFINE w == [st |-> "wait", call |-> call]
    <3>1. w \in [st : {"wait"}, call : Call] /\ co' = [co EXCEPT ![c] = w]
      BY <2>5, <2>6
    <3> HIDE DEF w
    <3> QED
      BY <3>1 DEF MsgInv
  <2>9. disabled' = disabled /\ status' = status
    BY <1>2 DEF DoRpc
  <2> QED
    BY <1>1, <2>7, <2>8, <2>9 DEF MsgInv
<1>3. CASE Finish(c, req, av)
  <2>1. co' \in [Co -> {Idle} \cup [st : {"wait"}, call : Call]]
    BY <1>3 DEF Finish, MsgInv
  <2>2. disabled' \in BOOLEAN /\ reqs' = reqs /\ status' = status
    BY <1>3 DEF Finish, Release, MsgInv
  <2> QED
    BY <1>1, <2>1, <2>2 DEF MsgInv
<1>4. CASE FailSend(req) \/ FailRpc(k)
  BY <1>1, <1>4 DEF FailSend, FailRpc, MsgInv, Exits, coVars
<1> QED
  BY <1>2, <1>3, <1>4 DEF Run

LEMMA MsgInvNext ==
  ASSUME PoolInv, SockInv, CountInv, RequestInv, MsgInv, [Next]_vars
  PROVE  MsgInv'
<1>1. ASSUME UNCHANGED <<reqs, resps, lost, inbox, co, status>>, disabled' \in BOOLEAN PROVE MsgInv'
  BY <1>1 DEF MsgInv
<1>2. ASSUME NEW d \in Deps, NEW m \in reqs[d], Serve(d, m) PROVE MsgInv'
  <2>1. m \in Msg
    BY DEF MsgInv
  <2> QED
    BY <1>2, <2>1 DEF Serve, MsgInv, coVars, roundVars
<1>3. CASE RecvDown
  <2>1. PICK M \in SUBSET resps[slot] :
          inbox' = M /\ resps' = [resps EXCEPT ![slot] = @ \ M]
    BY <1>3 DEF RecvDown
  <2>2. slot \in Deps
    BY <1>3 DEF RecvDown
  <2>3. M \subseteq Msg /\ resps' \in [Deps -> SUBSET Msg]
    BY <2>1, <2>2 DEF MsgInv
  <2> QED
    BY <1>3, <2>1, <2>3 DEF RecvDown, MsgInv, coVars
<1>4. ASSUME NEW m \in inbox, Resume(m) PROVE MsgInv'
  <2>1. status = "run"
    BY <1>4 DEF Resume
  <2>2. m.id \in Co /\ co[m.id].st = "wait"
    BY <1>4, <2>1, ResumedFacts DEF Waiting
  <2>3. co[m.id] \in [st : {"wait"}, call : Call]
    <3>1. co[m.id] # Idle
      BY <2>2 DEF Idle
    <3> QED
      BY <2>2, <3>1 DEF MsgInv
  <2>4. co[m.id].call.req \in Request /\ co[m.id].call.k \in Nat
    BY <2>3 DEF Call
  <2>5. /\ Run(m.id, co[m.id].call.req, co[m.id].call.k, avail)
        /\ UNCHANGED <<resps, lost>> /\ inbox' \subseteq inbox
    BY <1>4 DEF Resume, Resumed
  <2> QED
    BY <2>2, <2>4, <2>5, MsgInvRun
<1>5. CASE Start
  <2> DEFINE req == [from |-> handle[UpSock], n |-> Current(handle[UpSock]), sock |-> UpSock]
  <2>1. avail[Len(avail)] \in Co /\ req \in Request
    BY <1>5, StartTakes DEF Takes
  <2>2. Run(avail[Len(avail)], req, 0, Popped) /\ UNCHANGED <<resps, lost, inbox>>
    BY <1>5 DEF Start
  <2> HIDE DEF req
  <2> QED
    BY <2>1, <2>2, MsgInvRun
<1>6. CASE Accept
  BY <1>6 DEF Accept, MsgInv, Exits, coVars
<1>7. CASE Overrun \/ LoseDown
  BY <1>7 DEF Overrun, LoseDown, MsgInv, Exits, netVars, coVars, roundVars
<1>8. ASSUME NEW c \in Clients, Connect(c) \/ Ask(c) \/ Close(c) PROVE MsgInv'
  BY <1>1, <1>8 DEF MsgInv, Connect, Ask, Close, coVars, roundVars
<1>9. CASE Poll \/ Disable \/ CloseUp \/ RecvUp
  BY <1>1, <1>9 DEF MsgInv, Poll, Disable, CloseUp, RecvUp, netVars, coVars
<1>10. CASE UNCHANGED vars
  BY <1>1, <1>10 DEF MsgInv, vars, netVars, coVars, roundVars
<1>11. ASSUME NEW d \in Deps, Quit(d) PROVE MsgInv'
  BY <1>11, AsyncAssumption DEF Quit, MsgInv, Deps, coVars, roundVars
<1> QED
  BY <1>2, <1>3, <1>4, <1>5, <1>6, <1>7, <1>8, <1>9, <1>10, <1>11 DEF Next, run_service

LEMMA TableInvInit == Init => TableInv
<1> SUFFICES ASSUME Init PROVE TableInv
  OBVIOUS
<1>1. Len(socks) = 0
  BY DEF Init
<1>2. NSocks <= MaxSocks
  BY <1>1, AsyncAssumption DEF NSocks
<1> QED
  BY <1>2 DEF Init, TableInv

\* The socket taken out of the table makes it one shorter.
LEMMA DroppedLength ==
  ASSUME SockInv, CloseUp
  PROVE  Len(socks') = Len(socks) - 1
<1> DEFINE j == slot - NDeps
           p == SubSeq(socks, 1, j - 1)
           q == SubSeq(socks, j + 1, Len(socks))
<1>1. NDeps \in Nat /\ socks \in Seq(Handles) /\ Len(socks) \in Nat
  BY AsyncAssumption, LenProperties DEF SockInv
<1>2. socks' = p \o q
  BY DEF CloseUp, Dropped
<1>3. j \in 1 .. Len(socks)
  BY <1>1 DEF CloseUp, Upstream, Scanning, SockInv, NSocks
<1>4. p \in Seq(Handles) /\ Len(p) = j - 1
  BY <1>1, <1>3, SubSeqProperties
<1>5. q \in Seq(Handles) /\ Len(q) = Len(socks) - j
  BY <1>1, <1>3, SubSeqProperties
<1> HIDE DEF p, q, j
<1>6. Len(p \o q) = Len(p) + Len(q)
  BY <1>4, <1>5, ConcatProperties
<1> QED
  BY <1>1, <1>2, <1>3, <1>4, <1>5, <1>6

LEMMA TableInvNext == ASSUME SockInv, TableInv, [Next]_vars PROVE TableInv'
<1>1. ASSUME UNCHANGED <<socks, ready>>, pc' \in {"poll", "scan"} PROVE TableInv'
  BY <1>1 DEF TableInv, NSocks
<1>2. /\ NDeps \in Nat /\ MaxSocks \in Nat /\ Len(socks) \in Nat /\ socks \in Seq(Handles)
      /\ NDeps + 1 + Len(socks) <= MaxSocks /\ ready \in [Slots -> BOOLEAN]
  BY AsyncAssumption, LenProperties DEF SockInv, TableInv, NSocks
<1>3. CASE Poll
  <2>1. ready' \in [Slots -> BOOLEAN]
    BY <1>3 DEF Poll, Polled
  <2> QED
    BY <1>2, <1>3, <2>1 DEF Poll, TableInv, NSocks
<1>4. CASE CloseUp
  <2>1. Len(socks') = Len(socks) - 1 /\ pc' = pc
    BY <1>4, DroppedLength DEF CloseUp
  <2>2. ready' = ShiftReady(slot)
    BY <1>4 DEF CloseUp
  <2>3. ASSUME NEW t \in Slots, t < NSocks - 1 PROVE t + 1 \in Slots
    BY <1>2, <2>3 DEF Slots, NSocks
  <2>4. ready' \in [Slots -> BOOLEAN]
    BY <1>2, <2>2, <2>3 DEF ShiftReady
  <2> QED
    BY <1>2, <2>1, <2>4 DEF TableInv, NSocks
<1>5. CASE Accept
  <2>1. pc' = "poll" /\ ready' = ready
    BY <1>5 DEF Accept
  <2>2. NSocks' <= MaxSocks
    <3>1. CASE socks' = socks
      BY <1>2, <3>1 DEF NSocks
    <3>2. ASSUME NEW h \in Handles, socks' = Append(socks, h), ~Full PROVE NSocks' <= MaxSocks
      <4>1. Len(Append(socks, h)) = Len(socks) + 1
        BY <1>2, <3>2, AppendProperties
      <4>2. NDeps + 1 + Len(socks) # MaxSocks /\ Len(socks') = Len(socks) + 1
        BY <3>2, <4>1 DEF Full, NSocks
      <4> QED
        BY <1>2, <4>2 DEF NSocks
    <3> QED
      BY <1>5, <3>1, <3>2 DEF Accept
  <2> QED
    BY <1>2, <2>1, <2>2 DEF TableInv
<1>6. ASSUME NEW c \in Clients, Connect(c) \/ Ask(c) \/ Close(c) PROVE TableInv'
  BY <1>1, <1>6 DEF TableInv, Connect, Ask, Close, roundVars
<1>7. ASSUME NEW d \in Deps, NEW m \in reqs[d], Serve(d, m) PROVE TableInv'
  BY <1>1, <1>7 DEF TableInv, Serve, roundVars
<1>8. ASSUME NEW m \in inbox, Resume(m) PROVE TableInv'
  BY <1>1, <1>8 DEF TableInv, Resume
<1>9. CASE RecvDown \/ LoseDown \/ Disable \/ RecvUp \/ Start \/ Overrun
  BY <1>1, <1>9 DEF TableInv, RecvDown, LoseDown, Disable, RecvUp, Start, Overrun, roundVars
<1>10. CASE UNCHANGED vars
  BY <1>1, <1>10 DEF TableInv, vars, roundVars
<1>11. ASSUME NEW d \in Deps, Quit(d) PROVE TableInv'
  BY <1>1, <1>11 DEF TableInv, Quit, roundVars
<1> QED
  BY <1>3, <1>4, <1>5, <1>6, <1>7, <1>8, <1>9, <1>10, <1>11 DEF Next, run_service

\* Every variable has its type: what is on its way to a dependency and back is a
\* call of a request that a client made, and no round leaves more sockets in the
\* table than it has room for (socks[UNIMSG_MAX_NSOCKS], service_async.h:361).
THEOREM TypeCorrect == Spec => []TypeOK
<1>1. PoolInv /\ SockInv /\ CountInv /\ RequestInv /\ MsgInv /\ TableInv => TypeOK
  BY DEF PoolInv, SockInv, CountInv, RequestInv, MsgInv, TableInv, TypeOK
<1>2. PoolInv /\ SockInv /\ CountInv /\ RequestInv /\ MsgInv /\ [Next]_vars => MsgInv'
  BY MsgInvNext
<1>3. SockInv /\ TableInv /\ [Next]_vars => TableInv'
  BY TableInvNext
<1> QED
  BY <1>1, <1>2, <1>3, MsgInvInit, TableInvInit, RequestInvariant, PTL DEF Spec

=============================================================================
