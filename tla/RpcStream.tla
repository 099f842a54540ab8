----------------------------- MODULE RpcStream -----------------------------
(***************************************************************************)
(* What the receive path of a service promises to its request handler: the *)
(* RPCs of the peer's byte stream, each one whole and once, in the order   *)
(* of the stream, and only after all of its bytes have arrived.            *)
(***************************************************************************)
EXTENDS Integers, Sequences

CONSTANTS StreamLen, Starts, RpcSize

VARIABLES sent,       \* bytes of the stream that have arrived
          delivered   \* the messages passed to the handler, as sequences of bytes

Position == IF delivered = << >> THEN 0
            ELSE LET m == delivered[Len(delivered)] IN m[1] + Len(m)

Init == sent = 0 /\ delivered = << >>

Receive == /\ sent' \in sent + 1 .. StreamLen
           /\ UNCHANGED delivered

DeliverRpc ==
  /\ Position \in Starts
  /\ sent >= Position + RpcSize[Position]
  /\ delivered' = Append(delivered,
                         [i \in 1 .. RpcSize[Position] |-> Position + i - 1])
  /\ UNCHANGED sent

Next == Receive \/ DeliverRpc

Spec == Init /\ [][Next]_<<sent, delivered>>
=============================================================================
