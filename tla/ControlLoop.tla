---------------------------- MODULE ControlLoop ----------------------------
(***************************************************************************)
(* What the RIC xApps do together: every report of anomalies leads to one  *)
(* handover, and is acknowledged after it and before the next report.      *)
(***************************************************************************)
EXTENDS Naturals

VARIABLES reported, handed, acked

Init == reported = 0 /\ handed = 0 /\ acked = 0

Report == /\ reported = acked
          /\ reported' = reported + 1
          /\ UNCHANGED <<handed, acked>>

Handover == /\ handed < reported
            /\ handed' = handed + 1
            /\ UNCHANGED <<reported, acked>>

Acknowledge == /\ acked < handed
               /\ acked' = acked + 1
               /\ UNCHANGED <<reported, handed>>

Next == Report \/ Handover \/ Acknowledge

Spec == Init /\ [][Next]_<<reported, handed, acked>>
=============================================================================
