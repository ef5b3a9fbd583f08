----------------------------- MODULE AtLeastOnce -----------------------------
(***************************************************************************)
(* What a resumable migration promises: items are delivered to the output  *)
(* first and acknowledged in a ledger afterwards.  Work may be delivered   *)
(* again, an acknowledged item has always been delivered, and an           *)
(* acknowledgement is lost alone or with the whole ledger.                 *)
(***************************************************************************)
CONSTANTS Jobs, Items

VARIABLES delivered, acked

Init == /\ delivered = [j \in Jobs |-> {}]
        /\ acked = [j \in Jobs |-> {}]

Deliver(j, i) == /\ delivered' = [delivered EXCEPT ![j] = @ \cup {i}]
                 /\ UNCHANGED acked

Ack(j, i) == /\ i \in delivered[j]
             /\ acked' = [acked EXCEPT ![j] = @ \cup {i}]
             /\ UNCHANGED delivered

LoseAck(j, i) == /\ acked' = [acked EXCEPT ![j] = @ \ {i}]
                 /\ UNCHANGED delivered

LoseLedger == /\ acked' = [j \in Jobs |-> {}]
              /\ UNCHANGED delivered

Next == \/ \E j \in Jobs, i \in Items : Deliver(j, i) \/ Ack(j, i) \/ LoseAck(j, i)
        \/ LoseLedger

Spec == Init /\ [][Next]_<<delivered, acked>>
=============================================================================
