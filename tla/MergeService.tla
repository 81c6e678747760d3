---------------------------- MODULE MergeService ----------------------------
(***************************************************************************)
(* What the merger of DeepNF promises the receiver of merged packets when  *)
(* every leaf's copy of a packet comes in at most once: a packet is        *)
(* delivered only after all leaves have handed in their copies, and then   *)
(* at most once on behalf of each leaf.  The service may stop; it then     *)
(* stays silent.                                                           *)
(*                                                                         *)
(* "On behalf of a leaf" is the allowance the code needs: the comment on   *)
(* run_merge_packet promises one delivery, but every leaf's thread that    *)
(* sees the packet complete may start one.                                 *)
(***************************************************************************)
CONSTANTS Nodes, Packets

VARIABLES
    arrived,   \* the <<leaf, packet>> pairs that have come in
    delivered, \* packet -> the leaves on whose behalf it was delivered
    stopped    \* the service has died

vars == <<arrived, delivered, stopped>>

Init ==
    /\ arrived = {}
    /\ delivered = [p \in Packets |-> {}]
    /\ stopped = FALSE

AllArrived(p) == \A n \in Nodes : <<n, p>> \in arrived

Arrive(n, p) ==
    /\ ~stopped
    /\ <<n, p>> \notin arrived
    /\ arrived' = arrived \cup {<<n, p>>}
    /\ UNCHANGED <<delivered, stopped>>

Deliver(n, p) ==
    /\ ~stopped
    /\ AllArrived(p)
    /\ n \notin delivered[p]
    /\ delivered' = [delivered EXCEPT ![p] = @ \cup {n}]
    /\ UNCHANGED <<arrived, stopped>>

Stop ==
    /\ ~stopped
    /\ stopped' = TRUE
    /\ UNCHANGED <<arrived, delivered>>

Next ==
    \/ \E n \in Nodes, p \in Packets : Arrive(n, p) \/ Deliver(n, p)
    \/ Stop

Spec == Init /\ [][Next]_vars
=============================================================================
