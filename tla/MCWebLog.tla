------------------------------ MODULE MCWebLog ------------------------------
(* Requests for TLC: log directories of up to three folders with up to two *)
(* files each; up to three files of a graph; the receiver's log.           *)
EXTENDS WebLog

Dirs == {"c0", "c2", "forwarder"}
Names == {"log.txt", "old.txt"}

MCRequests ==
    {[route |-> "machine1", tree |-> t] : t \in UNION {[d -> SUBSET Names] : d \in SUBSET Dirs}}
    \cup {[route |-> "visualization", tree |-> [f \in {"."} |-> names]] :
             names \in SUBSET {"nodes.txt", "edges.txt", "input.json"}}
    \cup {[route |-> "receiver", tree |-> [f \in {"."} |-> {"log.txt"}]]}
=============================================================================
