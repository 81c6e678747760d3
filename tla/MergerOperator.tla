--------------------------- MODULE MergerOperator ---------------------------
(***************************************************************************)
(* The merger of DeepNF (src/runtime/merger/MergerOperator.cpp) as a       *)
(* concurrent program: one thread per leaf of the service graph receives   *)
(* that leaf's copies of the packets (run_node_thread); the thread that    *)
(* finds an id complete starts a detached merge thread (run_merge_packet), *)
(* which merges the copies, forgets the id and sends the result.           *)
(*                                                                         *)
(* What one merge computes is the subject of MergePacket; here it is a     *)
(* snapshot of the copies it was given.  The leaves reach the merger over  *)
(* UDP.  A datagram is received at most once and in any order: one that is *)
(* never received was lost, and a second copy of it is a duplicate.        *)
(***************************************************************************)
EXTENDS Naturals, FiniteSets

CONSTANTS
    Nodes,       \* leaf runtime nodes; each has its own port and thread
    Packets,     \* the packets that enter the service graph
    Copies,      \* how often the network may deliver one leaf's packet
    Ids,         \* values of the 16-bit IP identification field
    PktId(_),    \* the id the sender gives a packet
    MaxSockets,  \* file descriptors the process may have open (a bound)
    NoDatagram   \* a null pointer, an empty slot, an absent key

Datagrams == [node : Nodes, pkt : Packets, copy : Copies]

ASSUME NodesAssumption  == IsFiniteSet(Nodes) /\ Nodes # {}
ASSUME IdAssumption     == \A p \in Packets : PktId(p) \in Ids
ASSUME SocketAssumption == MaxSockets \in Nat /\ Cardinality(Nodes) <= MaxSockets
ASSUME NoDatagramAssumption == NoDatagram \notin Datagrams

(***************************************************************************)
(* The environment in which the leaves' datagrams are not duplicated and   *)
(* no id is given to two packets.                                          *)
(***************************************************************************)
AtMostOnce ==
    /\ \A c1, c2 \in Copies : c1 = c2
    /\ \A p1, p2 \in Packets : PktId(p1) = PktId(p2) => p1 = p2

VARIABLES
    received,      \* datagrams that recvfrom has returned
    nodePc,        \* where each leaf's thread is
    current,       \* p: the datagram each leaf's thread is handling
    this_pkt_map,  \* the inner map each leaf's thread points to
    packet_map,    \* id -> inner map, or NoDatagram if the key is absent
    nodeMaps,      \* the inner maps (never freed): node -> its packet
    mergePc,       \* where the merge thread started for a datagram is
    mergeMap,      \* the inner map each merge thread looked up
    merged,        \* the packets each merge thread combined
    sockets,       \* open file descriptors
    crashed        \* the process has exited or died

nodeVars  == <<nodePc, current, this_pkt_map>>
mergeVars == <<mergePc, mergeMap, merged>>
maps      == <<packet_map, nodeMaps>>
vars == <<received, nodePc, current, this_pkt_map, packet_map, nodeMaps,
          mergePc, mergeMap, merged, sockets, crashed>>

(***************************************************************************)
(* An inner map is named by the datagram on whose arrival it was           *)
(* allocated, a merge thread by the datagram whose arrival made the map    *)
(* complete: each datagram does either at most once.                       *)
(***************************************************************************)
MapRefs  == Datagrams \cup {NoDatagram}
NodeMaps == [Nodes -> Datagrams \cup {NoDatagram}]
EmptyMap == [n \in Nodes |-> NoDatagram]

\* Bug for TLC: the id is not read from the packet.
IdConstant(d) == PktId(CHOOSE p \in Packets : TRUE)

Id(d) == PktId(d.pkt)

\* Bug for TLC: the size is compared with one less.
CompleteButOne(map) == \E n \in Nodes : \A k \in Nodes \ {n} : map[k] # NoDatagram

\* this_pkt_map->size() == num_nodes
Complete(map) == \A n \in Nodes : map[n] # NoDatagram

-----------------------------------------------------------------------------
(* Threads and the lock packet_map_mutex                                   *)

LockFree ==
    /\ \A n \in Nodes : nodePc[n] # "critical"
    /\ \A d \in Datagrams : mergePc[d] # "critical"

\* print_packet_map walks packet_map and every inner map without the lock.
Printing ==
    \/ \E n \in Nodes : nodePc[n] = "print"
    \/ \E d \in Datagrams : mergePc[d] = "print"

\* merge_packet is searching packet_map with at(), without the lock.
LookingUp == \E d \in Datagrams : mergePc[d] = "lookup"

\* merge_packet is walking inner map m, without the lock.
MergeReads(m) == \E d \in Datagrams : mergePc[d] = "merge" /\ mergeMap[d] = m

Init ==
    /\ received = {}
    /\ nodePc = [n \in Nodes |-> "receive"]
    /\ current = [n \in Nodes |-> NoDatagram]
    /\ this_pkt_map = [n \in Nodes |-> NoDatagram]
    /\ packet_map = [i \in Ids |-> NoDatagram]
    /\ nodeMaps = [r \in Datagrams |-> EmptyMap]
    /\ mergePc = [d \in Datagrams |-> "idle"]
    /\ mergeMap = [d \in Datagrams |-> NoDatagram]
    /\ merged = [d \in Datagrams |-> EmptyMap]
    /\ sockets = Cardinality(Nodes)
    /\ crashed = FALSE

-----------------------------------------------------------------------------
(* run_node_thread                                                         *)

\* recvfrom returns a datagram of this leaf.
Receive(n, d) ==
    /\ ~crashed
    /\ nodePc[n] = "receive"
    /\ d.node = n
    /\ d \notin received
    /\ received' = received \cup {d}
    /\ current' = [current EXCEPT ![n] = d]
    /\ nodePc' = [nodePc EXCEPT ![n] = "lock"]
    /\ UNCHANGED <<this_pkt_map, maps, mergeVars, sockets, crashed>>

Lock(n) ==
    /\ ~crashed
    /\ nodePc[n] = "lock"
    /\ LockFree
    /\ nodePc' = [nodePc EXCEPT ![n] = "critical"]
    /\ UNCHANGED <<received, current, this_pkt_map, maps, mergeVars, sockets, crashed>>

\* Bug for TLC: count(pkt_id) == 0 is not tested.
MapForFresh(d) == d

\* The inner map that holds packet d's id once the key exists.
MapFor(d) == IF packet_map[Id(d)] = NoDatagram THEN d ELSE packet_map[Id(d)]

\* std::map::insert: a key that is present keeps its value.
Insert(map, n, d) == IF map[n] = NoDatagram THEN [map EXCEPT ![n] = d] ELSE map

\* Bug for TLC: this_pkt_map is only set by a thread that has none yet.
AddStale(n) ==
    LET d == current[n]
        r == MapFor(d)
    IN /\ ~crashed
       /\ nodePc[n] = "critical"
       /\ packet_map' = [packet_map EXCEPT ![Id(d)] = r]
       /\ this_pkt_map' = [this_pkt_map EXCEPT ![n] = IF @ = NoDatagram THEN r ELSE @]
       /\ nodeMaps' = [nodeMaps EXCEPT ![r] = Insert(@, n, d)]
       /\ nodePc' = [nodePc EXCEPT ![n] = "print"]
       /\ UNCHANGED <<received, current, mergeVars, sockets, crashed>>

(***************************************************************************)
(* The critical section: make the inner map if the id has none, point      *)
(* this_pkt_map at it, insert the packet (a second insert of the same      *)
(* outer key does nothing), unlock.                                        *)
(***************************************************************************)
Add(n) ==
    LET d == current[n]
        r == MapFor(d)
    IN /\ ~crashed
       /\ nodePc[n] = "critical"
       /\ packet_map' = [packet_map EXCEPT ![Id(d)] = r]
       /\ this_pkt_map' = [this_pkt_map EXCEPT ![n] = r]
       /\ nodeMaps' = [nodeMaps EXCEPT ![r] = Insert(@, n, d)]
       /\ nodePc' = [nodePc EXCEPT ![n] = "print"]
       /\ UNCHANGED <<received, current, mergeVars, sockets, crashed>>

PrintMap(n) ==
    /\ ~crashed
    /\ nodePc[n] = "print"
    /\ nodePc' = [nodePc EXCEPT ![n] = "check"]
    /\ UNCHANGED <<received, current, this_pkt_map, maps, mergeVars, sockets, crashed>>

\* The size is read after the unlock.
CheckSize(n) ==
    /\ ~crashed
    /\ nodePc[n] = "check"
    /\ mergePc' = IF Complete(nodeMaps[this_pkt_map[n]])
                  THEN [mergePc EXCEPT ![current[n]] = "lookup"]
                  ELSE mergePc
    /\ nodePc' = [nodePc EXCEPT ![n] = "receive"]
    /\ UNCHANGED <<received, current, this_pkt_map, maps, mergeMap, merged, sockets, crashed>>

-----------------------------------------------------------------------------
(* run_merge_packet                                                        *)

\* Bug for TLC: packet_map[pkt_id], which makes an empty map for an absent key.
LookupInserts(d) ==
    /\ ~crashed
    /\ mergePc[d] = "lookup"
    /\ mergeMap' = [mergeMap EXCEPT ![d] =
                      IF packet_map[Id(d)] # NoDatagram THEN packet_map[Id(d)]
                      ELSE CHOOSE r \in Datagrams : nodeMaps[r] = EmptyMap]
    /\ mergePc' = [mergePc EXCEPT ![d] = "merge"]
    /\ UNCHANGED <<received, nodeVars, maps, merged, sockets, crashed>>

\* packet_map.at(pkt_id) finds the key.
Lookup(d) ==
    /\ ~crashed
    /\ mergePc[d] = "lookup"
    /\ packet_map[Id(d)] # NoDatagram
    /\ mergeMap' = [mergeMap EXCEPT ![d] = packet_map[Id(d)]]
    /\ mergePc' = [mergePc EXCEPT ![d] = "merge"]
    /\ UNCHANGED <<received, nodeVars, maps, merged, sockets, crashed>>

\* packet_map.at(pkt_id) throws out_of_range, which nothing catches.
LookupThrows(d) ==
    /\ ~crashed
    /\ mergePc[d] = "lookup"
    /\ packet_map[Id(d)] = NoDatagram
    /\ crashed' = TRUE
    /\ UNCHANGED <<received, nodeVars, maps, mergeVars, sockets>>

\* An inner map of the wrong size is reported and merged all the same.
Merge(d) ==
    /\ ~crashed
    /\ mergePc[d] = "merge"
    /\ merged' = [merged EXCEPT ![d] = nodeMaps[mergeMap[d]]]
    /\ mergePc' = [mergePc EXCEPT ![d] = "lock"]
    /\ UNCHANGED <<received, nodeVars, maps, mergeMap, sockets, crashed>>

MergeLock(d) ==
    /\ ~crashed
    /\ mergePc[d] = "lock"
    /\ LockFree
    /\ mergePc' = [mergePc EXCEPT ![d] = "critical"]
    /\ UNCHANGED <<received, nodeVars, maps, mergeMap, merged, sockets, crashed>>

\* The key is erased, whichever inner map it leads to by now.
Erase(d) ==
    /\ ~crashed
    /\ mergePc[d] = "critical"
    /\ packet_map' = [packet_map EXCEPT ![Id(d)] = NoDatagram]
    /\ mergePc' = [mergePc EXCEPT ![d] = "send"]
    /\ UNCHANGED <<received, nodeVars, nodeMaps, mergeMap, merged, sockets, crashed>>

\* Bug for TLC: no descriptor is free, and the socket is opened all the same.
SendUnlimited(d) ==
    /\ ~crashed
    /\ mergePc[d] = "send"
    /\ sockets' = sockets + 1
    /\ mergePc' = [mergePc EXCEPT ![d] = "print"]
    /\ UNCHANGED <<received, nodeVars, maps, mergeMap, merged, crashed>>

\* Each merge opens a socket and never closes it.
Send(d) ==
    /\ ~crashed
    /\ mergePc[d] = "send"
    /\ sockets < MaxSockets
    /\ sockets' = sockets + 1
    /\ mergePc' = [mergePc EXCEPT ![d] = "print"]
    /\ UNCHANGED <<received, nodeVars, maps, mergeMap, merged, crashed>>

\* open_socket or send_packet fails, for want of a descriptor or in the
\* network: exit(-1).
SendFails(d) ==
    /\ ~crashed
    /\ mergePc[d] = "send"
    /\ crashed' = TRUE
    /\ UNCHANGED <<received, nodeVars, maps, mergeVars, sockets>>

MergePrint(d) ==
    /\ ~crashed
    /\ mergePc[d] = "print"
    /\ mergePc' = [mergePc EXCEPT ![d] = "done"]
    /\ UNCHANGED <<received, nodeVars, maps, mergeMap, merged, sockets, crashed>>

-----------------------------------------------------------------------------
(***************************************************************************)
(* A write to a map that another thread is reading without the lock is a   *)
(* data race.  The reader sees the map before or after the write, or the   *)
(* process dies.  (A size that CheckSize reads during an insert is the old *)
(* or the new one: no more than the order of the two steps.)               *)
(***************************************************************************)
AddRaces(n) ==
    LET d == current[n]
        r == MapFor(d)
    IN /\ nodePc[n] = "critical"
       /\ nodeMaps[r][n] = NoDatagram
       /\ \/ Printing
          \/ MergeReads(r)
          \/ LookingUp /\ packet_map[Id(d)] = NoDatagram

EraseRaces(d) ==
    /\ mergePc[d] = "critical"
    /\ packet_map[Id(d)] # NoDatagram
    /\ Printing \/ LookingUp

Race ==
    /\ ~crashed
    /\ (\E n \in Nodes : AddRaces(n)) \/ (\E d \in Datagrams : EraseRaces(d))
    /\ crashed' = TRUE
    /\ UNCHANGED <<received, nodeVars, maps, mergeVars, sockets>>

NodeStep(n)  == Lock(n) \/ Add(n) \/ PrintMap(n) \/ CheckSize(n)
MergeStep(d) == \/ Lookup(d) \/ LookupThrows(d) \/ Merge(d) \/ MergeLock(d)
                \/ Erase(d) \/ Send(d) \/ SendFails(d) \/ MergePrint(d)

Next ==
    \/ \E n \in Nodes, d \in Datagrams : Receive(n, d)
    \/ \E n \in Nodes : NodeStep(n)
    \/ \E d \in Datagrams : MergeStep(d)
    \/ Race

(***************************************************************************)
(* Every thread that can take a step eventually takes one; the network     *)
(* owes nothing.                                                           *)
(***************************************************************************)
Fairness ==
    /\ \A n \in Nodes : WF_vars(NodeStep(n))
    /\ \A d \in Datagrams : WF_vars(MergeStep(d))

Spec == Init /\ [][Next]_vars
FairSpec == Spec /\ Fairness

-----------------------------------------------------------------------------
(* Properties                                                              *)

NodePcs  == {"receive", "lock", "critical", "print", "check"}
MergePcs == {"idle", "lookup", "merge", "lock", "critical", "send", "print", "done"}

\* The types of the merger's state (MergerOperator.h and the threads' locals).
TypeOK ==
    /\ received \subseteq Datagrams
    /\ nodePc \in [Nodes -> NodePcs]
    /\ current \in [Nodes -> Datagrams \cup {NoDatagram}]
    /\ this_pkt_map \in [Nodes -> MapRefs]
    /\ packet_map \in [Ids -> MapRefs]
    /\ nodeMaps \in [Datagrams -> NodeMaps]
    /\ mergePc \in [Datagrams -> MergePcs]
    /\ mergeMap \in [Datagrams -> MapRefs]
    /\ merged \in [Datagrams -> NodeMaps]
    /\ sockets \in Nat /\ sockets <= MaxSockets
    /\ crashed \in BOOLEAN

\* Some thread will still merge what is in inner map r of id i: a leaf's
\* thread that has yet to read its size, or a merge thread of that id that
\* has yet to erase it.
Checker(r) == \E n \in Nodes : nodePc[n] \in {"print", "check"} /\ this_pkt_map[n] = r
Merger(i)  == \E d \in Datagrams :
                 Id(d) = i /\ mergePc[d] \in {"lookup", "merge", "lock", "critical"}

(***************************************************************************)
(* A complete id is never forgotten: although the size is read after the   *)
(* unlock, by then perhaps changed by other threads, whenever every leaf's *)
(* packet of an id is in packet_map some thread is on its way to merge it. *)
(* Holds whatever the network loses, repeats or reorders, and also when    *)
(* ids are reused.                                                         *)
(***************************************************************************)
NoLostMerge ==
    \A i \in Ids :
        LET r == packet_map[i]
        IN r # NoDatagram /\ Complete(nodeMaps[r]) => Checker(r) \/ Merger(i)

(***************************************************************************)
(* What merge_packet is given: at least one packet (so that its last       *)
(* check, "No packets in packet_map to merge", never ends the process),    *)
(* and packets of the id it was called for only.  Holds in every           *)
(* environment.                                                            *)
(***************************************************************************)
MergeInput ==
    \A d \in Datagrams :
        mergePc[d] = "merge" =>
            LET map == nodeMaps[mergeMap[d]]
            IN /\ map # EmptyMap
               /\ \A n \in Nodes : map[n] # NoDatagram => Id(map[n]) = Id(d)

HasMerged(d) == mergePc[d] \in {"lock", "critical", "send", "print", "done"}

(***************************************************************************)
(* In the at-most-once environment a merge combines exactly the copies its *)
(* own packet's leaves sent, all of them and no others, even when two      *)
(* threads merge one id and one of them has already erased it.             *)
(***************************************************************************)
MergesExact ==
    \A d \in Datagrams :
        HasMerged(d) => \A n \in Nodes : /\ merged[d][n] # NoDatagram
                                         /\ merged[d][n].node = n
                                         /\ merged[d][n].pkt = d.pkt

(***************************************************************************)
(* packet_map.erase(pkt_id) of a second or late merge never throws away a  *)
(* map that holds a packet the eraser did not merge (at-most-once          *)
(* environment).                                                           *)
(***************************************************************************)
ErasesOnlyMerged ==
    [][\A i \in Ids :
          packet_map[i] # NoDatagram /\ packet_map'[i] = NoDatagram =>
             \E d \in Datagrams : /\ mergePc[d] = "critical"
                                  /\ mergePc'[d] = "send"
                                  /\ merged[d] = nodeMaps[packet_map[i]]]_vars

Sends(p) == {d \in Datagrams : d.pkt = p /\ mergePc[d] \in {"print", "done"}}

(***************************************************************************)
(* A packet all of whose leaf copies have arrived is sent, unless the      *)
(* process dies (at-most-once environment, every thread scheduled).        *)
(***************************************************************************)
Delivery ==
    \A p \in Packets :
        (\A n \in Nodes : \E d \in received : d.node = n /\ d.pkt = p)
            ~> (Sends(p) # {} \/ crashed)

(***************************************************************************)
(* The merger as a MergeService: leaves' datagrams are arrivals, a sent    *)
(* merge is a delivery on behalf of the leaf whose thread started it.      *)
(***************************************************************************)
arrivedBar   == {<<d.node, d.pkt>> : d \in received}
deliveredBar == [p \in Packets |-> {d.node : d \in Sends(p)}]

Service == INSTANCE MergeService
             WITH arrived <- arrivedBar, delivered <- deliveredBar, stopped <- crashed

(***************************************************************************)
(* In the at-most-once environment the merger implements the service: it   *)
(* sends nothing before every leaf's copy has come in and at most one      *)
(* merge per leaf, and a dead process sends nothing.                       *)
(***************************************************************************)
ImplementsService == Service!Spec

(***************************************************************************)
(* "Merges all received packets for the given pkt_id, then sends merged    *)
(* packet to receive address" (the comment on run_merge_packet): a packet  *)
(* received once from each leaf is sent once.                              *)
(***************************************************************************)
SentOnce == \A p \in Packets : \A d1, d2 \in Sends(p) : d1 = d2
=============================================================================
