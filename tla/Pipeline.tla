------------------------------ MODULE Pipeline ------------------------------
(***************************************************************************)
(* The way of the packets: pkt_sender, the network functions, the          *)
(* forwarder of each machine, the merger (MergeService, as far as it is    *)
(* seen here) and pkt_receiver, over UDP.                                  *)
(*                                                                         *)
(* Datagrams are in no order; one that is never taken from net was lost.   *)
(* A function takes a datagram, changes it and sends it to each of its     *)
(* addresses; nothing else looks on, so that is one step.  From is what a  *)
(* copy has gone through: a history no program sees.                       *)
(***************************************************************************)
EXTENDS Integers, Sequences, FiniteSets, Bags

CONSTANTS
    Gen,           \* the node id of pktgen
    NumPackets,    \* pkt_sender -n, and the receiver's num_packets
    IdSpace,       \* 2^16: ip_id has 16 bits
    Nodes,         \* the network functions, by their node ids
    Sources,       \* the nodes pktgen sends to
    Neighbors,     \* node -> nodes it sends to; a leaf sends to the merger
    Remote,        \* the edges <<from, to>> between two machines
    Dropping,      \* the functions started with should_drop
    Rewriting,     \* compressors: they build the packet anew
    MachineOf,     \* node -> machine
    Limits,        \* what the machines may allow a forwarder: descriptors
    Deliveries     \* how often the merger may send one packet

Leaves == {n \in Nodes : Neighbors[n] = {}}
Machines == {MachineOf[n] : n \in Nodes}
Packets == 0 .. NumPackets - 1

\* The forwarder of a machine has a thread, with a socket, per node.
Threads(m) == {n \in Nodes : MachineOf[n] = m}

ASSUME GraphAssumption ==
    /\ IsFiniteSet(Nodes)
    /\ Sources \subseteq Nodes /\ Neighbors \in [Nodes -> SUBSET Nodes]
    /\ Remote \subseteq (Nodes \cup {Gen}) \X Nodes /\ Dropping \subseteq Nodes
ASSUME SizeAssumption ==
    /\ IdSpace \in Nat /\ NumPackets \in Nat \ {0} /\ NumPackets <= IdSpace
    /\ Limits \subseteq [Machines -> Nat] /\ Deliveries \in Nat \ {0}
\* Every thread of a forwarder has got its socket.
ASSUME LimitAssumption ==
    \A f \in Limits, m \in Machines : Cardinality(Threads(m)) <= f[m]
\* The graph the constructor gives (ServiceGraph's OneCopy).
ASSUME ForestAssumption ==
    /\ \A x, y \in Nodes : Neighbors[x] \cap Neighbors[y] # {} => x = y
    /\ \A x \in Nodes : Neighbors[x] \cap Sources = {}

VARIABLES
    limit,      \* machine -> the descriptors of its forwarder
    i,          \* the packets pkt_sender has sent
    net,        \* the datagrams on their way: a bag
    node,       \* node -> "down", "up" or "dead"
    sockets,    \* machine -> descriptors its forwarder has open
    forwarder,  \* machine -> "up", "full" (no descriptor left) or "failed"
    arrived,    \* the copies the merger has received: a bag
    delivered,  \* packet -> how often the merger has sent it
    count,      \* pkt_receiver's count
    received, log,  \* the packets it has received, and those in its log
    receiver    \* "up", or "total" once it has printed the total time

vars == <<limit, i, net, node, sockets, forwarder, arrived, delivered, count, received, log, receiver>>

\* Bug for TLC: the number of the packet is not added.
IdConstant(p) == IdSpace \div 2

\* pkt_sender numbers its packets from 2^15; the id on the wire has 16 bits.
Id(p) == ((IdSpace \div 2) + p) % IdSpace

\* A datagram: where it goes, the packet, its source address and port (zero
\* if it was nullified), and From.
Datagram(to, p, null, from) == [to |-> to, p |-> p, null |-> null, from |-> from]
ToNode(n) == <<"node", n>>
ToForwarder(n) == <<"forwarder", n>>
ToMerger(n) == <<"merger", n>>
ToReceiver == <<"receiver", 0>>

\* The address a function is given for a neighbor.
Via(from, to) == IF <<from, to>> \in Remote THEN ToForwarder(to) ELSE ToNode(to)

Init ==
    /\ limit \in Limits
    /\ i = 0 /\ net = EmptyBag
    /\ node = [n \in Nodes |-> "down"]
    /\ sockets = [m \in Machines |-> Cardinality(Threads(m))]
    /\ forwarder = [m \in Machines |-> "up"]
    /\ arrived = EmptyBag /\ delivered = [p \in Packets |-> 0]
    /\ count = 0 /\ received = {} /\ log = {} /\ receiver = "up"

-----------------------------------------------------------------------------
(* pkt_sender                                                              *)

\* A packet to every address; a send that fails is only reported, and the
\* datagram is lost like any other that nobody takes.
Send ==
    /\ i < NumPackets
    /\ net' = net (+) SetToBag({Datagram(Via(Gen, n), i, FALSE, <<>>) : n \in Sources})
    /\ i' = i + 1
    /\ UNCHANGED <<limit, node, sockets, forwarder, arrived, delivered, count, received, log, receiver>>

-----------------------------------------------------------------------------
(* The network functions                                                   *)

\* docker exec has got as far as bind.
Start(n) ==
    /\ node[n] = "down"
    /\ node' = [node EXCEPT ![n] = "up"]
    /\ UNCHANGED <<limit, i, net, sockets, forwarder, arrived, delivered, count, received, log, receiver>>

\* Bug for TLC: a packet that is built anew gets an address again.
NullAfterFresh(n, d) == (d.null /\ n \notin Rewriting) \/ n \in Dropping

\* nullify; write_payload builds a packet of the old one's addresses.
NullAfter(n, d) == d.null \/ n \in Dropping

Processed(n, d, to) == Datagram(to, d.p, NullAfter(n, d), Append(d.from, n))

\* The addresses the function was started with.
Addresses(n) ==
    IF n \in Leaves THEN {ToMerger(n)} ELSE {Via(n, t) : t \in Neighbors[n]}

Take(d) == net (-) SetToBag({d})

Handle(n) ==
    /\ node[n] = "up"
    /\ \E d \in BagToSet(net) :
         /\ d.to = ToNode(n)
         /\ net' = Take(d) (+) SetToBag({Processed(n, d, to) : to \in Addresses(n)})
    /\ UNCHANGED <<limit, i, node, sockets, forwarder, arrived, delivered, count, received, log, receiver>>

\* A send fails and the function exits; some addresses have been sent to.
HandleFails(n) ==
    /\ node[n] = "up"
    /\ \E d \in BagToSet(net), sent \in SUBSET Addresses(n) :
         /\ d.to = ToNode(n) /\ sent # Addresses(n)
         /\ net' = Take(d) (+) SetToBag({Processed(n, d, to) : to \in sent})
    /\ node' = [node EXCEPT ![n] = "dead"]
    /\ UNCHANGED <<limit, i, sockets, forwarder, arrived, delivered, count, received, log, receiver>>

\* A datagram to a port nobody listens on is gone.
Refuse(n) ==
    /\ node[n] # "up"
    /\ \E d \in BagToSet(net) : d.to = ToNode(n) /\ net' = Take(d)
    /\ UNCHANGED <<limit, i, node, sockets, forwarder, arrived, delivered, count, received, log, receiver>>

-----------------------------------------------------------------------------
(* The forwarder: a socket per packet, never closed; any failure ends it   *)

\* Bug for TLC: all threads are given the address of the last line.
VirtualAddrLast(n) ==
    ToNode(CHOOSE x \in Threads(MachineOf[n]) : \A y \in Threads(MachineOf[n]) : y <= x)

VirtualAddr(n) == ToNode(n)

\* Bug for TLC: a socket is opened for the log as well.
SocketsPerPacketTwo == 2

SocketsPerPacket == 1

Forward(n) ==
    LET m == MachineOf[n] IN
    /\ forwarder[m] = "up" /\ sockets[m] + SocketsPerPacket <= limit[m]
    /\ \E d \in BagToSet(net) :
         /\ d.to = ToForwarder(n)
         /\ net' = Take(d) (+) SetToBag({[d EXCEPT !.to = VirtualAddr(n)]})
    /\ sockets' = [sockets EXCEPT ![m] = @ + SocketsPerPacket]
    /\ UNCHANGED <<limit, i, node, forwarder, arrived, delivered, count, received, log, receiver>>

\* open_socket fails at the limit: exit, for all threads.
ForwardAtLimit(n) ==
    LET m == MachineOf[n] IN
    /\ forwarder[m] = "up" /\ sockets[m] + SocketsPerPacket > limit[m]
    /\ \E d \in BagToSet(net) : d.to = ToForwarder(n) /\ net' = Take(d)
    /\ forwarder' = [forwarder EXCEPT ![m] = "full"]
    /\ UNCHANGED <<limit, i, node, sockets, arrived, delivered, count, received, log, receiver>>

\* send_packet fails, or receive_data returns NULL, which packet_from_data
\* follows.
ForwarderFails(m) ==
    /\ forwarder[m] = "up"
    /\ forwarder' = [forwarder EXCEPT ![m] = "failed"]
    /\ UNCHANGED <<limit, i, net, node, sockets, arrived, delivered, count, received, log, receiver>>

-----------------------------------------------------------------------------
(* The merger, from outside, and pkt_receiver                              *)

MergerReceive ==
    /\ \E d \in BagToSet(net) :
         /\ d.to[1] = "merger"
         /\ net' = Take(d) /\ arrived' = arrived (+) SetToBag({d})
    /\ UNCHANGED <<limit, i, node, sockets, forwarder, delivered, count, received, log, receiver>>

\* MergeService!AllArrived
AllArrived(p) == \A l \in Leaves : \E d \in BagToSet(arrived) : d.to = ToMerger(l) /\ Id(d.p) = Id(p)

Deliver(p) ==
    /\ AllArrived(p) /\ delivered[p] < Deliveries
    /\ delivered' = [delivered EXCEPT ![p] = @ + 1]
    /\ net' = net (+) SetToBag({Datagram(ToReceiver, p, FALSE, <<>>)})
    /\ UNCHANGED <<limit, i, node, sockets, forwarder, arrived, count, received, log, receiver>>

\* Bug for TLC: the receiver goes on after num_packets.
EnoughAbove(c) == c > NumPackets

\* Bug for TLC: the packet that fills the count is not waited for.
EnoughEarly(c) == c = NumPackets - 1

Enough(c) == c = NumPackets

\* The packet that makes the count full is not logged: the receiver exits.
Receive ==
    /\ receiver = "up"
    /\ \E d \in BagToSet(net) :
         /\ d.to = ToReceiver
         /\ net' = Take(d)
         /\ received' = received \cup {d.p}
         /\ count' = count + 1
         /\ IF Enough(count') THEN receiver' = "total" /\ UNCHANGED log
            ELSE log' = log \cup {d.p} /\ UNCHANGED receiver
    /\ UNCHANGED <<limit, i, node, sockets, forwarder, arrived, delivered>>

Network ==
    \/ \E n \in Nodes : Handle(n) \/ Refuse(n) \/ Forward(n) \/ ForwardAtLimit(n)
    \/ MergerReceive \/ Receive
Failure == \/ \E n \in Nodes : HandleFails(n)
           \/ \E m \in Machines : ForwarderFails(m)
Merge == \E p \in Packets : Deliver(p)

Next == Send \/ (\E n \in Nodes : Start(n)) \/ Network \/ Failure \/ Merge

Spec == Init /\ [][Next]_vars

(***************************************************************************)
(* The programs run; that the network delivers is not assumed, only named  *)
(* (Reliable) for what needs it.                                           *)
(***************************************************************************)
FairSpec == Spec /\ WF_vars(Send) /\ WF_vars(\E n \in Nodes : Start(n)) /\ WF_vars(Merge)
Reliable == WF_vars(Network)

-----------------------------------------------------------------------------
(* Properties                                                              *)

TypeOK ==
    /\ i \in 0 .. NumPackets
    /\ node \in [Nodes -> {"down", "up", "dead"}]
    /\ limit \in Limits
    /\ \A m \in Machines : sockets[m] \in 0 .. limit[m]
    /\ forwarder \in [Machines -> {"up", "full", "failed"}]
    /\ delivered \in [Packets -> 0 .. Deliveries]
    /\ count \in 0 .. NumPackets
    /\ received \subseteq Packets /\ log \subseteq Packets
    /\ receiver \in {"up", "total"}
    /\ \A d \in BagToSet(net) \cup BagToSet(arrived) : d.p \in Packets /\ d.null \in BOOLEAN

(***************************************************************************)
(* The merger's environment (MergerOperator's AtMostOnce): on a forest, a  *)
(* leaf's port receives an id at most once, forwarded or not, and ids of   *)
(* different packets differ.                                               *)
(***************************************************************************)
AtMostOnce ==
    /\ \A d \in BagToSet(arrived) : arrived[d] = 1
    /\ \A d, e \in BagToSet(arrived) : d.to = e.to /\ Id(d.p) = Id(e.p) => d = e

(***************************************************************************)
(* What arrives from a leaf has gone through the whole path to that leaf,  *)
(* in order: the path MergePacket takes it to have.                        *)
(***************************************************************************)
PathKept ==
    \A d \in BagToSet(arrived) :
        LET f == d.from IN
        /\ f # <<>> /\ d.to = ToMerger(f[Len(f)]) /\ f[Len(f)] \in Leaves
        /\ f[1] \in Sources
        /\ \A j \in 1 .. Len(f) - 1 : f[j + 1] \in Neighbors[f[j]]

\* A copy that a function on its way nullified arrives null, and only such.
DropSticks ==
    \A d \in BagToSet(arrived) :
        d.null <=> \E j \in DOMAIN d.from : d.from[j] \in Dropping

(***************************************************************************)
(* The total time the receiver prints is the time for all packets, if the  *)
(* merger has sent none of them twice.                                     *)
(***************************************************************************)
TotalIsTotal ==
    receiver = "total" /\ (\A p \in Packets : delivered[p] <= 1) => received = Packets

\* What machine m's forwarder needs for all that it will be sent.
Needed ==
    [m \in Machines |-> Cardinality(Threads(m))
                        + NumPackets * Cardinality({e \in Remote : MachineOf[e[2]] = m})]

\* The machines whose forwarders are on the way to a leaf.
ForwardersTo ==
    LET Up[k \in Nat, l \in Leaves] ==
            IF k = 0 THEN {l}
            ELSE Up[k - 1, l] \cup {n \in Nodes : Neighbors[n] \cap Up[k - 1, l] # {}}
    IN [l \in Leaves |->
           {MachineOf[e[2]] : e \in {x \in Remote : x[2] \in Up[Cardinality(Nodes), l]}}]

(***************************************************************************)
(* If every function listens before the first packet is sent, no process   *)
(* or send fails and the network loses nothing, the merger gets the copy   *)
(* of every packet from each leaf that is reached through forwarders with  *)
(* enough descriptors, whatever the others come to.                        *)
(***************************************************************************)
NoFailure == /\ i > 0 => \A n \in Nodes : node[n] = "up"
             /\ \A m \in Machines : forwarder[m] # "failed"
Served == {l \in Leaves : \A m \in ForwardersTo[l] : Needed[m] <= limit[m]}
AllDelivered ==
    Reliable /\ []NoFailure =>
        <>(\A p \in Packets, l \in Served :
              \E d \in BagToSet(arrived) : d.to = ToMerger(l) /\ d.p = p)
=============================================================================
