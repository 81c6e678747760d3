---------------------------- MODULE PipelineProofs ----------------------------
(***************************************************************************)
(* Theorems about the way of the packets, for any graph of functions, any  *)
(* placement and any number of packets, whatever the network loses and     *)
(* whichever process fails.                                                *)
(***************************************************************************)
EXTENDS Pipeline, FiniteSetTheorems, SequenceTheorems, TLAPS

Last(s) == s[Len(s)]

\* The mark of a copy tells whether a dropping function was on its way.
Marked(d) == d.null <=> \E j \in DOMAIN d.from : d.from[j] \in Dropping

\* What a copy has gone through is a path of the graph.
OnPath(d) ==
    /\ d.from \in Seq(Nodes)
    /\ d.from # <<>> => d.from[1] \in Sources
    /\ \A j \in 1 .. Len(d.from) - 1 : d.from[j + 1] \in Neighbors[d.from[j]]

\* Where a copy goes is where its path goes on.
Next1(d, n) == IF d.from = <<>> THEN n \in Sources ELSE n \in Neighbors[Last(d.from)]
Bound(d) ==
    \/ d.to = ToReceiver
    \/ d.from # <<>> /\ Last(d.from) \in Leaves /\ d.to = ToMerger(Last(d.from))
    \/ \E n \in Nodes : d.to \in {ToNode(n), ToForwarder(n)} /\ Next1(d, n)

Formed(d) == \E to, p, null, from : d = Datagram(to, p, null, from)

Good(d) == Formed(d) /\ Marked(d) /\ OnPath(d) /\ Bound(d)

FlowInv ==
    /\ \A d \in BagToSet(net) : Good(d)
    /\ \A d \in BagToSet(arrived) : Good(d) /\ d.to[1] = "merger"

-----------------------------------------------------------------------------
(* What is in a bag after a datagram was taken, or some were put into it.  *)

LEMMA Taken == ASSUME NEW d PROVE BagToSet(Take(d)) \subseteq BagToSet(net)
BY DEF Take, BagToSet, SetToBag, (-)

LEMMA PutInto ==
  ASSUME NEW bag, NEW S
  PROVE  BagToSet(bag (+) SetToBag(S)) = BagToSet(bag) \cup S
BY DEF BagToSet, SetToBag, (+)

\* The fresh copies: pkt_sender's, and the merger's for the receiver.
LEMMA FreshIsGood ==
  /\ \A p : \A n \in Sources : Good(Datagram(Via(Gen, n), p, FALSE, <<>>))
  /\ \A p : Good(Datagram(ToReceiver, p, FALSE, <<>>))
<1>1. ASSUME NEW to, NEW p
      PROVE  /\ Marked(Datagram(to, p, FALSE, <<>>)) /\ OnPath(Datagram(to, p, FALSE, <<>>))
             /\ Formed(Datagram(to, p, FALSE, <<>>))
             /\ Datagram(to, p, FALSE, <<>>).from = <<>> /\ Datagram(to, p, FALSE, <<>>).to = to
  <2> DEFINE e == Datagram(to, p, FALSE, <<>>)
  <2>1. Formed(e) /\ e.from = <<>> /\ e.to = to /\ e.null = FALSE
    BY DEF Formed, Datagram
  <2> HIDE DEF e
  <2>2. Marked(e) /\ OnPath(e)
    BY <2>1 DEF Marked, OnPath
  <2> QED
    BY <2>1, <2>2 DEF e
<1>2. ASSUME NEW p, NEW n \in Sources PROVE Good(Datagram(Via(Gen, n), p, FALSE, <<>>))
  BY <1>1, GraphAssumption DEF Good, Bound, Next1, Via
<1>3. ASSUME NEW p PROVE Good(Datagram(ToReceiver, p, FALSE, <<>>))
  BY <1>1 DEF Good, Bound
<1> QED
  BY <1>2, <1>3

\* A function passes on what it got: the path is one function longer.
LEMMA ProcessedIsGood ==
  ASSUME NEW n \in Nodes, NEW d, Good(d), d.to = ToNode(n), NEW to \in Addresses(n)
  PROVE  Good(Processed(n, d, to))
<1> DEFINE e == Processed(n, d, to)
<1>1. /\ e.to = to /\ e.from = Append(d.from, n)
      /\ e.null = (d.null \/ n \in Dropping)
  BY DEF Processed, Datagram, NullAfter
<1>2. Formed(e)
  BY DEF Formed, Processed
<1>3. /\ d.from \in Seq(Nodes) /\ e.from \in Seq(Nodes) /\ e.from # <<>>
      /\ Len(e.from) = Len(d.from) + 1 /\ Last(e.from) = n
      /\ \A j \in 1 .. Len(d.from) : e.from[j] = d.from[j]
  BY <1>1 DEF Good, OnPath, Last
<1>4. Next1(d, n)
  <2>1. d.to # ToReceiver /\ \A l : d.to # ToMerger(l)
    BY DEF ToNode, ToReceiver, ToMerger
  <2>2. \A x : d.to \in {ToNode(x), ToForwarder(x)} => x = n
    BY DEF ToNode, ToForwarder
  <2> QED
    BY <2>1, <2>2 DEF Good, Bound
<1>5. Marked(e)
  <2>1. DOMAIN e.from = DOMAIN d.from \cup {Len(d.from) + 1} /\ DOMAIN d.from = 1 .. Len(d.from)
    BY <1>3
  <2>2. e.from[Len(d.from) + 1] = n
    BY <1>3 DEF Last
  <2> QED
    BY <1>1, <1>3, <2>1, <2>2 DEF Good, Marked
<1>6. OnPath(e)
  <2>1. e.from[1] \in Sources
    <3>1. CASE d.from = <<>>
      BY <1>3, <1>4, <3>1 DEF Next1, Last
    <3>2. CASE d.from # <<>>
      BY <1>3, <3>2 DEF Good, OnPath
    <3> QED
      BY <3>1, <3>2
  <2>2. ASSUME NEW j \in 1 .. Len(e.from) - 1 PROVE e.from[j + 1] \in Neighbors[e.from[j]]
    <3>1. CASE j < Len(d.from)
      BY <1>3, <3>1 DEF Good, OnPath
    <3>2. CASE j = Len(d.from)
      BY <1>3, <1>4, <3>2 DEF Next1, Last
    <3> QED
      BY <1>3, <3>1, <3>2
  <2> QED
    BY <1>3, <2>1, <2>2 DEF OnPath
<1>7. Bound(e)
  <2>1. CASE n \in Leaves
    BY <1>1, <1>3, <2>1 DEF Bound, Addresses
  <2>2. CASE n \notin Leaves
    BY <1>1, <1>3, <2>2, GraphAssumption DEF Bound, Addresses, Via, Next1
  <2> QED
    BY <2>1, <2>2
<1> QED
  BY <1>2, <1>5, <1>6, <1>7 DEF Good

\* A forwarder sends on what it got, to the same node.
LEMMA ForwardedIsGood ==
  ASSUME NEW n \in Nodes, NEW d, Good(d), d.to = ToForwarder(n)
  PROVE  Good([d EXCEPT !.to = VirtualAddr(n)])
<1> DEFINE e == [d EXCEPT !.to = VirtualAddr(n)]
<1>1. PICK t, p, u, f : d = Datagram(t, p, u, f)
  BY DEF Good, Formed
<1>2. e = Datagram(VirtualAddr(n), p, u, f)
  <2>1. [[to |-> t, p |-> p, null |-> u, from |-> f] EXCEPT !.to = VirtualAddr(n)]
        = [to |-> VirtualAddr(n), p |-> p, null |-> u, from |-> f]
    OBVIOUS
  <2> QED
    BY <1>1, <2>1, Zenon DEF Datagram
<1>3. e.to = ToNode(n) /\ e.null = d.null /\ e.from = d.from /\ Formed(e)
  BY <1>1, <1>2 DEF Datagram, Formed, VirtualAddr
<1>4. Next1(d, n)
  <2>1. d.to # ToReceiver /\ \A l : d.to # ToMerger(l)
    BY DEF ToForwarder, ToReceiver, ToMerger
  <2>2. \A x : d.to \in {ToNode(x), ToForwarder(x)} => x = n
    BY DEF ToNode, ToForwarder
  <2> QED
    BY <2>1, <2>2 DEF Good, Bound
<1> HIDE DEF e
<1>5. Marked(e) /\ OnPath(e)
  BY <1>3 DEF Good, Marked, OnPath
<1>6. Bound(e)
  BY <1>3, <1>4 DEF Bound, Next1
<1> QED
  BY <1>3, <1>5, <1>6 DEF Good, e

-----------------------------------------------------------------------------
(* The invariant                                                           *)

\* What a step that takes a datagram and puts some into the network does.
LEMMA Moves ==
  ASSUME FlowInv, NEW d, NEW S, \A e \in S : Good(e),
         net' = Take(d) (+) SetToBag(S), arrived' = arrived
  PROVE  FlowInv'
<1>1. BagToSet(net') \subseteq BagToSet(net) \cup S
  BY Taken, PutInto
<1> QED
  BY <1>1 DEF FlowInv

LEMMA FlowStep == ASSUME FlowInv, [Next]_vars PROVE FlowInv'
<1>1. CASE Send
  <2> DEFINE S == {Datagram(Via(Gen, n), i, FALSE, <<>>) : n \in Sources}
  <2>1. BagToSet(net') = BagToSet(net) \cup S
    BY <1>1, PutInto DEF Send
  <2>2. \A d \in S : Good(d)
    BY FreshIsGood
  <2> QED
    BY <1>1, <2>1, <2>2 DEF FlowInv, Send
<1>2. ASSUME NEW n \in Nodes, NEW d \in BagToSet(net), d.to = ToNode(n),
             NEW sent \in SUBSET Addresses(n),
             net' = Take(d) (+) SetToBag({Processed(n, d, to) : to \in sent}),
             arrived' = arrived
      PROVE  FlowInv'
  <2>1. \A e \in {Processed(n, d, to) : to \in sent} : Good(e)
    BY <1>2, ProcessedIsGood DEF FlowInv
  <2> QED
    BY <1>2, <2>1, Moves
<1>3. ASSUME NEW n \in Nodes, Handle(n) \/ HandleFails(n) PROVE FlowInv'
  BY <1>2, <1>3 DEF Handle, HandleFails
<1>4. ASSUME NEW d, net' = Take(d), arrived' = arrived PROVE FlowInv'
  BY <1>4, Taken DEF FlowInv
<1>5. ASSUME NEW n \in Nodes, Refuse(n) \/ ForwardAtLimit(n) PROVE FlowInv'
  BY <1>4, <1>5 DEF Refuse, ForwardAtLimit
<1>6. ASSUME NEW n \in Nodes, Forward(n) PROVE FlowInv'
  <2>1. PICK d \in BagToSet(net) :
          /\ d.to = ToForwarder(n)
          /\ net' = Take(d) (+) SetToBag({[d EXCEPT !.to = VirtualAddr(n)]})
    BY <1>6 DEF Forward
  <2>2. Good([d EXCEPT !.to = VirtualAddr(n)])
    BY <2>1, ForwardedIsGood DEF FlowInv
  <2>3. \A e \in {[d EXCEPT !.to = VirtualAddr(n)]} : Good(e)
    BY <2>2, Zenon
  <2>4. arrived' = arrived
    BY <1>6 DEF Forward
  <2> QED
    BY <2>1, <2>3, <2>4, Moves
<1>7. CASE MergerReceive
  <2>1. PICK d \in BagToSet(net) : /\ d.to[1] = "merger" /\ net' = Take(d)
                                   /\ arrived' = arrived (+) SetToBag({d})
    BY <1>7 DEF MergerReceive
  <2>2. BagToSet(arrived') = BagToSet(arrived) \cup {d}
    BY <2>1, PutInto
  <2> QED
    BY <2>1, <2>2, Taken DEF FlowInv
<1>8. ASSUME NEW p \in Packets, Deliver(p) PROVE FlowInv'
  <2>1. BagToSet(net') = BagToSet(net) \cup {Datagram(ToReceiver, p, FALSE, <<>>)}
    BY <1>8, PutInto DEF Deliver
  <2> QED
    BY <1>8, <2>1, FreshIsGood DEF FlowInv, Deliver
<1>9. CASE Receive
  BY <1>4, <1>9 DEF Receive
<1>10. ASSUME UNCHANGED <<net, arrived>> PROVE FlowInv'
  BY <1>10 DEF FlowInv
<1>11. ASSUME NEW n \in Nodes, Start(n) PROVE FlowInv'
  BY <1>10, <1>11 DEF Start
<1>12. ASSUME NEW m \in Machines, ForwarderFails(m) PROVE FlowInv'
  BY <1>10, <1>12 DEF ForwarderFails
<1>13. CASE UNCHANGED vars
  BY <1>10, <1>13 DEF vars
<1> QED
  BY <1>1, <1>3, <1>5, <1>6, <1>7, <1>8, <1>9, <1>11, <1>12, <1>13
     DEF Next, Network, Failure, Merge

(***************************************************************************)
(* Every copy on its way or at the merger has gone along a path of the     *)
(* graph and is marked as that path marks it.                              *)
(***************************************************************************)
THEOREM Flows == Spec => []FlowInv
<1>1. Init => FlowInv
  BY DEF Init, FlowInv, EmptyBag, BagToSet, SetToBag
<1>2. FlowInv /\ [Next]_vars => FlowInv'
  BY FlowStep
<1> QED
  BY <1>1, <1>2, PTL DEF Spec

\* At the merger a copy is on a path to the leaf whose port it came to.
LEMMA AtMerger ==
  ASSUME FlowInv, NEW d \in BagToSet(arrived)
  PROVE  /\ d.from # <<>> /\ Last(d.from) \in Leaves /\ d.to = ToMerger(Last(d.from))
         /\ OnPath(d) /\ Marked(d)
<1>1. Good(d) /\ d.to[1] = "merger"
  BY DEF FlowInv
<1>2. d.to # ToReceiver /\ \A n : d.to \notin {ToNode(n), ToForwarder(n)}
  BY <1>1 DEF ToReceiver, ToNode, ToForwarder
<1> QED
  BY <1>1, <1>2 DEF Good, Bound

(***************************************************************************)
(* What arrives from a leaf has gone through a whole path to that leaf,    *)
(* for every graph and placement: the path MergePacket takes it to have.   *)
(***************************************************************************)
THEOREM PathsKept == Spec => []PathKept
<1>1. FlowInv => PathKept
  BY AtMerger DEF PathKept, OnPath, Last
<1> QED
  BY <1>1, Flows, PTL

(***************************************************************************)
(* A copy is null at the merger exactly if a function on its path dropped  *)
(* it: no function, forwarder or loss makes or loses a drop.               *)
(***************************************************************************)
THEOREM DropsStick == Spec => []DropSticks
<1>1. FlowInv => DropSticks
  BY AtMerger DEF DropSticks, Marked
<1> QED
  BY <1>1, Flows, PTL

-----------------------------------------------------------------------------
(***************************************************************************)
(* Types.  pkt_receiver counts no further than the packet it exits with.   *)
(***************************************************************************)
Typed(d) == d.p \in Packets /\ d.null \in BOOLEAN

TypeInv ==
    /\ TypeOK
    /\ receiver = "up" => count < NumPackets
    /\ receiver = "total" => count = NumPackets

LEMMA TypeMoves ==
  ASSUME TypeOK, NEW S, \A e \in S : Typed(e),
         BagToSet(net') \subseteq BagToSet(net) \cup S,
         BagToSet(arrived') \subseteq BagToSet(arrived) \cup BagToSet(net)
  PROVE  \A d \in BagToSet(net') \cup BagToSet(arrived') : d.p \in Packets /\ d.null \in BOOLEAN
BY DEF TypeOK, Typed

LEMMA NetTypes ==
  ASSUME TypeInv, FlowInv, [Next]_vars
  PROVE  \A d \in BagToSet(net') \cup BagToSet(arrived') : d.p \in Packets /\ d.null \in BOOLEAN
<1> USE DEF TypeInv
<1>1. \A to, from : \A p \in Packets : Typed(Datagram(to, p, FALSE, from))
  BY DEF Typed, Datagram
<1>2. CASE Send
  <2> DEFINE S == {Datagram(Via(Gen, n), i, FALSE, <<>>) : n \in Sources}
  <2>1. i \in Packets
    <3>1. i \in 0 .. NumPackets /\ i < NumPackets
      BY <1>2 DEF Send, TypeOK
    <3> QED
      BY <3>1, SizeAssumption DEF Packets
  <2>2. \A e \in S : Typed(e)
    BY <1>1, <2>1
  <2>3. BagToSet(net') = BagToSet(net) \cup S /\ arrived' = arrived
    BY <1>2, PutInto DEF Send
  <2> HIDE DEF S
  <2> QED
    BY <2>2, <2>3, TypeMoves
<1>3. ASSUME NEW n \in Nodes, NEW d \in BagToSet(net), NEW sent,
             net' = Take(d) (+) SetToBag({Processed(n, d, to) : to \in sent}),
             arrived' = arrived
      PROVE  \A e \in BagToSet(net') \cup BagToSet(arrived') : e.p \in Packets /\ e.null \in BOOLEAN
  <2> DEFINE S == {Processed(n, d, to) : to \in sent}
  <2>1. ASSUME NEW to PROVE Typed(Processed(n, d, to))
    <3>1. NullAfter(n, d) \in BOOLEAN
      BY DEF NullAfter
    <3> QED
      BY <3>1 DEF Typed, Processed, Datagram, TypeOK
  <2>2. BagToSet(net') \subseteq BagToSet(net) \cup S
    BY <1>3, Taken, PutInto
  <2>3. \A e \in S : Typed(e)
    BY <2>1
  <2> HIDE DEF S
  <2> QED
    BY <1>3, <2>2, <2>3, TypeMoves
<1>4. ASSUME NEW d, net' = Take(d), BagToSet(arrived') \subseteq BagToSet(arrived) \cup BagToSet(net)
      PROVE  \A e \in BagToSet(net') \cup BagToSet(arrived') : e.p \in Packets /\ e.null \in BOOLEAN
  BY <1>4, Taken DEF TypeOK
<1>5. ASSUME NEW n \in Nodes, Forward(n)
      PROVE  \A e \in BagToSet(net') \cup BagToSet(arrived') : e.p \in Packets /\ e.null \in BOOLEAN
  <2>1. PICK d \in BagToSet(net) : net' = Take(d) (+) SetToBag({[d EXCEPT !.to = VirtualAddr(n)]})
    BY <1>5 DEF Forward
  <2>2. PICK e : e = [d EXCEPT !.to = VirtualAddr(n)]
    OBVIOUS
  <2>3. Typed(e)
    <3>1. PICK t, p, u, f : d = Datagram(t, p, u, f)
      BY DEF FlowInv, Good, Formed
    <3>2. e.p = d.p /\ e.null = d.null
      BY <2>2, <3>1 DEF Datagram
    <3> QED
      BY <3>2 DEF Typed, TypeOK
  <2>4. BagToSet(net') \subseteq BagToSet(net) \cup {e} /\ arrived' = arrived
    <3>1. arrived' = arrived
      BY <1>5 DEF Forward
    <3> QED
      BY <2>1, <2>2, <3>1, Taken, PutInto
  <2> QED
    BY <2>3, <2>4 DEF TypeOK, Typed
<1>6. CASE MergerReceive
  <2>1. PICK d \in BagToSet(net) : net' = Take(d) /\ arrived' = arrived (+) SetToBag({d})
    BY <1>6 DEF MergerReceive
  <2>2. BagToSet(arrived') = BagToSet(arrived) \cup {d}
    BY <2>1, PutInto
  <2> QED
    BY <1>4, <2>1, <2>2
<1>7. ASSUME NEW p \in Packets, Deliver(p)
      PROVE  \A e \in BagToSet(net') \cup BagToSet(arrived') : e.p \in Packets /\ e.null \in BOOLEAN
  <2>1. BagToSet(net') = BagToSet(net) \cup {Datagram(ToReceiver, p, FALSE, <<>>)} /\ arrived' = arrived
    BY <1>7, PutInto DEF Deliver
  <2> QED
    BY <1>1, <2>1, TypeMoves
<1>8. ASSUME UNCHANGED <<net, arrived>>
      PROVE  \A e \in BagToSet(net') \cup BagToSet(arrived') : e.p \in Packets /\ e.null \in BOOLEAN
  BY <1>8 DEF TypeOK
<1>9. CASE Receive \/ \E n \in Nodes : Refuse(n) \/ ForwardAtLimit(n)
  BY <1>4, <1>9 DEF Receive, Refuse, ForwardAtLimit
<1>10. CASE \E n \in Nodes : Handle(n) \/ HandleFails(n)
  BY <1>3, <1>10 DEF Handle, HandleFails
<1>11. CASE (\E n \in Nodes : Start(n)) \/ (\E m \in Machines : ForwarderFails(m)) \/ UNCHANGED vars
  BY <1>8, <1>11 DEF Start, ForwarderFails, vars
<1> QED
  BY <1>2, <1>5, <1>6, <1>7, <1>9, <1>10, <1>11 DEF Next, Network, Failure, Merge

(***************************************************************************)
(* TypeOK needs that pkt_receiver is done when its count is full.          *)
(***************************************************************************)
THEOREM TypeInvariance == Spec => []TypeInv
<1>1. Init => TypeInv
  <2> SUFFICES ASSUME Init PROVE TypeInv
    OBVIOUS
  <2>1. \A m \in Machines : sockets[m] \in 0 .. limit[m]
    <3> SUFFICES ASSUME NEW m \in Machines PROVE sockets[m] \in 0 .. limit[m]
      OBVIOUS
    <3>1. sockets[m] = Cardinality(Threads(m)) /\ limit \in Limits
      BY DEF Init
    <3>2. IsFiniteSet(Threads(m))
      BY GraphAssumption, FS_Subset DEF Threads
    <3>3. Cardinality(Threads(m)) \in Nat
      BY <3>2, FS_CardinalityType
    <3>4. limit[m] \in Nat
      BY <3>1, SizeAssumption
    <3> QED
      BY <3>1, <3>3, <3>4, LimitAssumption
  <2>2. BagToSet(net) = {} /\ BagToSet(arrived) = {}
    BY DEF Init, EmptyBag, BagToSet, SetToBag
  <2> QED
    BY <2>1, <2>2, SizeAssumption DEF Init, TypeInv, TypeOK
<1>2. TypeInv /\ FlowInv /\ [Next]_vars => TypeInv'
  <2> SUFFICES ASSUME TypeInv, FlowInv, [Next]_vars PROVE TypeInv'
    OBVIOUS
  <2>0. \A d \in BagToSet(net') \cup BagToSet(arrived') : d.p \in Packets /\ d.null \in BOOLEAN
    BY NetTypes
  <2> USE DEF TypeInv, TypeOK
  <2>1. CASE Send
    <3>1. i' \in 0 .. NumPackets
      BY <2>1, SizeAssumption DEF Send
    <3> QED
      BY <2>0, <2>1, <3>1 DEF Send
  <2>2. ASSUME NEW n \in Nodes, Handle(n) \/ HandleFails(n) \/ Refuse(n) \/ Start(n) PROVE TypeInv'
    BY <2>0, <2>2 DEF Handle, HandleFails, Refuse, Start
  <2>3. ASSUME NEW n \in Nodes, Forward(n) PROVE TypeInv'
    <3>1. MachineOf[n] \in Machines
      BY DEF Machines
    <3>2. limit[MachineOf[n]] \in Nat
      BY <3>1, SizeAssumption
    <3>3. \A m \in Machines : sockets'[m] \in 0 .. limit'[m]
      BY <2>3, <3>1, <3>2 DEF Forward, SocketsPerPacket
    <3> QED
      BY <2>0, <2>3, <3>3 DEF Forward
  <2>4. ASSUME NEW n \in Nodes, ForwardAtLimit(n) PROVE TypeInv'
    BY <2>0, <2>4 DEF ForwardAtLimit
  <2>5. ASSUME NEW m \in Machines, ForwarderFails(m) PROVE TypeInv'
    BY <2>0, <2>5 DEF ForwarderFails
  <2>6. CASE MergerReceive
    BY <2>0, <2>6 DEF MergerReceive
  <2>7. ASSUME NEW p \in Packets, Deliver(p) PROVE TypeInv'
    <3>1. delivered' \in [Packets -> 0 .. Deliveries]
      BY <2>7, SizeAssumption DEF Deliver
    <3> QED
      BY <2>0, <2>7, <3>1 DEF Deliver
  <2>8. CASE Receive
    <3>1. PICK d \in BagToSet(net) :
             /\ received' = received \cup {d.p}
             /\ IF Enough(count') THEN receiver' = "total" /\ UNCHANGED log
                ELSE log' = log \cup {d.p} /\ UNCHANGED receiver
      BY <2>8 DEF Receive
    <3>2. received' \subseteq Packets /\ log' \subseteq Packets
      BY <3>1
    <3>3. count' = count + 1 /\ count < NumPackets /\ receiver = "up"
      BY <2>8 DEF Receive
    <3>4. count' \in 0 .. NumPackets /\ (count' = NumPackets \/ count' < NumPackets)
      BY <3>3, SizeAssumption
    <3> QED
      BY <2>0, <2>8, <3>1, <3>2, <3>3, <3>4 DEF Receive, Enough
  <2>9. CASE UNCHANGED vars
    BY <2>0, <2>9 DEF vars
  <2> QED
    BY <2>1, <2>2, <2>3, <2>4, <2>5, <2>6, <2>7, <2>8, <2>9 DEF Next, Network, Failure, Merge
<1> QED
  BY <1>1, <1>2, Flows, PTL DEF Spec

(***************************************************************************)
(* The types of the pipeline's state: what a forwarder has open stays      *)
(* within its machine's limit, and pkt_receiver's count within the number  *)
(* of packets.                                                             *)
(***************************************************************************)
THEOREM TypeCorrect == Spec => []TypeOK
BY TypeInvariance, PTL DEF TypeInv

-----------------------------------------------------------------------------
(***************************************************************************)
(* A packet's copies keep apart: a function that one of them is on its way *)
(* to has been passed by none of the others, and is on no other's way.     *)
(***************************************************************************)
Heads(d, n) == d.to \in {ToNode(n), ToForwarder(n)}
Visited(d) == {d.from[j] : j \in DOMAIN d.from}

Apart(L) ==
    \A d, e \in L : d.p = e.p =>
        /\ \A n \in Nodes : Heads(d, n) => n \notin Visited(e) /\ (Heads(e, n) => e = d)
        /\ d.to[1] = "merger" /\ d.to = e.to => d = e

LEMMA Addressing ==
  /\ \A n, x : ToNode(n) # ToForwarder(x) /\ ToNode(n) # ToMerger(x) /\ ToForwarder(n) # ToMerger(x)
  /\ \A n, x : (ToNode(n) = ToNode(x) \/ ToForwarder(n) = ToForwarder(x) \/ ToMerger(n) = ToMerger(x)) => n = x
  /\ \A n : ToReceiver \notin {ToNode(n), ToForwarder(n), ToMerger(n)}
  /\ \A n : ToMerger(n)[1] = "merger" /\ ToNode(n)[1] # "merger" /\ ToForwarder(n)[1] # "merger"
  /\ ToReceiver[1] # "merger"
BY DEF ToNode, ToForwarder, ToMerger, ToReceiver

LEMMA ViaFacts ==
  \A n, t : /\ Via(n, t)[1] # "merger" /\ Via(n, t) # ToReceiver
            /\ \A x : Via(n, t) \in {ToNode(x), ToForwarder(x)} => x = t
<1> SUFFICES ASSUME NEW n, NEW t
             PROVE  /\ Via(n, t)[1] # "merger" /\ Via(n, t) # ToReceiver
                    /\ \A x : Via(n, t) \in {ToNode(x), ToForwarder(x)} => x = t
  OBVIOUS
<1>1. Via(n, t) = ToForwarder(t) \/ Via(n, t) = ToNode(t)
  BY DEF Via
<1> QED
  BY <1>1, Addressing

\* In a forest, what comes to x comes from the one y that sends to x.
LEMMA ComesFrom ==
  ASSUME NEW e, Good(e), NEW x \in Nodes, NEW y \in Nodes, x \in Neighbors[y],
         x \in Visited(e) \/ Heads(e, x)
  PROVE  y \in Visited(e)
<1>1. /\ e.from \in Seq(Nodes) /\ DOMAIN e.from = 1 .. Len(e.from) /\ Len(e.from) \in Nat
      /\ \A j \in 1 .. Len(e.from) : e.from[j] \in Nodes
  BY DEF Good, OnPath
<1>2. x \notin Sources
  BY ForestAssumption
<1>3. \A z \in Nodes : x \in Neighbors[z] => z = y
  BY ForestAssumption
<1>4. CASE x \in Visited(e)
  <2>1. PICK j \in 1 .. Len(e.from) : e.from[j] = x
    BY <1>1, <1>4 DEF Visited
  <2>2. j # 1
    BY <1>1, <1>2, <2>1 DEF Good, OnPath
  <2>3. j - 1 \in 1 .. Len(e.from) - 1 /\ j - 1 \in 1 .. Len(e.from) /\ (j - 1) + 1 = j
    BY <1>1, <2>2
  <2>4. x \in Neighbors[e.from[j - 1]]
    BY <2>1, <2>3 DEF Good, OnPath
  <2> QED
    BY <1>1, <1>3, <2>3, <2>4 DEF Visited
<1>5. CASE Heads(e, x)
  <2>1. Next1(e, x)
    BY <1>5, Addressing DEF Good, Bound, Heads
  <2>2. e.from # <<>> /\ x \in Neighbors[Last(e.from)]
    BY <1>2, <2>1 DEF Next1
  <2>3. Len(e.from) \in 1 .. Len(e.from)
    BY <1>1, <2>2
  <2> QED
    BY <1>1, <1>3, <2>2, <2>3 DEF Visited, Last
<1> QED
  BY <1>4, <1>5

\* A copy for a leaf's port at the merger comes from that leaf.
LEMMA ComesFromLeaf ==
  ASSUME NEW e, Good(e), NEW n, e.to = ToMerger(n)
  PROVE  n \in Visited(e)
<1>1. e.from # <<>> /\ Last(e.from) = n
  BY Addressing DEF Good, Bound
<1>2. e.from \in Seq(Nodes)
  BY DEF Good, OnPath
<1>3. Len(e.from) \in DOMAIN e.from
  BY <1>1, <1>2
<1> QED
  BY <1>1, <1>3 DEF Visited, Last

LEMMA ProcessedFacts ==
  ASSUME NEW n \in Nodes, NEW d, Good(d), NEW to
  PROVE  /\ Processed(n, d, to).to = to /\ Processed(n, d, to).p = d.p
         /\ Visited(Processed(n, d, to)) = Visited(d) \cup {n}
<1> DEFINE e == Processed(n, d, to)
<1>1. e.to = to /\ e.p = d.p /\ e.from = Append(d.from, n)
  BY DEF Processed, Datagram
<1>2. d.from \in Seq(Nodes)
  BY DEF Good, OnPath
<1>3. /\ DOMAIN e.from = DOMAIN d.from \cup {Len(d.from) + 1}
      /\ \A j \in DOMAIN d.from : e.from[j] = d.from[j]
      /\ e.from[Len(d.from) + 1] = n
  BY <1>1, <1>2
<1> HIDE DEF e
<1>4. Visited(e) = Visited(d) \cup {n}
  BY <1>3 DEF Visited
<1> QED
  BY <1>1, <1>4 DEF e

\* A function sends at most one copy to a place.
LEMMA AddressFacts ==
  ASSUME NEW n \in Nodes, NEW d, Good(d), NEW to \in Addresses(n), NEW x \in Nodes
  PROVE  /\ Heads(Processed(n, d, to), x) => x \in Neighbors[n] /\ to = Via(n, x)
         /\ to[1] = "merger" => to = ToMerger(n)
<1>1. Processed(n, d, to).to = to
  BY ProcessedFacts
<1>2. CASE n \in Leaves
  BY <1>1, <1>2, Addressing DEF Heads, Addresses
<1>3. CASE n \notin Leaves
  <2>1. PICK t \in Neighbors[n] : to = Via(n, t)
    BY <1>3 DEF Addresses
  <2>2. to[1] # "merger" /\ (to \in {ToNode(x), ToForwarder(x)} => x = t)
    BY <2>1, ViaFacts
  <2> QED
    BY <1>1, <2>1, <2>2 DEF Heads
<1> QED
  BY <1>2, <1>3

Passed(n, d, sent) == {Processed(n, d, to) : to \in sent}

LEMMA HandleApart ==
  ASSUME NEW L, Apart(L), \A e \in L : Good(e), NEW n \in Nodes, NEW d \in L, d.to = ToNode(n),
         NEW sent \in SUBSET Addresses(n)
  PROVE  Apart((L \ {d}) \cup Passed(n, d, sent)) /\ Passed(n, d, sent) \cap L = {}
<1> DEFINE S == Passed(n, d, sent)
<1> USE DEF Passed
<1>1. Heads(d, n) /\ n \notin Visited(d)
  BY DEF Heads, Apart
<1>2. \A e \in S : e.p = d.p /\ Visited(e) = Visited(d) \cup {n}
  BY ProcessedFacts
<1>3. ASSUME NEW e \in L \ {d}, e.p = d.p PROVE n \notin Visited(e) /\ ~Heads(e, n)
  BY <1>1, <1>3 DEF Apart
<1>4. ASSUME NEW a \in S, NEW x \in Nodes, Heads(a, x)
      PROVE  x \in Neighbors[n] /\ a = Processed(n, d, Via(n, x))
  BY <1>4, AddressFacts
<1>5. ASSUME NEW a \in S, a.to[1] = "merger" PROVE a.to = ToMerger(n) /\ a = Processed(n, d, ToMerger(n))
  BY <1>5, AddressFacts, ProcessedFacts
<1>6. S \cap L = {}
  BY <1>1, <1>2, <1>3
<1>7. ASSUME NEW a \in S, NEW b \in L \ {d}, a.p = b.p
      PROVE  /\ \A x \in Nodes : Heads(a, x) => x \notin Visited(b) /\ ~Heads(b, x)
             /\ \A x \in Nodes : Heads(b, x) => x \notin Visited(a) /\ ~Heads(a, x)
             /\ a.to[1] = "merger" => b.to # a.to
  <2>1. n \notin Visited(b) /\ ~Heads(b, n)
    BY <1>2, <1>3, <1>7
  <2>2. \A x \in Nodes : Heads(a, x) => x \notin Visited(b) /\ ~Heads(b, x)
    BY <1>4, <2>1, ComesFrom
  <2>3. \A x \in Nodes : Heads(b, x) => x \notin Visited(d)
    BY <1>2, <1>7 DEF Apart
  <2>4. a.to[1] = "merger" => b.to # a.to
    BY <1>5, <2>1, ComesFromLeaf
  <2> QED
    BY <1>2, <2>1, <2>2, <2>3, <2>4
<1>8. ASSUME NEW a \in S, NEW b \in S
      PROVE  /\ \A x \in Nodes : Heads(a, x) => x \notin Visited(b) /\ (Heads(b, x) => b = a)
             /\ a.to[1] = "merger" /\ a.to = b.to => a = b
  <2>1. ASSUME NEW x \in Nodes, Heads(a, x) PROVE x \notin Visited(b)
    <3>1. x \in Neighbors[n]
      BY <1>4, <2>1
    <3>2. x # n
      BY <1>1, <3>1, ComesFrom
    <3>3. x \notin Visited(d)
      BY <1>1, <3>1, ComesFrom
    <3> QED
      BY <1>2, <3>2, <3>3
  <2>2. \A x \in Nodes : Heads(a, x) /\ Heads(b, x) => b = a
    BY <1>4
  <2> QED
    BY <1>5, <2>1, <2>2
<1>9. Apart((L \ {d}) \cup S)
  <2> SUFFICES ASSUME NEW a \in (L \ {d}) \cup S, NEW b \in (L \ {d}) \cup S, a.p = b.p
               PROVE  /\ \A x \in Nodes : Heads(a, x) => x \notin Visited(b) /\ (Heads(b, x) => b = a)
                      /\ a.to[1] = "merger" /\ a.to = b.to => a = b
    BY DEF Apart
  <2>1. CASE a \in L /\ b \in L
    BY <2>1 DEF Apart
  <2>2. CASE a \in S /\ b \in L \ {d}
    BY <1>7, <2>2
  <2>3. CASE a \in L \ {d} /\ b \in S
    BY <1>7, <2>3
  <2>4. CASE a \in S /\ b \in S
    BY <1>8, <2>4
  <2> QED
    BY <2>1, <2>2, <2>3, <2>4
<1> QED
  BY <1>6, <1>9

LEMMA ForwardApart ==
  ASSUME NEW L, Apart(L), \A e \in L : Good(e), NEW n \in Nodes, NEW d \in L, d.to = ToForwarder(n),
         NEW e, e = [d EXCEPT !.to = VirtualAddr(n)]
  PROVE  Apart((L \ {d}) \cup {e}) /\ e \notin L
<1>1. e.to = ToNode(n) /\ e.p = d.p /\ e.from = d.from
  <2>1. PICK t, p, u, f : d = Datagram(t, p, u, f)
    BY DEF Good, Formed
  <2> QED
    BY <2>1 DEF Datagram, VirtualAddr
<1>2. Visited(e) = Visited(d) /\ \A x : Heads(e, x) <=> x = n
  BY <1>1, Addressing DEF Visited, Heads
<1>3. \A x : Heads(d, x) <=> x = n
  BY Addressing DEF Heads
<1>4. e \notin L
  BY <1>1, <1>2, <1>3, Addressing DEF Apart
<1>5. Apart((L \ {d}) \cup {e})
  <2> SUFFICES ASSUME NEW a \in (L \ {d}) \cup {e}, NEW b \in (L \ {d}) \cup {e}, a.p = b.p
               PROVE  /\ \A x \in Nodes : Heads(a, x) => x \notin Visited(b) /\ (Heads(b, x) => b = a)
                      /\ a.to[1] = "merger" /\ a.to = b.to => a = b
    BY DEF Apart
  <2>1. e.to[1] # "merger" /\ d.to[1] # "merger"
    BY <1>1, Addressing
  <2>2. CASE a \in L /\ b \in L
    BY <2>2 DEF Apart
  <2>3. CASE a = e /\ b \in L \ {d}
    BY <1>1, <1>2, <1>3, <2>1, <2>3 DEF Apart
  <2>4. CASE a \in L \ {d} /\ b = e
    BY <1>1, <1>2, <1>3, <2>1, <2>4 DEF Apart
  <2>5. CASE a = e /\ b = e
    BY <1>1, <1>2, <1>3, <2>1, <2>5 DEF Apart
  <2> QED
    BY <2>2, <2>3, <2>4, <2>5
<1> QED
  BY <1>4, <1>5

\* pkt_sender's next packet is new, and each source gets one copy.
Fresh(j) == {Datagram(Via(Gen, n), j, FALSE, <<>>) : n \in Sources}

LEMMA SendApart ==
  ASSUME NEW L, Apart(L), NEW j, \A e \in L : e.p # j
  PROVE  Apart(L \cup Fresh(j)) /\ Fresh(j) \cap L = {}
<1> DEFINE S == Fresh(j)
<1>0. ASSUME NEW a \in S
      PROVE  /\ a.p = j /\ Visited(a) = {} /\ a.to[1] # "merger"
             /\ \A x \in Nodes : Heads(a, x) => a = Datagram(Via(Gen, x), j, FALSE, <<>>)
  <2>1. PICK n \in Sources : a = Datagram(Via(Gen, n), j, FALSE, <<>>)
    BY DEF Fresh
  <2>2. a.p = j /\ a.to = Via(Gen, n) /\ a.from = <<>>
    BY <2>1 DEF Datagram
  <2>3. Visited(a) = {}
    BY <2>2 DEF Visited
  <2>4. ASSUME NEW x \in Nodes, Heads(a, x) PROVE x = n
    BY <2>2, <2>4, ViaFacts DEF Heads
  <2> QED
    BY <2>1, <2>2, <2>3, <2>4, ViaFacts
<1>1. \A a \in S : a.p = j /\ Visited(a) = {} /\ a.to[1] # "merger"
  BY <1>0
<1>2. ASSUME NEW a \in S, NEW x \in Nodes, Heads(a, x) PROVE a = Datagram(Via(Gen, x), j, FALSE, <<>>)
  BY <1>0, <1>2
<1> HIDE DEF S
<1>3. Apart(L \cup S)
  <2> SUFFICES ASSUME NEW a \in L \cup S, NEW b \in L \cup S, a.p = b.p
               PROVE  /\ \A x \in Nodes : Heads(a, x) => x \notin Visited(b) /\ (Heads(b, x) => b = a)
                      /\ a.to[1] = "merger" /\ a.to = b.to => a = b
    BY DEF Apart
  <2>1. CASE a \in L /\ b \in L
    BY <2>1 DEF Apart
  <2>2. CASE a \in S /\ b \in S
    BY <1>1, <1>2, <2>2
  <2> QED
    BY <1>1, <2>1, <2>2
<1>4. S \cap L = {}
  BY <1>1
<1> QED
  BY <1>3, <1>4 DEF S

-----------------------------------------------------------------------------
(***************************************************************************)
(* So the network holds every copy once, and a port of the merger gets a   *)
(* packet once.                                                            *)
(***************************************************************************)
Copies == {d \in BagToSet(net) \cup BagToSet(arrived) : d.to # ToReceiver}

OnceInv ==
    /\ IsABag(net) /\ IsABag(arrived)
    /\ \A d \in BagToSet(net) : d.to # ToReceiver => net[d] = 1 /\ d \notin BagToSet(arrived)
    /\ \A d \in BagToSet(arrived) : arrived[d] = 1
    /\ \A d \in Copies : d.p < i
    /\ Apart(Copies)

LEMMA TakenFacts ==
  ASSUME IsABag(net), NEW d
  PROVE  /\ IsABag(Take(d)) /\ BagToSet(Take(d)) \subseteq BagToSet(net)
         /\ \A e \in BagToSet(net) \ {d} : e \in BagToSet(Take(d)) /\ Take(d)[e] = net[e]
         /\ d \in BagToSet(net) /\ net[d] = 1 => d \notin BagToSet(Take(d))
BY DEF Take, IsABag, BagToSet, SetToBag, (-)

LEMMA PutFacts ==
  ASSUME NEW b, IsABag(b), NEW S
  PROVE  /\ IsABag(b (+) SetToBag(S))
         /\ \A e \in BagToSet(b) \ S : (b (+) SetToBag(S))[e] = b[e]
         /\ \A e \in S \ BagToSet(b) : (b (+) SetToBag(S))[e] = 1
BY DEF IsABag, BagToSet, SetToBag, (+)

LEMMA ApartSubset == ASSUME NEW L, Apart(L), NEW K \in SUBSET L PROVE Apart(K)
BY DEF Apart

\* A copy is taken from the network and new ones are put into it.
LEMMA OnceMoves ==
  ASSUME OnceInv, NEW d \in BagToSet(net), d.to # ToReceiver,
         NEW S, S \cap Copies = {}, \A e \in S : e.to # ToReceiver /\ e.p < i,
         Apart((Copies \ {d}) \cup S),
         net' = Take(d) (+) SetToBag(S), arrived' = arrived, i' = i
  PROVE  OnceInv'
<1> DEFINE t == Take(d)
<1>1. /\ IsABag(t) /\ d \notin BagToSet(t) /\ BagToSet(t) \subseteq BagToSet(net)
      /\ \A e \in BagToSet(t) : t[e] = net[e]
  BY TakenFacts DEF OnceInv
<1> HIDE DEF t
<1>2. /\ IsABag(net') /\ BagToSet(net') = BagToSet(t) \cup S
      /\ \A e \in BagToSet(t) \ S : net'[e] = t[e]
      /\ \A e \in S \ BagToSet(t) : net'[e] = 1
  BY <1>1, PutFacts, PutInto DEF t
<1>3. S \cap (BagToSet(net) \cup BagToSet(arrived)) = {}
  BY DEF Copies
<1>4. Copies' \subseteq (Copies \ {d}) \cup S
  BY <1>1, <1>2 DEF Copies, OnceInv
<1>5. Apart(Copies')
  BY <1>4, ApartSubset
<1>6. \A e \in BagToSet(net') : e.to # ToReceiver => net'[e] = 1 /\ e \notin BagToSet(arrived')
  BY <1>1, <1>2, <1>3 DEF OnceInv
<1>7. \A e \in Copies' : e.p < i'
  BY <1>4 DEF OnceInv
<1> QED
  BY <1>2, <1>5, <1>6, <1>7 DEF OnceInv

\* A datagram is taken from the network, whoever it is for.
LEMMA OnceTakes ==
  ASSUME OnceInv, NEW d \in BagToSet(net), net' = Take(d), arrived' = arrived, i' = i
  PROVE  OnceInv'
<1>1. /\ IsABag(net') /\ BagToSet(net') \subseteq BagToSet(net)
      /\ \A e \in BagToSet(net) \ {d} : net'[e] = net[e]
      /\ net[d] = 1 => d \notin BagToSet(net')
  BY TakenFacts DEF OnceInv
<1>2. Copies' \subseteq Copies
  BY <1>1 DEF Copies
<1>3. Apart(Copies')
  BY <1>2, ApartSubset DEF OnceInv
<1>4. \A e \in Copies' : e.p < i'
  BY <1>2 DEF OnceInv
<1>5. \A e \in BagToSet(net') : e.to # ToReceiver => net'[e] = 1 /\ e \notin BagToSet(arrived')
  BY <1>1 DEF OnceInv
<1> QED
  BY <1>1, <1>3, <1>4, <1>5 DEF OnceInv

LEMMA OnceStep == ASSUME OnceInv, FlowInv, TypeInv, [Next]_vars PROVE OnceInv'
<1>0. \A e \in Copies : Good(e)
  BY DEF Copies, FlowInv
<1>1. CASE Send
  <2> DEFINE S == Fresh(i)
  <2>1. i \in Int /\ \A e \in Copies : e.p \in Int /\ e.p < i
    BY SizeAssumption DEF TypeInv, TypeOK, Copies, OnceInv, Packets
  <2>2. \A e \in S : e.p = i /\ e.to # ToReceiver
    BY ViaFacts DEF Datagram, Fresh
  <2>3. Apart(Copies \cup S) /\ S \cap Copies = {}
    <3>1. \A e \in Copies : e.p # i
      BY <2>1
    <3>2. Apart(Copies)
      BY DEF OnceInv
    <3> QED
      BY <3>1, <3>2, SendApart
  <2>4. net' = net (+) SetToBag(S) /\ i' = i + 1 /\ arrived' = arrived
    BY <1>1 DEF Send, Fresh
  <2> HIDE DEF S
  <2>5. /\ IsABag(net') /\ BagToSet(net') = BagToSet(net) \cup S
        /\ \A e \in BagToSet(net) \ S : net'[e] = net[e]
        /\ \A e \in S \ BagToSet(net) : net'[e] = 1
    BY <2>4, PutFacts, PutInto DEF OnceInv
  <2>6. S \cap (BagToSet(net) \cup BagToSet(arrived)) = {}
    BY <2>2, <2>3 DEF Copies
  <2>7. Copies' = Copies \cup S
    BY <2>2, <2>4, <2>5 DEF Copies
  <2>8. \A e \in Copies' : e.p < i'
    BY <2>1, <2>2, <2>4, <2>7
  <2>9. \A e \in BagToSet(net') : e.to # ToReceiver => net'[e] = 1 /\ e \notin BagToSet(arrived')
    BY <2>4, <2>5, <2>6 DEF OnceInv
  <2> QED
    BY <2>3, <2>4, <2>5, <2>7, <2>8, <2>9 DEF OnceInv
<1>2. ASSUME NEW n \in Nodes, NEW d \in BagToSet(net), d.to = ToNode(n),
             NEW sent \in SUBSET Addresses(n),
             net' = Take(d) (+) SetToBag({Processed(n, d, to) : to \in sent}),
             arrived' = arrived, i' = i
      PROVE  OnceInv'
  <2> DEFINE S == Passed(n, d, sent)
  <2>1. d \in Copies /\ Good(d) /\ d.to # ToReceiver
    BY <1>2, Addressing DEF Copies, FlowInv
  <2>2. Apart((Copies \ {d}) \cup S) /\ S \cap Copies = {}
    <3>1. Apart(Copies)
      BY DEF OnceInv
    <3> QED
      BY <1>0, <1>2, <2>1, <3>1, HandleApart
  <2>3. \A e \in S : e.to # ToReceiver /\ e.p < i
    <3>1. d.p < i
      BY <2>1 DEF OnceInv
    <3>2. \A to \in Addresses(n) : to # ToReceiver
      BY Addressing, ViaFacts DEF Addresses
    <3> QED
      BY <2>1, <3>1, <3>2, ProcessedFacts DEF Passed
  <2>4. net' = Take(d) (+) SetToBag(S)
    BY <1>2 DEF Passed
  <2> HIDE DEF S
  <2> QED
    BY <1>2, <2>1, <2>2, <2>3, <2>4, OnceMoves
<1>3. ASSUME NEW n \in Nodes, Handle(n) \/ HandleFails(n) PROVE OnceInv'
  BY <1>2, <1>3 DEF Handle, HandleFails
<1>4. ASSUME NEW n \in Nodes, Refuse(n) \/ ForwardAtLimit(n) PROVE OnceInv'
  BY <1>4, OnceTakes DEF Refuse, ForwardAtLimit
<1>5. ASSUME NEW n \in Nodes, Forward(n) PROVE OnceInv'
  <2>1. PICK d \in BagToSet(net) :
          /\ d.to = ToForwarder(n)
          /\ net' = Take(d) (+) SetToBag({[d EXCEPT !.to = VirtualAddr(n)]})
    BY <1>5 DEF Forward
  <2>2. PICK e : e = [d EXCEPT !.to = VirtualAddr(n)]
    OBVIOUS
  <2>3. net' = Take(d) (+) SetToBag({e}) /\ arrived' = arrived /\ i' = i
    <3>1. arrived' = arrived /\ i' = i
      BY <1>5 DEF Forward
    <3> QED
      BY <2>1, <2>2, <3>1
  <2>4. d \in Copies /\ d.to # ToReceiver /\ Apart(Copies) /\ d.p < i
    BY <2>1, Addressing DEF Copies, OnceInv
  <2>5. Apart((Copies \ {d}) \cup {e}) /\ e \notin Copies
    BY <1>0, <2>1, <2>2, <2>4, ForwardApart
  <2>6. e.to # ToReceiver /\ e.p = d.p
    <3>1. PICK t, p, u, f : d = Datagram(t, p, u, f)
      BY <1>0, <2>4 DEF Good, Formed
    <3>2. e.to = ToNode(n) /\ e.p = d.p
      BY <2>2, <3>1 DEF Datagram, VirtualAddr
    <3> QED
      BY <3>2, Addressing
  <2> QED
    BY <2>3, <2>4, <2>5, <2>6, OnceMoves
<1>6. CASE MergerReceive
  <2>1. PICK d \in BagToSet(net) : /\ d.to[1] = "merger" /\ net' = Take(d)
                                   /\ arrived' = arrived (+) SetToBag({d})
    BY <1>6 DEF MergerReceive
  <2>2. d.to # ToReceiver /\ net[d] = 1 /\ d \notin BagToSet(arrived) /\ i' = i
    BY <1>6, <2>1, Addressing DEF OnceInv, MergerReceive
  <2>3. /\ IsABag(net') /\ BagToSet(net') \subseteq BagToSet(net) \ {d}
        /\ \A e \in BagToSet(net') : net'[e] = net[e]
    BY <2>1, <2>2, TakenFacts DEF OnceInv
  <2>4. /\ IsABag(arrived') /\ BagToSet(arrived') = BagToSet(arrived) \cup {d}
        /\ \A e \in BagToSet(arrived') : arrived'[e] = 1
    BY <2>1, <2>2, PutFacts, PutInto DEF OnceInv
  <2>5. Copies' \subseteq Copies
    BY <2>1, <2>3, <2>4 DEF Copies
  <2>6. Apart(Copies')
    BY <2>5, ApartSubset DEF OnceInv
  <2>7. \A e \in Copies' : e.p < i'
    BY <2>2, <2>5 DEF OnceInv
  <2>8. \A e \in BagToSet(net') : e.to # ToReceiver => net'[e] = 1 /\ e \notin BagToSet(arrived')
    BY <2>3, <2>4 DEF OnceInv
  <2> QED
    BY <2>3, <2>4, <2>6, <2>7, <2>8 DEF OnceInv
<1>7. ASSUME NEW p \in Packets, Deliver(p) PROVE OnceInv'
  <2> DEFINE r == Datagram(ToReceiver, p, FALSE, <<>>)
  <2>1. net' = net (+) SetToBag({r}) /\ arrived' = arrived /\ i' = i
    BY <1>7 DEF Deliver
  <2>2. r.to = ToReceiver
    BY DEF Datagram
  <2> HIDE DEF r
  <2>3. /\ IsABag(net') /\ BagToSet(net') = BagToSet(net) \cup {r}
        /\ \A e \in BagToSet(net) \ {r} : net'[e] = net[e]
    BY <2>1, PutFacts, PutInto DEF OnceInv
  <2>4. Copies' = Copies
    BY <2>1, <2>2, <2>3 DEF Copies
  <2>5. \A e \in BagToSet(net') : e.to # ToReceiver => net'[e] = 1 /\ e \notin BagToSet(arrived')
    BY <2>1, <2>2, <2>3 DEF OnceInv
  <2> QED
    BY <2>1, <2>3, <2>4, <2>5 DEF OnceInv
<1>8. CASE Receive
  BY <1>8, OnceTakes DEF Receive
<1>9. ASSUME UNCHANGED <<net, arrived, i>> PROVE OnceInv'
  BY <1>9 DEF OnceInv, Copies
<1>10. CASE (\E n \in Nodes : Start(n)) \/ (\E m \in Machines : ForwarderFails(m)) \/ UNCHANGED vars
  BY <1>9, <1>10 DEF Start, ForwarderFails, vars
<1> QED
  BY <1>1, <1>3, <1>4, <1>5, <1>6, <1>7, <1>8, <1>10 DEF Next, Network, Failure, Merge

(***************************************************************************)
(* On a forest no datagram for a function or the merger is twice in the    *)
(* network, and the copies of a packet keep apart.                         *)
(***************************************************************************)
THEOREM CopiesApart == Spec => []OnceInv
<1>1. Init => OnceInv
  BY DEF Init, OnceInv, Copies, Apart, EmptyBag, IsABag, BagToSet, SetToBag
<1>2. OnceInv /\ FlowInv /\ TypeInv /\ [Next]_vars => OnceInv'
  BY OnceStep
<1> QED
  BY <1>1, <1>2, Flows, TypeInvariance, PTL DEF Spec

\* An id names one packet: as long as there are no more packets than ids.
LEMMA IdsDiffer == ASSUME NEW p \in Packets, NEW q \in Packets, Id(p) = Id(q) PROVE p = q
<1> DEFINE h == IdSpace \div 2
<1>1. /\ IdSpace \in Nat /\ IdSpace > 0 /\ h \in Nat /\ h <= IdSpace
      /\ p \in Nat /\ q \in Nat /\ p < IdSpace /\ q < IdSpace
  BY SizeAssumption DEF Packets
<1>2. (h + p) % IdSpace = (h + q) % IdSpace
  BY DEF Id
<1> HIDE DEF h
<1>3. ASSUME NEW x \in Nat, x < 2 * IdSpace
      PROVE  x % IdSpace = IF x < IdSpace THEN x ELSE x - IdSpace
  BY <1>1, <1>3
<1>4. /\ (h + p) % IdSpace = IF h + p < IdSpace THEN h + p ELSE h + p - IdSpace
      /\ (h + q) % IdSpace = IF h + q < IdSpace THEN h + q ELSE h + q - IdSpace
  BY <1>1, <1>3
<1> QED
  BY <1>1, <1>2, <1>4

(***************************************************************************)
(* A leaf's port at the merger receives an id at most once, on any forest  *)
(* and any placement and whatever is lost or fails: the environment        *)
(* MergerOperator assumes.                                                 *)
(***************************************************************************)
THEOREM CopiesOnce == Spec => []AtMostOnce
<1>1. ASSUME OnceInv, FlowInv, TypeInv PROVE AtMostOnce
  <2>1. ASSUME NEW d \in BagToSet(arrived), NEW e \in BagToSet(arrived),
               d.to = e.to, Id(d.p) = Id(e.p)
        PROVE  d = e
    <3>1. d \in Copies /\ e \in Copies /\ d.to[1] = "merger"
      BY <1>1, Addressing DEF FlowInv, Copies
    <3>2. d.p \in Packets /\ e.p \in Packets
      BY <1>1 DEF TypeInv, TypeOK
    <3>3. d.p = e.p
      BY <2>1, <3>2, IdsDiffer
    <3> QED
      BY <1>1, <2>1, <3>1, <3>3 DEF OnceInv, Apart
  <2> QED
    BY <1>1, <2>1 DEF AtMostOnce, OnceInv
<1> QED
  BY <1>1, CopiesApart, Flows, TypeInvariance, PTL

-----------------------------------------------------------------------------
(***************************************************************************)
(* pkt_receiver's count.  If the merger sends no packet twice, what is on  *)
(* its way to the receiver is new to it, and the count is the number of    *)
(* the packets received.                                                   *)
(***************************************************************************)
Single == \A p \in Packets : delivered[p] <= 1
Receivers == {d \in BagToSet(net) : d.to = ToReceiver}

CountInv ==
    /\ IsFiniteSet(received)
    /\ \A d \in Receivers : d = Datagram(ToReceiver, d.p, FALSE, <<>>) /\ delivered[d.p] > 0
    /\ \A p \in received : delivered[p] > 0
    /\ Single => /\ \A d \in Receivers : net[d] = 1 /\ d.p \notin received
                 /\ Cardinality(received) = count

\* A step that the receiver and the merger's sending have no part in.
LEMMA CountKept ==
  ASSUME CountInv, Receivers' \subseteq Receivers, \A d \in Receivers' : net'[d] = net[d],
         received' = received, count' = count, delivered' = delivered
  PROVE  CountInv'
<1>1. \A d \in Receivers' : d = Datagram(ToReceiver, d.p, FALSE, <<>>)
  BY DEF CountInv
<1>2. \A d \in Receivers' : delivered'[d.p] > 0
  BY DEF CountInv
<1>3. Single' => Single
  BY DEF Single
<1>4. Single' => /\ \A d \in Receivers' : net'[d] = 1 /\ d.p \notin received'
                 /\ Cardinality(received') = count'
  BY <1>3 DEF CountInv
<1>5. IsFiniteSet(received') /\ \A p \in received' : delivered'[p] > 0
  BY DEF CountInv
<1> QED
  BY <1>1, <1>2, <1>4, <1>5 DEF CountInv

LEMMA CountMoves ==
  ASSUME CountInv, IsABag(net), NEW d \in BagToSet(net), d.to # ToReceiver,
         NEW S, \A e \in S : e.to # ToReceiver,
         net' = Take(d) (+) SetToBag(S),
         received' = received, count' = count, delivered' = delivered
  PROVE  CountInv'
<1> DEFINE t == Take(d)
<1>1. /\ IsABag(t) /\ BagToSet(t) \subseteq BagToSet(net)
      /\ \A e \in BagToSet(net) \ {d} : t[e] = net[e]
  BY TakenFacts
<1> HIDE DEF t
<1>2. /\ BagToSet(net') = BagToSet(t) \cup S
      /\ \A e \in BagToSet(t) \ S : net'[e] = t[e]
  BY <1>1, PutFacts, PutInto DEF t
<1>3. Receivers' \subseteq Receivers /\ \A e \in Receivers' : net'[e] = net[e]
  BY <1>1, <1>2 DEF Receivers
<1> QED
  BY <1>3, CountKept

LEMMA CountTakes ==
  ASSUME CountInv, IsABag(net), NEW d \in BagToSet(net), d.to # ToReceiver, net' = Take(d),
         received' = received, count' = count, delivered' = delivered
  PROVE  CountInv'
<1>1. /\ BagToSet(net') \subseteq BagToSet(net)
      /\ \A e \in BagToSet(net) \ {d} : net'[e] = net[e]
  BY TakenFacts
<1>2. Receivers' \subseteq Receivers /\ \A e \in Receivers' : net'[e] = net[e]
  BY <1>1 DEF Receivers
<1> QED
  BY <1>2, CountKept

LEMMA CountStep == ASSUME CountInv, OnceInv, TypeInv, [Next]_vars PROVE CountInv'
<1>0. IsABag(net)
  BY DEF OnceInv
<1>1. CASE Send
  <2>1. \A e \in Fresh(i) : e.to # ToReceiver
    BY ViaFacts DEF Fresh, Datagram
  <2>2. net' = net (+) SetToBag(Fresh(i)) /\ UNCHANGED <<received, count, delivered>>
    BY <1>1 DEF Send, Fresh
  <2>3. /\ BagToSet(net') = BagToSet(net) \cup Fresh(i)
        /\ \A e \in BagToSet(net) \ Fresh(i) : net'[e] = net[e]
    BY <1>0, <2>2, PutFacts, PutInto
  <2>4. Receivers' \subseteq Receivers /\ \A e \in Receivers' : net'[e] = net[e]
    BY <2>1, <2>3 DEF Receivers
  <2> QED
    BY <2>2, <2>4, CountKept
<1>2. ASSUME NEW n \in Nodes, NEW d \in BagToSet(net), d.to = ToNode(n),
             NEW sent \in SUBSET Addresses(n),
             net' = Take(d) (+) SetToBag(Passed(n, d, sent)),
             UNCHANGED <<received, count, delivered>>
      PROVE  CountInv'
  <2>1. d.to # ToReceiver
    BY <1>2, Addressing
  <2>2. \A e \in Passed(n, d, sent) : e.to # ToReceiver
    <3>1. \A to \in Addresses(n) : to # ToReceiver
      BY Addressing, ViaFacts DEF Addresses
    <3> QED
      BY <3>1 DEF Passed, Processed, Datagram
  <2> QED
    BY <1>0, <1>2, <2>1, <2>2, CountMoves
<1>3. ASSUME NEW n \in Nodes, Handle(n) \/ HandleFails(n) PROVE CountInv'
  BY <1>2, <1>3 DEF Handle, HandleFails, Passed
<1>4. ASSUME NEW n \in Nodes, Refuse(n) \/ ForwardAtLimit(n) PROVE CountInv'
  BY <1>0, <1>4, CountTakes, Addressing DEF Refuse, ForwardAtLimit
<1>5. ASSUME NEW n \in Nodes, Forward(n) PROVE CountInv'
  <2>1. PICK d \in BagToSet(net) :
          /\ d.to = ToForwarder(n)
          /\ net' = Take(d) (+) SetToBag({[d EXCEPT !.to = VirtualAddr(n)]})
    BY <1>5 DEF Forward
  <2>2. PICK e : e = [d EXCEPT !.to = VirtualAddr(n)]
    OBVIOUS
  <2>3. d.to # ToReceiver /\ e.to # ToReceiver
    BY <2>1, <2>2, Addressing DEF VirtualAddr
  <2>4. net' = Take(d) (+) SetToBag({e}) /\ received' = received /\ count' = count /\ delivered' = delivered
    <3>1. received' = received /\ count' = count /\ delivered' = delivered
      BY <1>5 DEF Forward
    <3> QED
      BY <2>1, <2>2, <3>1
  <2> QED
    BY <1>0, <2>3, <2>4, CountMoves
<1>6. CASE MergerReceive
  BY <1>0, <1>6, CountTakes, Addressing DEF MergerReceive
<1>7. ASSUME NEW p \in Packets, Deliver(p) PROVE CountInv'
  <2> DEFINE r == Datagram(ToReceiver, p, FALSE, <<>>)
  <2>1. /\ net' = net (+) SetToBag({r}) /\ received' = received /\ count' = count
        /\ delivered' = [delivered EXCEPT ![p] = @ + 1]
    BY <1>7 DEF Deliver
  <2>2. r.to = ToReceiver /\ r.p = p /\ r = Datagram(ToReceiver, r.p, FALSE, <<>>)
    BY DEF Datagram
  <2>3. delivered \in [Packets -> Nat]
    BY SizeAssumption DEF TypeInv, TypeOK
  <2> HIDE DEF r
  <2>4. /\ BagToSet(net') = BagToSet(net) \cup {r}
        /\ \A e \in BagToSet(net) \ {r} : net'[e] = net[e]
        /\ r \notin BagToSet(net) => net'[r] = 1
    BY <1>0, <2>1, PutFacts, PutInto
  <2>5. Receivers' = Receivers \cup {r}
    BY <2>2, <2>4 DEF Receivers
  <2>6. /\ delivered'[p] = delivered[p] + 1 /\ delivered[p] \in Nat
        /\ \A q \in Packets : q # p => delivered'[q] = delivered[q] /\ delivered[q] \in Nat
    BY <2>1, <2>3
  <2>7. received \subseteq Packets /\ \A d \in Receivers : d.p \in Packets
    BY DEF TypeInv, TypeOK, Receivers
  <2>8. /\ \A d \in Receivers' : d = Datagram(ToReceiver, d.p, FALSE, <<>>) /\ delivered'[d.p] > 0
        /\ \A q \in received' : delivered'[q] > 0
    <3>1. \A q \in Packets : q = p \/ delivered[q] > 0 => delivered'[q] > 0
      BY <2>6
    <3>2. \A d \in Receivers' : d = Datagram(ToReceiver, d.p, FALSE, <<>>)
      BY <2>2, <2>5 DEF CountInv
    <3>3. \A d \in Receivers' : delivered'[d.p] > 0
      BY <2>2, <2>5, <2>7, <3>1 DEF CountInv
    <3>4. \A q \in received' : delivered'[q] > 0
      BY <2>1, <2>7, <3>1 DEF CountInv
    <3> QED
      BY <3>2, <3>3, <3>4
  <2>9. ASSUME Single'
        PROVE  /\ \A d \in Receivers' : net'[d] = 1 /\ d.p \notin received'
               /\ Cardinality(received') = count'
    <3>1. Single /\ delivered[p] = 0
      BY <2>6, <2>9 DEF Single
    <3>2. p \notin received /\ r \notin Receivers
      <4>1. \A d \in Receivers : delivered[d.p] > 0
        BY DEF CountInv
      <4>2. \A q \in received : delivered[q] > 0
        BY DEF CountInv
      <4>3. ~(delivered[p] > 0)
        BY <3>1
      <4>4. p \notin received
        BY <4>2, <4>3
      <4>5. r \notin Receivers
        BY <2>2, <4>1, <4>3
      <4> QED
        BY <4>4, <4>5
    <3>3. r \notin BagToSet(net)
      BY <2>2, <3>2 DEF Receivers
    <3>4. \A d \in Receivers : net'[d] = 1 /\ d.p \notin received
      BY <2>4, <3>1, <3>2 DEF CountInv, Receivers
    <3>5. net'[r] = 1 /\ r.p \notin received
      BY <2>2, <2>4, <3>2, <3>3
    <3>6. Cardinality(received) = count
      BY <3>1 DEF CountInv
    <3> QED
      BY <2>1, <2>5, <3>4, <3>5, <3>6
  <2> QED
    BY <2>1, <2>8, <2>9 DEF CountInv
<1>8. CASE Receive
  <2>1. PICK d \in BagToSet(net) :
          d.to = ToReceiver /\ net' = Take(d) /\ received' = received \cup {d.p}
    BY <1>8 DEF Receive
  <2>2. count' = count + 1 /\ delivered' = delivered
    BY <1>8 DEF Receive
  <2>3. d \in Receivers /\ IsFiniteSet(received)
    BY <2>1 DEF Receivers, CountInv
  <2>4. IsFiniteSet(received')
    BY <2>1, <2>3, FS_AddElement
  <2>5. /\ BagToSet(net') \subseteq BagToSet(net)
        /\ \A e \in BagToSet(net) \ {d} : net'[e] = net[e]
        /\ net[d] = 1 => d \notin BagToSet(net')
    BY <1>0, <2>1, TakenFacts
  <2>6. Receivers' \subseteq Receivers
    BY <2>5 DEF Receivers
  <2>7. /\ \A e \in Receivers' : e = Datagram(ToReceiver, e.p, FALSE, <<>>) /\ delivered'[e.p] > 0
        /\ \A q \in received' : delivered'[q] > 0
    BY <2>1, <2>2, <2>3, <2>6 DEF CountInv
  <2>8. ASSUME Single'
        PROVE  /\ \A e \in Receivers' : net'[e] = 1 /\ e.p \notin received'
               /\ Cardinality(received') = count'
    <3>1. Single
      BY <2>2, <2>8 DEF Single
    <3>2. d.p \notin received /\ net[d] = 1 /\ Cardinality(received) = count
      BY <2>3, <3>1 DEF CountInv
    <3>3. Cardinality(received') = count'
      BY <2>1, <2>2, <2>3, <3>2, FS_AddElement
    <3>4. \A e \in Receivers' : e # d /\ net'[e] = net[e]
      BY <2>5, <3>2 DEF Receivers
    <3>5. ASSUME NEW e \in Receivers' PROVE e.p # d.p
      <4>1. /\ e = Datagram(ToReceiver, e.p, FALSE, <<>>)
            /\ d = Datagram(ToReceiver, d.p, FALSE, <<>>)
        BY <2>3, <2>6 DEF CountInv
      <4> QED
        BY <3>4, <4>1
    <3> QED
      BY <2>1, <2>6, <3>1, <3>3, <3>4, <3>5 DEF CountInv
  <2> QED
    BY <2>4, <2>7, <2>8 DEF CountInv
<1>9. ASSUME UNCHANGED <<net, received, count, delivered>> PROVE CountInv'
  BY <1>9 DEF CountInv, Receivers, Single
<1>10. CASE (\E n \in Nodes : Start(n)) \/ (\E m \in Machines : ForwarderFails(m)) \/ UNCHANGED vars
  BY <1>9, <1>10 DEF Start, ForwarderFails, vars
<1> QED
  BY <1>1, <1>3, <1>4, <1>5, <1>6, <1>7, <1>8, <1>10 DEF Next, Network, Failure, Merge

(***************************************************************************)
(* If the merger sends no packet twice (what MergerOperator's runs show it *)
(* may do), the total time pkt_receiver prints is that of all packets.     *)
(***************************************************************************)
THEOREM TotalOfAll == Spec => []TotalIsTotal
<1>1. Init => CountInv
  <2> SUFFICES ASSUME Init PROVE CountInv
    OBVIOUS
  <2>1. Receivers = {} /\ received = {} /\ count = 0
    BY DEF Init, Receivers, EmptyBag, BagToSet, SetToBag
  <2>2. IsFiniteSet({}) /\ Cardinality({}) = 0
    BY FS_EmptySet
  <2> QED
    BY <2>1, <2>2 DEF CountInv
<1>2. CountInv /\ OnceInv /\ TypeInv /\ [Next]_vars => CountInv'
  BY CountStep
<1>3. CountInv /\ TypeInv => TotalIsTotal
  <2> SUFFICES ASSUME CountInv, TypeInv, receiver = "total", Single PROVE received = Packets
    BY DEF TotalIsTotal, Single
  <2>1. received \subseteq Packets /\ Cardinality(received) = NumPackets
    BY DEF TypeInv, TypeOK, CountInv
  <2>2. IsFiniteSet(Packets) /\ Cardinality(Packets) = NumPackets
    BY SizeAssumption, FS_Interval DEF Packets
  <2> QED
    BY <2>1, <2>2, FS_Subset
<1> QED
  BY <1>1, <1>2, <1>3, CopiesApart, TypeInvariance, PTL DEF Spec
===============================================================================
