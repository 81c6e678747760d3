-------------------------- MODULE MCMergerOperator --------------------------
(* Small instances of MergerOperator for TLC.                              *)
EXTENDS MergerOperator, TLC

CONSTANTS
    IdSpace,     \* 2^16 in the program
    MaxReceived  \* datagrams received in a run (a bound)

\* pkt_sender numbers packet i with 2^15 + i, cut to 16 bits by htons.
MCPktId(i) == ((IdSpace \div 2) + i) % IdSpace
MCIds == 0 .. IdSpace - 1
MCPackets == 0 .. 1

\* The id space has wrapped round: the packets of the run share one id.
MCWrapped(p) == 0

\* Leaves are alike, and so are copies of a datagram and packets of one id.
MCSymmetry == Permutations(Nodes) \cup Permutations(Copies) \cup Permutations(Packets)

\* Once MaxReceived datagrams have come in, no state with more is explored.
ReceivedBound == Cardinality(received) <= MaxReceived
=============================================================================
