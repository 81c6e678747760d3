--------------------------- MODULE MCMergePacket ---------------------------
(* Service graphs for TLC, from the repository's inputs and MergerInfo.    *)
EXTENDS MergePacket, InputGraphs

\* Three functions in parallel after pktgen: each pair of them, both ways.
Three ==
    {Graph(0 :> "pktgen" @@ 1 :> "dnf_firewall" @@ 2 :> "proxy" @@ 3 :> "compressor",
           1 :> <<0, 1>> @@ 2 :> <<0, 2>> @@ 3 :> <<0, 3>>, s) :
        s \in Orders({Conflict(a, b, 0) : a \in 1 .. 3, b \in 1 .. 3}
                     \ {Conflict(a, a, 0) : a \in 1 .. 3})}

\* MergerInfo::get_dummy_merger_info, as it is and as its comment has it.
Dummy == {Graph(0 :> "dnf_firewall" @@ 1 :> "proxy", 0 :> <<0>> @@ 1 :> <<1>>, <<>>)}
\* The latter also with its first two the other way round.
DummyRanked ==
    {Graph(0 :> "compressor" @@ 1 :> "proxy" @@ 2 :> "proxy" @@ 3 :> "compressor",
           1 :> <<0, 1>> @@ 2 :> <<0, 2>> @@ 3 :> <<3>>, <<c, Conflict(1, 2, 0)>>) :
        c \in {Conflict(3, 0, NoParent), Conflict(0, 3, NoParent)}}

MCGraphs == Complex \cup Test \cup Three \cup Dummy \cup DummyRanked

\* compressor before proxy before dnf_loadbalancer, after pktgen: the first
\* two can run in parallel, the load balancer must follow the proxy.
MCChain ==
    {Graph(0 :> "compressor" @@ 1 :> "proxy" @@ 2 :> "dnf_loadbalancer" @@ 3 :> "pktgen",
           0 :> <<3, 0>> @@ 2 :> <<3, 1, 2>>, s) :
        s \in Orders({Conflict(0, 1, 3), Conflict(1, 0, 3)})}

\* Four functions in parallel after pktgen, with the priorities
\* [dnf_firewall, proxy] and [compressor, NetFlow]; NetFlow is in the action
\* table and stringToNF makes it a firewall.  The proxy may not precede
\* NetFlow; every other pair is in the list.
FourConflicts == {Conflict(a, b, 0) : a \in 1 .. 4, b \in 1 .. 4}
                 \ ({Conflict(a, a, 0) : a \in 1 .. 4} \cup {Conflict(2, 4, 0)})
MCFour ==
    {Graph(0 :> "pktgen" @@ 1 :> "dnf_firewall" @@ 2 :> "proxy" @@ 3 :> "compressor"
              @@ 4 :> "dnf_firewall",
           1 :> <<0, 1>> @@ 2 :> <<0, 2>> @@ 3 :> <<0, 3>> @@ 4 :> <<0, 4>>,
           FlattenSeq([i \in 1 .. 4 |->
              SetToSortSeq({c \in FourConflicts : c.major = order[i]},
                           LAMBDA c, e : c.minor < e.minor)])) :
        order \in SetToSeqs(1 .. 4)}

\* Three of a kind after pktgen, ranked one after the other.
MCRanks ==
    {Graph(0 :> "pktgen" @@ 1 :> "proxy" @@ 2 :> "proxy" @@ 3 :> "proxy",
           1 :> <<0, 1>> @@ 2 :> <<0, 2>> @@ 3 :> <<0, 3>>, s) :
        s \in Orders({Conflict(1, 2, 0), Conflict(2, 3, 0), Conflict(1, 3, 0)})}

\* The condition ChangesAreMerged needs holds of the graphs of the passing run,
\* and of neither kind of graph whose changes get lost.
ASSUME MergeableGraphs ==
    /\ \A g \in MCGraphs : Mergeable(g)
    /\ \A g \in MCChain \cup MCFour : ~Mergeable(g)

\* The condition RanksAreKept needs holds of the graphs of the passing run,
\* some of which rank writers of one field, and not of those it fails for.
ASSUME SettlingGraphs ==
    /\ \A g \in MCGraphs : Settles(g)
    /\ \A g \in DummyRanked : \E a, b \in DOMAIN g.nf :
          Outranks(g, a, b) /\ Writes(g, a) \cap Writes(g, b) # {}
    /\ \A g \in MCRanks : ~Settles(g)
=============================================================================
