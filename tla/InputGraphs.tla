---------------------------- MODULE InputGraphs ----------------------------
(* The graphs the Orchestrator makes of the repository's inputs, as        *)
(* MergePacket takes them.                                                 *)
EXTENDS Integers, SequencesExt

Conflict(a, b, p) == [major |-> a, minor |-> b, parent |-> p]

\* create_conflicts_list walks an unordered map from majors to unordered maps
\* from minors: the items of one major are adjacent, the order of the majors
\* and of the items of one is not defined.
Orders(items) ==
    LET Majors == {c.major : c \in items}
        Of(a) == SetToSeqs({c \in items : c.major = a})
    IN {FlattenSeq([i \in DOMAIN order |-> lists[order[i]]]) :
           order \in SetToSeqs(Majors),
           lists \in {f \in [Majors -> UNION {Of(a) : a \in Majors}] :
                         \A a \in Majors : f[a] \in Of(a)}}

Graph(nf, path, conflicts) ==
    [nf |-> nf, leaves |-> DOMAIN path, path |-> path, conflicts |-> conflicts]

\* inputs/input_complex.json
Complex ==
    {Graph(0 :> "dnf_firewall" @@ 1 :> "pktgen" @@ 2 :> "dnf_loadbalancer"
              @@ 3 :> "proxy" @@ 4 :> "compressor",
           0 :> <<1, 0>> @@ 3 :> <<1, 2, 3>> @@ 4 :> <<1, 2, 4>>, s) :
        s \in Orders({Conflict(3, 4, 2), Conflict(4, 3, 2), Conflict(0, 2, 1)})}

\* inputs/input_test.json
Test ==
    {Graph(0 :> "dnf_firewall" @@ 1 :> "pktgen" @@ 2 :> "proxy",
           0 :> <<1, 0>> @@ 2 :> <<1, 2>>, s) :
        s \in Orders({Conflict(0, 2, 1), Conflict(2, 0, 1)})}
=============================================================================
