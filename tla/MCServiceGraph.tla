--------------------------- MODULE MCServiceGraph ---------------------------
(* Inputs of the Orchestrator for TLC, with the action table of the        *)
(* repository, and the graphs its own inputs must give.                    *)
EXTENDS ServiceGraph, InputGraphs

Row(sip, dip, sport, dport, payload, add, drop) ==
    [l \in {"SIP", "DIP", "SPORT", "DPORT", "Payload", "Add/Rm", "Drop"} |->
        CASE l = "SIP" -> sip [] l = "DIP" -> dip [] l = "SPORT" -> sport
          [] l = "DPORT" -> dport [] l = "Payload" -> payload
          [] l = "Add/Rm" -> add [] OTHER -> drop]

\* inputs/action_table.json, the functions used below
MCActionTable ==
    [dnf_firewall     |-> Row("R", "null", "R", "null", "null", "null", "null"),
     dnf_loadbalancer |-> Row("R", "R", "R", "R", "null", "null", "T"),
     proxy            |-> Row("R", "R/W", "R", "R/W", "null", "null", "null"),
     compressor       |-> Row("R", "null", "R", "null", "R/W", "null", "null"),
     iptables         |-> Row("R", "R", "R", "R", "null", "null", "T"),
     snort            |-> Row("R", "R", "R", "R", "R", "null", "T"),
     haproxy          |-> Row("R/W", "R/W", "R", "R", "null", "null", "null"),
     openvpn          |-> Row("R", "R", "null", "null", "R/W", "T", "null")]

\* The nodes' addresses rise or fall with the order of their creation.
Addresses(fns) == {[f \in Range(fns) |-> CHOOSE i \in DOMAIN fns : fns[i] = f],
                   [f \in Range(fns) |-> Len(fns) + 1 - (CHOOSE i \in DOMAIN fns : fns[i] = f)]}

In(fns, deps, prios, pos) ==
    {[functions |-> fns, orderDependencies |-> deps, priorities |-> prios,
      positional |-> pos, ips |-> <<"ip1", "ip2">>, addr |-> a] : a \in Addresses(fns)}

First == <<<<"pktgen", "first">>>>

\* inputs/input_complex.json and inputs/input_test.json
ComplexInput ==
    In(<<"dnf_firewall", "pktgen", "dnf_loadbalancer", "proxy", "compressor">>,
       <<<<"dnf_loadbalancer", "proxy">>, <<"dnf_loadbalancer", "compressor">>>>,
       <<<<"dnf_firewall", "dnf_loadbalancer">>>>, First)
TestInput ==
    In(<<"dnf_firewall", "pktgen", "proxy">>, <<<<"proxy", "dnf_firewall">>>>, <<>>, First)

\* Three of the repository's functions behind pktgen, with at most two
\* dependencies and one priority, none of them a cycle.
Kinds == {<<"pktgen", "dnf_firewall", "proxy", "compressor">>,
          <<"dnf_firewall", "dnf_loadbalancer", "pktgen", "proxy">>,
          <<"compressor", "dnf_loadbalancer", "dnf_firewall", "pktgen">>,
          <<"proxy", "pktgen", "dnf_loadbalancer", "compressor">>}
PairsOf(fns) == {p \in Range(fns) \X Range(fns) : p[1] # p[2] /\ "pktgen" \notin Range(p)}
Cyclic(deps) == \E i, j \in DOMAIN deps : deps[i][1] = deps[j][2] /\ deps[i][2] = deps[j][1]

Small ==
    UNION {UNION {In(fns, deps, prios, First) :
              deps \in {d \in SeqOf(PairsOf(fns), 2) : ~Cyclic(d)},
              prios \in SeqOf(PairsOf(fns), 1)} : fns \in Kinds}

\* Positions: first and last, last alone, the same one twice, none; a tree's
\* function that is last (inputs/input.json); a function without a row; one
\* that is listed twice; two trees that share a function.
Placed ==
    LET fns == <<"pktgen", "dnf_firewall", "dnf_loadbalancer", "proxy", "compressor">>
        deps == <<<<"dnf_firewall", "proxy">>, <<"dnf_loadbalancer", "compressor">>>>
    IN UNION {In(fns, d, <<>>, pos) :
                d \in {<<deps[1]>>, <<deps[2]>>, <<>>},
                pos \in {<<<<"pktgen", "first">>, <<"dnf_loadbalancer", "last">>>>,
                         <<<<"pktgen", "first">>, <<"proxy", "last">>>>,
                         <<<<"proxy", "last">>>>,
                         <<<<"pktgen", "first">>, <<"proxy", "first">>>>, <<>>}}
Shipped ==
    In(<<"snort", "iptables", "haproxy", "openvpn">>, <<<<"iptables", "haproxy">>>>,
       <<<<"snort", "iptables">>>>, <<<<"openvpn", "first">>, <<"haproxy", "last">>>>)
Odd ==
    In(<<"pktgen", "proxy">>, <<<<"pktgen", "proxy">>>>, <<>>, First)
    \cup In(<<"pktgen", "proxy">>, <<>>, <<<<"pktgen", "proxy">>>>, First)
    \cup In(<<"pktgen", "proxy", "dnf_firewall", "proxy">>, <<<<"proxy", "dnf_firewall">>>>, <<>>, First)
    \cup In(<<"pktgen", "iptables", "dnf_loadbalancer", "compressor">>,
            <<<<"iptables", "compressor">>, <<"dnf_loadbalancer", "compressor">>>>, <<>>, First)
    \cup In(<<"pktgen", "iptables", "dnf_loadbalancer", "compressor">>,
            <<<<"iptables", "dnf_loadbalancer">>, <<"dnf_loadbalancer", "compressor">>>>, <<>>, First)

\* A tree with leaves of two depths, and a cycle that a function hangs from.
Uneven ==
    In(<<"pktgen", "snort", "proxy", "dnf_loadbalancer", "compressor">>,
       <<<<"snort", "proxy">>, <<"snort", "dnf_loadbalancer">>, <<"dnf_loadbalancer", "compressor">>>>,
       <<>>, First)
Cycle ==
    In(<<"pktgen", "iptables", "dnf_loadbalancer", "proxy", "compressor">>,
       <<<<"dnf_loadbalancer", "iptables">>, <<"iptables", "dnf_loadbalancer">>, <<"iptables", "proxy">>>>,
       <<>>, <<<<"pktgen", "first">>, <<"compressor", "last">>>>)

MCInputs == ComplexInput \cup TestInput \cup Small \cup Placed \cup Shipped \cup Odd
            \cup Uneven \cup Cycle

\* compressor must follow the load balancer, and may run beside the firewall.
MCBypass ==
    In(<<"pktgen", "dnf_firewall", "dnf_loadbalancer", "compressor">>,
       <<<<"dnf_loadbalancer", "compressor">>, <<"dnf_firewall", "compressor">>>>, <<>>, First)
    \cup Small

(***************************************************************************)
(* The repository's inputs give the graphs that MergePacket is checked on, *)
(* in the conflict lists' every order.                                     *)
(***************************************************************************)
FeedsMergePacket ==
    pc = "done" => /\ input \in ComplexInput => MergerGraph \in Complex
                   /\ input \in TestInput => MergerGraph \in Test
=============================================================================
