------------------------------- MODULE Deploy -------------------------------
(***************************************************************************)
(* How a service graph is deployed: Orchestrator::setup_containers sends   *)
(* each machine's configure agent its MachineConfigurator and waits for    *)
(* its answer, machine after machine, and then runs the merger; the agents *)
(* (src/runtime/config/configure.cpp) build what they have read.           *)
(*                                                                         *)
(* A configuration is the fields that ServiceGraphUtil serializes: the     *)
(* machine's id, an entry of machine_map per machine, an entry of node_map *)
(* per node.  The buffer that is written is one byte longer and that byte  *)
(* is never set: it parses as nothing, or as the tag of one of the three   *)
(* fields, with the zeros behind it as its value.  An agent reads once,    *)
(* and keeps the fields that are complete in what it has read.             *)
(***************************************************************************)
EXTENDS Integers, Sequences, FiniteSets

CONSTANTS
    M,             \* the number of machines: Orchestrator::ips
    N,             \* the number of functions: the RuntimeNodes' ids
    Pktgen,        \* the id of the node whose function is pktgen
    Neighbors,     \* RuntimeNode::neighbors
    MayListen      \* the machines whose agent may get its port

Machines == 0 .. M - 1
Nodes == 0 .. N - 1

ASSUME SizeAssumption == M \in Nat \ {0} /\ N \in Nat \ {0} /\ N < 8000
ASSUME GraphAssumption == Neighbors \in [Nodes -> SUBSET Nodes] /\ MayListen \subseteq Machines

MachineOf(n) == n % M           \* round_robin_partitioning
Strays == {"none", "machine_id", "machine_map", "node_map"}
Fields == 1 + M + N             \* the fields of a configuration

VARIABLES
    orc,       \* the Orchestrator: connect, write, read, merger or dead
    cur,       \* the machine it deals with, the i of setup_containers
    conn,      \* machine -> the Orchestrator's connection to its agent
    sent,      \* machine -> a configuration has been written to it
    answer,    \* machine -> bytes of "ACK" that are on their way
    agent,     \* machine -> where its agent is
    got,       \* machine -> what its one read returned: fields, stray byte
    net,       \* machine -> nodeid_to_network, nodeid_to_port
    lines,     \* machine -> the lines of its forwarder.txt
    started    \* machine -> node -> the addresses its function was given

handshake == <<orc, cur, conn, sent, answer>>
tables == <<net, lines, started>>
vars == <<orc, cur, conn, sent, answer, agent, got, net, lines, started>>

Nothing == [fields |-> 0, stray |-> "none"]   \* the empty buffer
Unread == [fields |-> -1, stray |-> "none"]

Init ==
    /\ orc = "connect" /\ cur = 0
    /\ conn = [m \in Machines |-> "none"] /\ sent = [m \in Machines |-> FALSE]
    /\ answer = [m \in Machines |-> 0]
    /\ agent = [m \in Machines |-> "down"] /\ got = [m \in Machines |-> Unread]
    /\ net = [m \in Machines |-> <<>>] /\ lines = [m \in Machines |-> {}]
    /\ started = [m \in Machines |-> <<>>]

-----------------------------------------------------------------------------
(* The Orchestrator: setup_containers                                      *)

\* The result of connect is not looked at.
Connect ==
    /\ orc = "connect"
    /\ conn' = [conn EXCEPT ![cur] = IF agent[cur] = "listening" THEN "open" ELSE "refused"]
    /\ orc' = "write"
    /\ UNCHANGED <<cur, sent, answer, agent, got, tables>>

\* A write to a connection that is not one, or was reset, raises SIGPIPE.
Write ==
    /\ orc = "write"
    /\ IF conn[cur] \in {"refused", "reset"}
       THEN orc' = "dead" /\ UNCHANGED <<conn, sent>>
       ELSE /\ orc' = "read"
            /\ conn' = [conn EXCEPT ![cur] = IF @ = "closed" THEN "reset" ELSE @]
            /\ sent' = [sent EXCEPT ![cur] = TRUE]
    /\ UNCHANGED <<cur, answer, agent, got, tables>>

\* Bug for TLC: the terminator is sent along.
AckBytesTerminated == 4

AckBytes == 3

\* recvline is compared whole, and not cleared between two reads: an answer
\* that comes in two parts never equals "ACK".
IsAck(bytes) == bytes = AckBytes

Read ==
    /\ orc = "read" /\ answer[cur] > 0
    /\ \E bytes \in 1 .. answer[cur] :
         /\ answer' = [answer EXCEPT ![cur] = @ - bytes]
         /\ IF ~IsAck(bytes) THEN orc' = "write" /\ UNCHANGED cur
            ELSE IF cur + 1 < M THEN orc' = "connect" /\ cur' = cur + 1
            ELSE orc' = "merger" /\ UNCHANGED cur
    /\ UNCHANGED <<conn, sent, agent, got, tables>>

\* read returns 0 or -1 once the agent has closed; a reset drops the answer.
ReadNothing ==
    /\ orc = "read" /\ conn[cur] \in {"closed", "reset"}
    /\ answer[cur] = 0 \/ conn[cur] = "reset"
    /\ orc' = "write"
    /\ answer' = [answer EXCEPT ![cur] = 0]
    /\ UNCHANGED <<cur, conn, sent, agent, got, tables>>

-----------------------------------------------------------------------------
(* An agent: get_machine_configurator                                      *)

\* bind may fail, which is only printed: listen then takes another port.
Listen(m) ==
    /\ agent[m] = "down"
    /\ \/ m \in MayListen /\ agent' = [agent EXCEPT ![m] = "listening"]
       \/ agent' = [agent EXCEPT ![m] = "elsewhere"]
    /\ UNCHANGED <<handshake, got, tables>>

Accept(m) ==
    /\ agent[m] = "listening" /\ conn[m] = "open"
    /\ agent' = [agent EXCEPT ![m] = "reading"]
    /\ UNCHANGED <<handshake, got, tables>>

(***************************************************************************)
(* One read of at most 1000 bytes: it may return a part of what was        *)
(* written, because it is longer or because it comes in pieces.  Nothing   *)
(* is read if the Orchestrator's end was closed first; the agent goes on   *)
(* with an empty configuration then, and without an answer.                *)
(***************************************************************************)
ReadConfig(m) ==
    /\ agent[m] = "reading"
    /\ \/ /\ sent[m]
          /\ \E f \in 0 .. Fields, s \in Strays :
               /\ f < Fields => s = "none"
               /\ got' = [got EXCEPT ![m] = [fields |-> f, stray |-> s]]
          /\ agent' = [agent EXCEPT ![m] = "answering"]
       \/ /\ ~sent[m] /\ orc = "dead"
          /\ agent' = [agent EXCEPT ![m] = "closed"]
          /\ got' = [got EXCEPT ![m] = Nothing]
    /\ UNCHANGED <<handshake, tables>>

\* Bug for TLC: the answer is sent on accept.
MayAnswerEarly(m) == agent[m] \in {"reading", "answering"}

MayAnswer(m) == agent[m] = "answering"

Answer(m) ==
    /\ MayAnswer(m)
    /\ answer' = [answer EXCEPT ![m] = AckBytes]
    /\ agent' = [agent EXCEPT ![m] = "answered"]
    /\ UNCHANGED <<orc, cur, conn, sent, got, tables>>

\* Bug for TLC: the socket is left open.
AfterSleepOpen(m) == UNCHANGED conn

AfterSleep(m) == conn' = [conn EXCEPT ![m] = IF @ = "open" THEN "closed" ELSE @]

\* A second later the agent closes, whether the answer was read or not.
Close(m) ==
    /\ agent[m] = "answered"
    /\ AfterSleep(m)
    /\ agent' = [agent EXCEPT ![m] = "closed"]
    /\ UNCHANGED <<orc, cur, sent, answer, got, tables>>

-----------------------------------------------------------------------------
(* What the agent has read: string_to_machine_configurator                 *)

Has(m, field) == field <= got[m].fields
HasMachine(m, a) == Has(m, 1 + a + 1)
HasNode(m, n) == Has(m, 1 + M + n + 1)

(***************************************************************************)
(* The id and the machines of agent m's MachineConfigurator.  A stray tag  *)
(* sets the id to 0, or gives machine 0 an empty entry; a machine that has *)
(* no entry gets an empty one, whose id is 0.                              *)
(***************************************************************************)
IdRead(m) == IF got[m].fields = 0 \/ got[m].stray = "machine_id" THEN 0 ELSE m
MapRead(m) == {a \in Machines : HasMachine(m, a)}
              \ (IF got[m].stray = "machine_map" THEN {0} ELSE {})
ConfId(m) == IF IdRead(m) \in MapRead(m) THEN IdRead(m) ELSE 0
ConfMachines(m) == IF IdRead(m) \in MapRead(m) THEN MapRead(m) ELSE MapRead(m) \ {0}

\* Bug for TLC: a machine is given the nodes of all machines.
NodesForAll(m, a) == {n \in Nodes : a \in ConfMachines(m) /\ HasNode(m, n)}

\* get_nodes_for_machine
NodesFor(m, a) ==
    {n \in Nodes : a \in ConfMachines(m) /\ MachineOf(n) = a /\ HasNode(m, n)}
Internal(m) == NodesFor(m, ConfId(m))

\* A stray tag replaces node 0 by a firewall without neighbors.
Blank(m, n) == got[m].stray = "node_map" /\ n = 0
ConfNeighbors(m, n) == IF Blank(m, n) THEN {} ELSE Neighbors[n]
IsPktgen(m, n) == n = Pktgen /\ ~Blank(m, n)

-----------------------------------------------------------------------------
(* Building                                                                *)

Address(ip, port) == [ip |-> ip, port |-> port]
NoAddress == Address(<<"none">>, 0)   \* what operator[] makes of an unknown node

\* The containers are 173.16.1.2, .3, ... in the order of the machine's nodes.
Container(m, n) == <<"bridge", 2 + Cardinality({x \in Internal(m) : x < n})>>

\* Bug for TLC: the port on the other machine is not the forwarder's.
ExternalPortShifted(n) == 8000 - n

\* The port of a node on another machine, as setup_bridge_ports has it, and
\* of the forwarder's thread for a node, as make_flow_rules has it.
ExternalPort(n) == 8000 - n - 1
ForwarderPort(n) == 8000 - n - 1
MergerPort(n) == 8000 + n + 1

\* setup_bridge_ports: what it puts into nodeid_to_network and nodeid_to_port.
Known(m) == UNION {NodesFor(m, a) : a \in Machines}
NetTable(m) ==
    [n \in Known(m) |->
        IF n \in Internal(m) THEN Address(Container(m, n), 8000)
        ELSE Address(<<"machine", MachineOf(n)>>, ExternalPort(n))]

\* reset, if asked for, and setup_nodes leave nothing that is looked at here.
SetupBridgePorts(m) ==
    /\ agent[m] = "closed"
    /\ net' = [net EXCEPT ![m] = NetTable(m)]
    /\ agent' = [agent EXCEPT ![m] = "bridged"]
    /\ UNCHANGED <<handshake, got, lines, started>>

AddressOf(m, n) == IF n \in DOMAIN net[m] THEN net[m][n] ELSE NoAddress

\* The first half of make_flow_rules, and the fork of the forwarder.
WriteForwarder(m) ==
    /\ agent[m] = "bridged"
    /\ lines' = [lines EXCEPT ![m] =
                   {[port |-> ForwarderPort(n), to |-> Address(AddressOf(m, n).ip, 8000)] :
                        n \in Internal(m)}]
    /\ agent' = [agent EXCEPT ![m] = "forwarding"]
    /\ UNCHANGED <<handshake, got, net, started>>

Arguments(m, n) ==
    {AddressOf(m, t) : t \in ConfNeighbors(m, n)}
    \cup (IF ConfNeighbors(m, n) = {} /\ ~IsPktgen(m, n)
          THEN {Address(<<"merger">>, MergerPort(n))} ELSE {})

Run(m, n) == started' = [started EXCEPT ![m] =
                [x \in DOMAIN @ \cup {n} |-> IF x = n THEN Arguments(m, n) ELSE @[x]]]

\* The rest of make_flow_rules: the functions in turn, pktgen 15 seconds after
\* the last of them, and the wait for the forwarder.
StartNode(m) ==
    /\ agent[m] = "forwarding"
    /\ \E n \in Internal(m) \ DOMAIN started[m] :
         /\ \A x \in Internal(m) \ DOMAIN started[m] : n <= x \/ IsPktgen(m, x)
         /\ ~IsPktgen(m, n)
         /\ Run(m, n)
    /\ UNCHANGED <<handshake, agent, got, net, lines>>

StartPktgen(m) ==
    /\ agent[m] = "forwarding"
    /\ \E n \in Internal(m) : /\ IsPktgen(m, n) /\ Internal(m) \ DOMAIN started[m] = {n}
                              /\ Run(m, n)
    /\ UNCHANGED <<handshake, agent, got, net, lines>>

Wait(m) ==
    /\ agent[m] = "forwarding" /\ Internal(m) = DOMAIN started[m]
    /\ agent' = [agent EXCEPT ![m] = "waiting"]
    /\ UNCHANGED <<handshake, got, tables>>

OrcStep == Connect \/ Write \/ Read \/ ReadNothing
AgentStep(m) ==
    \/ Listen(m) \/ Accept(m) \/ ReadConfig(m) \/ Answer(m) \/ Close(m)
    \/ SetupBridgePorts(m) \/ WriteForwarder(m) \/ StartNode(m) \/ StartPktgen(m) \/ Wait(m)

Next == OrcStep \/ \E m \in Machines : AgentStep(m)

Spec == Init /\ [][Next]_vars
FairSpec == Spec /\ WF_vars(OrcStep) /\ \A m \in Machines : WF_vars(AgentStep(m))

-----------------------------------------------------------------------------
(* Properties                                                              *)

AgentStates == {"down", "elsewhere", "listening", "reading", "answering", "answered",
                "closed", "bridged", "forwarding", "waiting"}
Answering == {"answering", "answered", "closed", "bridged", "forwarding", "waiting"}

TypeOK ==
    /\ orc \in {"connect", "write", "read", "merger", "dead"}
    /\ cur \in Machines
    /\ conn \in [Machines -> {"none", "refused", "open", "closed", "reset"}]
    /\ sent \in [Machines -> BOOLEAN] /\ answer \in [Machines -> 0 .. 3]
    /\ agent \in [Machines -> AgentStates]
    /\ got \in [Machines -> [fields : -1 .. Fields, stray : Strays]]
    /\ DOMAIN net = Machines /\ \A m \in Machines : DOMAIN net[m] \subseteq Nodes
    /\ DOMAIN lines = Machines
    /\ DOMAIN started = Machines /\ \A m \in Machines : DOMAIN started[m] \subseteq Nodes

(***************************************************************************)
(* When the merger runs, every agent has read what there was of its own    *)
(* configuration before it answered: none was passed over or answered for. *)
(***************************************************************************)
Answered(m) == agent[m] \in Answering \ {"answering"} /\ sent[m] /\ got[m] # Unread
MergerAfterAll == orc = "merger" => \A m \in Machines : Answered(m)

\* The agent has read its whole configuration, and the byte behind it says
\* nothing.
Whole(m) == got[m].fields = Fields /\ got[m].stray = "none"

\* The node an address leads to from machine m: through its bridge, or
\* through the forwarder of another machine and that machine's bridge.
OnBridge(m, ip) == {n \in DOMAIN started[m] : net[m][n].ip = ip}
LeadsTo(m, a) ==
    IF a.ip[1] = "bridge" THEN OnBridge(m, a.ip)
    ELSE IF a.ip[1] = "machine"
    THEN UNION {OnBridge(a.ip[2], l.to.ip) : l \in {x \in lines[a.ip[2]] : x.port = a.port}}
    ELSE {}

(***************************************************************************)
(* Every machine derives ports and addresses from the ids on its own, and  *)
(* they agree: once the agents are done, the addresses each function was   *)
(* given lead to exactly its neighbors, or to its own port at the merger.  *)
(***************************************************************************)
RoutesAgree ==
    (\A m \in Machines : agent[m] = "waiting" /\ Whole(m)) =>
        \A m \in Machines : \A n \in DOMAIN started[m] :
            /\ UNION {LeadsTo(m, a) : a \in started[m][n]} = Neighbors[n]
            /\ Neighbors[n] # {} => Cardinality(started[m][n]) = Cardinality(Neighbors[n])
            /\ Neighbors[n] = {} /\ n # Pktgen =>
                  started[m][n] = {Address(<<"merger">>, 8000 + n + 1)}

(***************************************************************************)
(* No function runs on two machines, however their configurations were     *)
(* cut and whatever their agents took for a field behind them, unless it   *)
(* was taken for the machine's id.                                         *)
(***************************************************************************)
NodeOnce ==
    \A m, o \in Machines :
        m # o /\ "machine_id" \notin {got[m].stray, got[o].stray} =>
            DOMAIN started[m] \cap DOMAIN started[o] = {}

(***************************************************************************)
(* The set-up comes to an end, however an answer is cut: the merger runs,  *)
(* or the Orchestrator is dead.                                            *)
(***************************************************************************)
SetupEnds == <>(orc \in {"merger", "dead"})
=============================================================================
