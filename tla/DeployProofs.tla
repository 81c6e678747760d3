----------------------------- MODULE DeployProofs -----------------------------
(***************************************************************************)
(* Theorems about the set-up of the containers, for any number of machines *)
(* and functions, any service graph and any cut of the configurations.     *)
(***************************************************************************)
EXTENDS Deploy, FiniteSetTheorems, FunctionTheorems, TLAPS

(***************************************************************************)
(* The types of the set-up's state.  started and net are as get_nodes_for_ *)
(* machine makes them: nodes only.                                         *)
(***************************************************************************)
THEOREM TypeCorrect == Spec => []TypeOK
<1>1. Init => TypeOK
  BY SizeAssumption DEF Init, Machines, TypeOK, AgentStates, Unread, Strays, Fields
<1>2. TypeOK /\ [Next]_vars => TypeOK'
  <2> SUFFICES ASSUME TypeOK, [Next]_vars PROVE TypeOK'
    OBVIOUS
  <2>1. CASE Connect
    BY <2>1 DEF TypeOK, Connect, tables
  <2>2. CASE Write
    BY <2>2 DEF TypeOK, Write, tables
  <2>3. CASE Read
    <3>1. cur' \in Machines
      BY <2>3, SizeAssumption DEF Read, Machines, TypeOK
    <3>2. answer' \in [Machines -> 0 .. 3] /\ orc' \in {"connect", "write", "merger"}
      <4>1. PICK bytes \in 1 .. answer[cur] : answer' = [answer EXCEPT ![cur] = @ - bytes]
        BY <2>3 DEF Read
      <4>2. answer[cur] - bytes \in 0 .. 3
        <5>1. answer[cur] \in 0 .. 3
          BY DEF TypeOK
        <5> QED
          BY <4>1, <5>1
      <4> QED
        BY <2>3, <4>1, <4>2 DEF Read, TypeOK
    <3> QED
      BY <2>3, <3>1, <3>2 DEF Read, TypeOK, tables
  <2>4. CASE ReadNothing
    BY <2>4 DEF TypeOK, ReadNothing, tables
  <2>5. ASSUME NEW m \in Machines, AgentStep(m) PROVE TypeOK'
    <3>1. CASE Listen(m)
      BY <3>1 DEF TypeOK, Listen, handshake, tables, AgentStates
    <3>2. CASE Accept(m)
      BY <3>2 DEF TypeOK, Accept, handshake, tables, AgentStates
    <3>3. CASE ReadConfig(m)
      <4>1. got' \in [Machines -> [fields : -1 .. Fields, stray : Strays]]
        <5>1. Fields \in Nat
          BY SizeAssumption DEF Fields
        <5>2. \E r \in [fields : -1 .. Fields, stray : Strays] : got' = [got EXCEPT ![m] = r]
          <6>1. \A f \in 0 .. Fields, s \in Strays :
                   [fields |-> f, stray |-> s] \in [fields : -1 .. Fields, stray : Strays]
            BY <5>1
          <6>2. Nothing \in [fields : -1 .. Fields, stray : Strays]
            BY <5>1 DEF Nothing, Strays
          <6> QED
            BY <3>3, <6>1, <6>2 DEF ReadConfig
        <5> QED
          BY <5>2 DEF TypeOK
      <4> QED
        BY <3>3, <4>1 DEF TypeOK, ReadConfig, handshake, tables, AgentStates
    <3>4. CASE Answer(m)
      BY <3>4 DEF TypeOK, Answer, tables, AgentStates, AckBytes
    <3>5. CASE Close(m)
      BY <3>5 DEF TypeOK, Close, AfterSleep, tables, AgentStates
    <3>6. CASE SetupBridgePorts(m)
      <4>1. DOMAIN NetTable(m) \subseteq Nodes
        BY DEF NetTable, Known, NodesFor
      <4>2. DOMAIN net' = Machines /\ \A x \in Machines : DOMAIN net'[x] \subseteq Nodes
        BY <3>6, <4>1 DEF SetupBridgePorts, TypeOK
      <4> QED
        BY <3>6, <4>2 DEF TypeOK, SetupBridgePorts, handshake, AgentStates
    <3>7. CASE WriteForwarder(m)
      BY <3>7 DEF TypeOK, WriteForwarder, handshake, AgentStates
    <3>8. ASSUME NEW n \in Internal(m), Run(m, n),
                 UNCHANGED <<handshake, agent, got, net, lines>>
          PROVE  TypeOK'
      <4>1. n \in Nodes
        BY DEF Internal, NodesFor
      <4>2. DOMAIN started' = Machines /\ \A x \in Machines : DOMAIN started'[x] \subseteq Nodes
        BY <3>8, <4>1 DEF Run, TypeOK
      <4> QED
        BY <3>8, <4>2 DEF TypeOK, handshake
    <3>9. CASE Wait(m)
      BY <3>9 DEF TypeOK, Wait, handshake, tables, AgentStates
    <3> QED
      BY <2>5, <3>1, <3>2, <3>3, <3>4, <3>5, <3>6, <3>7, <3>8, <3>9
         DEF AgentStep, StartNode, StartPktgen
  <2>6. CASE UNCHANGED vars
    BY <2>6 DEF TypeOK, vars
  <2>7. Connect \/ Write \/ Read \/ ReadNothing \/ (\E m \in Machines : AgentStep(m)) \/ UNCHANGED vars
    BY DEF Next, OrcStep
  <2> QED
    BY <2>1, <2>2, <2>3, <2>4, <2>5, <2>6, <2>7
<1> QED
  BY <1>1, <1>2, PTL DEF Spec

-----------------------------------------------------------------------------
(***************************************************************************)
(* The handshake.  An answer stands for a configuration that was read, and *)
(* the Orchestrator has passed on from an agent only after its answer.     *)
(***************************************************************************)
HandshakeInv ==
    /\ \A m \in Machines : agent[m] \in {"answering", "answered"} => sent[m] /\ got[m] # Unread
    /\ \A m \in Machines : answer[m] > 0 => Answered(m)
    /\ \A m \in Machines : m < cur \/ orc = "merger" => Answered(m)

\* What an agent's step leaves true of the other half of the handshake.
LEMMA AnsweredStays ==
  ASSUME TypeOK, NEW m \in Machines, NEW x \in Machines, AgentStep(m), Answered(x)
  PROVE  Answered(x)'
<1> USE DEF TypeOK, Answered, Answering
<1>1. CASE Listen(m)
  BY <1>1 DEF Listen, handshake, tables
<1>2. CASE Accept(m)
  BY <1>2 DEF Accept, handshake, tables
<1>3. CASE ReadConfig(m)
  <2>1. x # m
    BY <1>3 DEF ReadConfig
  <2> QED
    BY <1>3, <2>1 DEF ReadConfig, handshake, tables
<1>4. CASE Answer(m)
  BY <1>4 DEF Answer, tables
<1>5. CASE Close(m)
  BY <1>5 DEF Close, tables
<1>6. CASE SetupBridgePorts(m)
  BY <1>6 DEF SetupBridgePorts, handshake
<1>7. CASE WriteForwarder(m)
  BY <1>7 DEF WriteForwarder, handshake
<1>8. CASE StartNode(m) \/ StartPktgen(m)
  BY <1>8 DEF StartNode, StartPktgen, handshake
<1>9. CASE Wait(m)
  BY <1>9 DEF Wait, handshake, tables
<1> QED
  BY <1>1, <1>2, <1>3, <1>4, <1>5, <1>6, <1>7, <1>8, <1>9 DEF AgentStep

LEMMA HandshakeAgent ==
  ASSUME TypeOK, HandshakeInv, NEW m \in Machines, AgentStep(m)
  PROVE  HandshakeInv'
<1>1. \A x \in Machines : Answered(x) => Answered(x)'
  BY AnsweredStays
<1>2. CASE ReadConfig(m)
  <2>1. cur' = cur /\ orc' = orc /\ answer' = answer /\ sent' = sent
    BY <1>2 DEF ReadConfig, handshake
  <2>2. ASSUME NEW x \in Machines, agent'[x] \in {"answering", "answered"}
        PROVE  sent'[x] /\ got'[x] # Unread
    <3>1. CASE x # m
      BY <1>2, <2>1, <2>2, <3>1 DEF ReadConfig, TypeOK, HandshakeInv
    <3>2. CASE x = m
      <4>1. PICK f \in 0 .. Fields, s \in Strays : got' = [got EXCEPT ![m] = [fields |-> f, stray |-> s]]
        BY <1>2, <2>2, <3>2 DEF ReadConfig, TypeOK
      <4>2. [fields |-> f, stray |-> s] # Unread
        <5>1. [fields |-> f, stray |-> s].fields # Unread.fields
          BY DEF Unread
        <5> QED
          BY <5>1
      <4>3. sent[m]
        BY <1>2, <2>2, <3>2 DEF ReadConfig, TypeOK
      <4> QED
        BY <2>1, <3>2, <4>1, <4>2, <4>3 DEF TypeOK
    <3> QED
      BY <3>1, <3>2
  <2> QED
    BY <1>1, <2>1, <2>2 DEF HandshakeInv
<1>3. CASE Answer(m)
  <2>1. Answered(m)'
    BY <1>3 DEF Answer, MayAnswer, HandshakeInv, Answered, Answering, TypeOK
  <2> QED
    BY <1>1, <1>3, <2>1 DEF Answer, MayAnswer, HandshakeInv, TypeOK
<1>4. CASE Close(m)
  <2>1. cur' = cur /\ orc' = orc /\ answer' = answer /\ sent' = sent /\ got' = got
    BY <1>4 DEF Close
  <2>2. \A x \in Machines : agent'[x] \in {"answering", "answered"} => agent[x] = agent'[x]
    BY <1>4 DEF Close, TypeOK
  <2> QED
    BY <1>1, <2>1, <2>2 DEF HandshakeInv
<1>5. ASSUME UNCHANGED handshake, got' = got,
             \E s \in AgentStates \ {"answering", "answered"} : agent' = [agent EXCEPT ![m] = s]
      PROVE  HandshakeInv'
  <2>1. cur' = cur /\ orc' = orc /\ answer' = answer /\ sent' = sent
    BY <1>5 DEF handshake
  <2>2. \A x \in Machines : agent'[x] \in {"answering", "answered"} => agent[x] = agent'[x]
    BY <1>5 DEF TypeOK
  <2> QED
    BY <1>1, <1>5, <2>1, <2>2 DEF HandshakeInv
<1>6. CASE StartNode(m) \/ StartPktgen(m)
  <2>1. cur' = cur /\ orc' = orc /\ answer' = answer /\ sent' = sent /\ got' = got /\ agent' = agent
    BY <1>6 DEF StartNode, StartPktgen, handshake
  <2> QED
    BY <1>1, <2>1 DEF HandshakeInv
<1>7. CASE Listen(m)
  BY <1>5, <1>7 DEF Listen, AgentStates
<1>8. CASE Accept(m)
  BY <1>5, <1>8 DEF Accept, AgentStates
<1>9. CASE SetupBridgePorts(m) \/ WriteForwarder(m) \/ Wait(m)
  BY <1>5, <1>9 DEF SetupBridgePorts, WriteForwarder, Wait, AgentStates
<1> QED
  BY <1>2, <1>3, <1>4, <1>6, <1>7, <1>8, <1>9 DEF AgentStep

LEMMA HandshakeOrchestrator ==
  ASSUME TypeOK, HandshakeInv, OrcStep
  PROVE  HandshakeInv'
<1> USE DEF HandshakeInv, Answered
<1>1. CASE Connect
  BY <1>1 DEF Connect, tables
<1>2. CASE Write
  BY <1>2 DEF Write, TypeOK
<1>3. CASE ReadNothing
  BY <1>3 DEF ReadNothing, TypeOK
<1>4. CASE Read
  <2>1. cur \in Machines /\ Answered(cur)
    BY <1>4 DEF Read, TypeOK
  <2>2. \A m \in Machines : answer'[m] > 0 => answer[m] > 0
    BY <1>4 DEF Read, TypeOK
  <2>3. orc # "merger" /\ sent' = sent /\ agent' = agent /\ got' = got
    BY <1>4 DEF Read
  <2>4. CASE cur' = cur /\ orc' # "merger"
    BY <2>2, <2>3, <2>4
  <2>5. CASE cur' = cur + 1 /\ orc' = "connect"
    <3>1. \A m \in Machines : m < cur' => m < cur \/ m = cur
      BY <2>1, <2>5, SizeAssumption DEF Machines
    <3> QED
      BY <2>1, <2>2, <2>3, <2>5, <3>1
  <2>6. CASE cur' = cur /\ orc' = "merger" /\ ~(cur + 1 < M)
    <3>1. \A m \in Machines : m < cur \/ m = cur
      BY <2>1, <2>6, SizeAssumption DEF Machines
    <3> QED
      BY <2>1, <2>2, <2>3, <2>6, <3>1
  <2> QED
    BY <1>4, <2>4, <2>5, <2>6 DEF Read
<1> QED
  BY <1>1, <1>2, <1>3, <1>4 DEF OrcStep

(***************************************************************************)
(* The merger runs only after every agent has read what there was of its   *)
(* own configuration and answered, however the answers were cut.           *)
(***************************************************************************)
THEOREM AllAnswered == Spec => []MergerAfterAll
<1>1. Init => HandshakeInv
  BY SizeAssumption DEF Init, HandshakeInv, Machines
<1>2. TypeOK /\ HandshakeInv /\ [Next]_vars => HandshakeInv'
  <2>1. CASE UNCHANGED vars
    BY <2>1 DEF vars, HandshakeInv, Answered
  <2> QED
    BY <2>1, HandshakeAgent, HandshakeOrchestrator DEF Next
<1>3. HandshakeInv => MergerAfterAll
  BY DEF HandshakeInv, MergerAfterAll
<1> QED
  BY <1>1, <1>2, <1>3, TypeCorrect, PTL DEF Spec

-----------------------------------------------------------------------------
(***************************************************************************)
(* What an agent builds.  It depends only on what the agent has read,      *)
(* which does not change once it has; the tables and the functions that    *)
(* run are those of the configuration.                                     *)
(***************************************************************************)
Lines(m) == {[port |-> ForwarderPort(n), to |-> Address(AddressOf(m, n).ip, 8000)] : n \in Internal(m)}

Built(m) ==
    /\ agent[m] \notin {"forwarding", "waiting"} => DOMAIN started[m] = {}
    /\ DOMAIN started[m] \subseteq Internal(m)
    /\ \A n \in DOMAIN started[m] : started[m][n] = Arguments(m, n)
    /\ agent[m] \in {"bridged", "forwarding", "waiting"} => net[m] = NetTable(m)
    /\ agent[m] \in {"forwarding", "waiting"} => lines[m] = Lines(m)
    /\ agent[m] = "waiting" => DOMAIN started[m] = Internal(m)

BuildInv == \A m \in Machines : Built(m)

\* What is derived from the configuration stays as it is with it.
LEMMA Derived ==
  ASSUME NEW m \in Machines, got'[m] = got[m]
  PROVE  /\ Internal(m)' = Internal(m) /\ NetTable(m)' = NetTable(m)
         /\ net'[m] = net[m] => /\ Lines(m)' = Lines(m)
                                /\ \A n : Arguments(m, n)' = Arguments(m, n)
<1>1. /\ ConfId(m)' = ConfId(m) /\ ConfMachines(m)' = ConfMachines(m)
      /\ \A n : HasNode(m, n)' = HasNode(m, n)
      /\ \A n : Blank(m, n)' = Blank(m, n)
  BY DEF ConfId, ConfMachines, IdRead, MapRead, HasMachine, HasNode, Has, Blank
<1>2. \A a : NodesFor(m, a)' = NodesFor(m, a)
  BY <1>1 DEF NodesFor
<1>3. Internal(m)' = Internal(m) /\ Known(m)' = Known(m)
  BY <1>1, <1>2 DEF Internal, Known
<1>4. NetTable(m)' = NetTable(m)
  BY <1>3 DEF NetTable, Container
<1>5. ASSUME net'[m] = net[m] PROVE Lines(m)' = Lines(m) /\ \A n : Arguments(m, n)' = Arguments(m, n)
  <2>1. \A n : AddressOf(m, n)' = AddressOf(m, n)
    BY <1>5 DEF AddressOf
  <2> QED
    BY <1>1, <1>3, <2>1 DEF Lines, Arguments, ConfNeighbors, IsPktgen
<1> QED
  BY <1>3, <1>4, <1>5

\* A step that leaves what an agent has read and built leaves it built.
LEMMA BuiltStays ==
  ASSUME NEW m \in Machines, Built(m), got'[m] = got[m],
         net'[m] = net[m], lines'[m] = lines[m], started'[m] = started[m],
         \/ agent'[m] = agent[m]
         \/ {agent[m], agent'[m]} \cap {"bridged", "forwarding", "waiting"} = {}
  PROVE  Built(m)'
<1>1. /\ Internal(m)' = Internal(m) /\ NetTable(m)' = NetTable(m)
      /\ Lines(m)' = Lines(m) /\ \A n : Arguments(m, n)' = Arguments(m, n)
  BY Derived
<1> QED
  BY <1>1 DEF Built

\* One function more.
LEMMA BuiltRun ==
  ASSUME TypeOK, NEW m \in Machines, Built(m), agent[m] = "forwarding",
         NEW n \in Internal(m), Run(m, n), UNCHANGED <<handshake, agent, got, net, lines>>
  PROVE  Built(m)'
<1>1. /\ Internal(m)' = Internal(m) /\ NetTable(m)' = NetTable(m)
      /\ Lines(m)' = Lines(m) /\ \A x : Arguments(m, x)' = Arguments(m, x)
  BY Derived
<1>2. started'[m] = [x \in DOMAIN started[m] \cup {n} |->
                        IF x = n THEN Arguments(m, n) ELSE started[m][x]]
  BY DEF Run, TypeOK
<1>3. DOMAIN started'[m] = DOMAIN started[m] \cup {n}
  BY <1>2
<1>4. \A x \in DOMAIN started'[m] : started'[m][x] = Arguments(m, x)
  BY <1>2, <1>3 DEF Built
<1> QED
  BY <1>1, <1>3, <1>4 DEF Built

LEMMA BuildAgent ==
  ASSUME TypeOK, BuildInv, NEW m \in Machines, AgentStep(m)
  PROVE  BuildInv'
<1> SUFFICES ASSUME NEW x \in Machines PROVE Built(x)'
  BY DEF BuildInv
<1>0. Built(x) /\ Built(m)
  BY DEF BuildInv
<1>1. CASE x # m
  <2>1. /\ agent'[x] = agent[x] /\ got'[x] = got[x] /\ net'[x] = net[x]
        /\ lines'[x] = lines[x] /\ started'[x] = started[x]
    BY <1>1 DEF AgentStep, Listen, Accept, ReadConfig, Answer, Close, SetupBridgePorts,
                WriteForwarder, StartNode, StartPktgen, Run, Wait, handshake, tables, TypeOK
  <2> QED
    BY <1>0, <2>1, BuiltStays
<1>2. CASE x = m /\ (Listen(m) \/ Accept(m) \/ Answer(m) \/ Close(m))
  <2>1. /\ got' = got /\ net' = net /\ lines' = lines /\ started' = started
        /\ {agent[m], agent'[m]} \cap {"bridged", "forwarding", "waiting"} = {}
    BY <1>2 DEF Listen, Accept, Answer, MayAnswer, Close, tables, TypeOK
  <2> QED
    BY <1>0, <1>2, <2>1, BuiltStays
<1>3. CASE x = m /\ ReadConfig(m)
  <2>1. DOMAIN started[m] = {}
    BY <1>0, <1>3 DEF ReadConfig, Built
  <2>2. agent'[m] \in {"answering", "closed"} /\ started' = started
    BY <1>3 DEF ReadConfig, TypeOK, tables
  <2> QED
    BY <1>3, <2>1, <2>2 DEF Built
<1>4. CASE x = m /\ SetupBridgePorts(m)
  <2>1. DOMAIN started'[m] = {}
    BY <1>0, <1>4 DEF SetupBridgePorts, Built
  <2>2. NetTable(m)' = NetTable(m)
    BY <1>4, Derived DEF SetupBridgePorts
  <2>3. agent'[m] = "bridged" /\ net'[m] = NetTable(m)
    BY <1>4 DEF SetupBridgePorts, TypeOK
  <2> QED
    BY <1>4, <2>1, <2>2, <2>3 DEF Built
<1>5. CASE x = m /\ WriteForwarder(m)
  <2>1. DOMAIN started'[m] = {} /\ net'[m] = NetTable(m)
    BY <1>0, <1>5 DEF WriteForwarder, Built
  <2>2. NetTable(m)' = NetTable(m) /\ Lines(m)' = Lines(m)
    BY <1>5, Derived DEF WriteForwarder
  <2>3. agent'[m] = "forwarding" /\ lines'[m] = Lines(m)
    BY <1>5 DEF WriteForwarder, TypeOK, Lines
  <2> QED
    BY <1>5, <2>1, <2>2, <2>3 DEF Built
<1>6. CASE x = m /\ (StartNode(m) \/ StartPktgen(m))
  BY <1>0, <1>6, BuiltRun DEF StartNode, StartPktgen
<1>7. CASE x = m /\ Wait(m)
  <2>1. /\ Internal(m)' = Internal(m) /\ NetTable(m)' = NetTable(m)
        /\ Lines(m)' = Lines(m) /\ \A n : Arguments(m, n)' = Arguments(m, n)
    BY <1>7, Derived DEF Wait, tables
  <2>2. /\ agent[m] = "forwarding" /\ agent'[m] = "waiting"
        /\ net' = net /\ lines' = lines /\ started' = started
        /\ Internal(m) = DOMAIN started[m]
    BY <1>7 DEF Wait, tables, TypeOK
  <2> QED
    BY <1>0, <1>7, <2>1, <2>2 DEF Built
<1> QED
  BY <1>1, <1>2, <1>3, <1>4, <1>5, <1>6, <1>7 DEF AgentStep

(***************************************************************************)
(* What an agent has built is what its configuration says: the table of    *)
(* addresses, the forwarder's lines, the functions and their arguments.    *)
(***************************************************************************)
THEOREM BuildsConfiguration == Spec => []BuildInv
<1>1. Init => BuildInv
  BY DEF Init, BuildInv, Built
<1>2. TypeOK /\ BuildInv /\ [Next]_vars => BuildInv'
  <2> SUFFICES ASSUME TypeOK, BuildInv, OrcStep \/ UNCHANGED vars PROVE BuildInv'
    BY BuildAgent DEF Next
  <2>1. UNCHANGED <<agent, got, net, lines, started>>
    BY DEF OrcStep, Connect, Write, Read, ReadNothing, vars, tables
  <2> QED
    BY <2>1, BuiltStays DEF BuildInv
<1> QED
  BY <1>1, <1>2, TypeCorrect, PTL DEF Spec

-----------------------------------------------------------------------------
(***************************************************************************)
(* Who runs what.  An agent that has not taken a stray byte for its id     *)
(* runs the nodes of its own machine only, whatever the cut or a stray     *)
(* byte left of the rest: an id without an entry in machine_map is taken   *)
(* for machine 0, which then has no nodes.                                 *)
(***************************************************************************)
LEMMA OwnNodes ==
  ASSUME NEW m \in Machines, TypeOK, got[m].stray # "machine_id"
  PROVE  Internal(m) \subseteq {n \in Nodes : MachineOf(n) = m}
<1> SUFFICES ASSUME NEW n \in Internal(m) PROVE n \in Nodes /\ MachineOf(n) = m
  OBVIOUS
<1>1. n \in Nodes /\ MachineOf(n) = ConfId(m) /\ ConfId(m) \in ConfMachines(m)
  BY DEF Internal, NodesFor
<1>2. IdRead(m) \in MapRead(m) /\ ConfId(m) = IdRead(m)
  BY <1>1 DEF ConfId, ConfMachines
<1>3. got[m].fields # 0
  <2> SUFFICES ASSUME got[m].fields = 0 PROVE FALSE
    OBVIOUS
  <2>1. MapRead(m) = {}
    BY SizeAssumption DEF MapRead, HasMachine, Has, Machines
  <2> QED
    BY <1>2, <2>1
<1> QED
  BY <1>1, <1>2, <1>3 DEF IdRead

(***************************************************************************)
(* No function runs on two machines, as long as neither took a stray byte  *)
(* for its id: round_robin_partitioning gives every node one machine, and  *)
(* a cut configuration, or another stray byte, leaves functions out but    *)
(* never gives a machine another's.                                        *)
(***************************************************************************)
THEOREM OneMachineEach == Spec => []NodeOnce
<1>1. TypeOK /\ BuildInv => NodeOnce
  <2> SUFFICES ASSUME TypeOK, BuildInv, NEW m \in Machines, NEW o \in Machines,
                      got[m].stray # "machine_id", got[o].stray # "machine_id",
                      NEW n \in DOMAIN started[m], n \in DOMAIN started[o]
               PROVE  m = o
    BY DEF NodeOnce
  <2>1. n \in Internal(m) /\ n \in Internal(o)
    BY DEF BuildInv, Built
  <2> QED
    BY <2>1, OwnNodes
<1> QED
  BY <1>1, TypeCorrect, BuildsConfiguration, PTL

-----------------------------------------------------------------------------
(***************************************************************************)
(* Where the addresses lead, once everything has been read.                *)
(***************************************************************************)
LEMMA WholeConfiguration ==
  ASSUME NEW m \in Machines, Whole(m)
  PROVE  /\ Internal(m) = {n \in Nodes : MachineOf(n) = m} /\ Known(m) = Nodes
         /\ \A n \in Nodes : ConfNeighbors(m, n) = Neighbors[n] /\ IsPktgen(m, n) = (n = Pktgen)
<1> USE SizeAssumption DEF Machines, Nodes
<1>1. /\ \A a \in Machines : HasMachine(m, a)
      /\ \A n \in Nodes : HasNode(m, n)
  BY DEF Whole, HasMachine, HasNode, Has, Fields
<1>2. MapRead(m) = Machines
  BY <1>1 DEF Whole, MapRead
<1>3. IdRead(m) = m
  BY DEF Whole, IdRead, Fields
<1>4. ConfId(m) = m /\ ConfMachines(m) = Machines
  BY <1>2, <1>3 DEF ConfId, ConfMachines
<1>5. \A a \in Machines : NodesFor(m, a) = {n \in Nodes : MachineOf(n) = a}
  BY <1>1, <1>4 DEF NodesFor
<1>6. \A n \in Nodes : MachineOf(n) \in Machines
  BY DEF MachineOf
<1> QED
  BY <1>4, <1>5, <1>6 DEF Internal, Known, ConfNeighbors, IsPktgen, Blank, Whole

\* setup_nodes gives every container of a machine an address of its own.
LEMMA ContainersDiffer ==
  ASSUME NEW m \in Machines, NEW x \in Internal(m), NEW y \in Internal(m),
         Container(m, x) = Container(m, y)
  PROVE  x = y
<1> DEFINE Below(n) == {z \in Internal(m) : z < n}
<1>1. Internal(m) \subseteq Nodes
  BY DEF Internal, NodesFor
<1>2. IsFiniteSet(Nodes)
  BY SizeAssumption, FS_Interval DEF Nodes
<1>3. \A n : IsFiniteSet(Below(n)) /\ Cardinality(Below(n)) \in Nat
  BY <1>1, <1>2, FS_Subset, FS_CardinalityType
<1>4. Cardinality(Below(x)) = Cardinality(Below(y))
  <2>1. Container(m, x)[2] = 2 + Cardinality(Below(x)) /\ Container(m, y)[2] = 2 + Cardinality(Below(y))
    BY DEF Container
  <2> HIDE DEF Below
  <2> QED
    BY <1>3, <2>1
<1>5. ASSUME NEW a \in Internal(m), NEW b \in Internal(m), a < b,
             Cardinality(Below(a)) = Cardinality(Below(b))
      PROVE  FALSE
  <2>1. a \in Nodes /\ b \in Nodes
    BY <1>1
  <2>2. Below(a) \subseteq Below(b) /\ a \in Below(b) /\ a \notin Below(a)
    BY <1>1, <1>5, <2>1 DEF Nodes
  <2> HIDE DEF Below
  <2>3. Below(a) = Below(b)
    BY <1>3, <1>5, <2>2, FS_Subset
  <2> QED
    BY <2>2, <2>3
<1> HIDE DEF Below
<1>6. x < y \/ y < x \/ x = y
  BY <1>1 DEF Nodes
<1> QED
  BY <1>4, <1>5, <1>6

Deployed == \A m \in Machines : agent[m] = "waiting" /\ Whole(m)

LEMMA BridgeLeads ==
  ASSUME TypeOK, BuildInv, Deployed, NEW m \in Machines, NEW t \in Internal(m)
  PROVE  AddressOf(m, t).ip = Container(m, t) /\ OnBridge(m, Container(m, t)) = {t}
<1>1. net[m] = NetTable(m) /\ DOMAIN started[m] = Internal(m)
  BY DEF Deployed, BuildInv, Built
<1>2. Internal(m) \subseteq Known(m)
  BY WholeConfiguration DEF Deployed
<1>3. \A n \in Internal(m) : n \in DOMAIN net[m] /\ net[m][n].ip = Container(m, n)
  BY <1>1, <1>2 DEF NetTable, Address
<1> QED
  BY <1>1, <1>3, ContainersDiffer DEF OnBridge, AddressOf

(***************************************************************************)
(* setup_bridge_ports on one machine and make_flow_rules on another derive *)
(* the port of a node on their own: its forwarder has one line of it.      *)
(***************************************************************************)
LEMMA AddressLeads ==
  ASSUME TypeOK, BuildInv, Deployed, NEW m \in Machines, NEW t \in Nodes
  PROVE  LeadsTo(m, AddressOf(m, t)) = {t}
<1> DEFINE o == MachineOf(t)
<1>1. o \in Machines /\ t \in Internal(o)
  <2>1. o \in Machines
    BY SizeAssumption DEF MachineOf, Machines, Nodes
  <2> QED
    BY <2>1, WholeConfiguration DEF Deployed
<1>2. CASE t \in Internal(m)
  <2>1. Container(m, t)[1] = "bridge"
    BY DEF Container
  <2>2. AddressOf(m, t).ip = Container(m, t) /\ OnBridge(m, Container(m, t)) = {t}
    BY <1>2, BridgeLeads
  <2> QED
    BY <2>1, <2>2 DEF LeadsTo
<1>3. CASE t \notin Internal(m)
  <2>1. AddressOf(m, t) = Address(<<"machine", o>>, ExternalPort(t))
    <3>1. net[m] = NetTable(m) /\ t \in Known(m)
      BY WholeConfiguration DEF Deployed, BuildInv, Built
    <3> QED
      BY <1>3, <3>1 DEF NetTable, AddressOf
  <2>2. /\ AddressOf(m, t).ip[1] = "machine" /\ AddressOf(m, t).ip[2] = o
        /\ AddressOf(m, t).port = ExternalPort(t)
    BY <2>1 DEF Address
  <2> DEFINE Line(n) == [port |-> ForwarderPort(n), to |-> Address(AddressOf(o, n).ip, 8000)]
  <2>3. lines[o] = {Line(n) : n \in Internal(o)}
    BY <1>1 DEF Deployed, BuildInv, Built, Lines
  <2>4. \A n \in Internal(o) : Line(n).port = ExternalPort(t) <=> n = t
    <3>1. Internal(o) \subseteq Nodes
      BY DEF Internal, NodesFor
    <3> QED
      BY <3>1, SizeAssumption DEF ForwarderPort, ExternalPort, Nodes
  <2>5. {l \in lines[o] : l.port = ExternalPort(t)} = {Line(t)}
    <3> HIDE DEF Line
    <3> QED
      BY <1>1, <2>3, <2>4
  <2>6. OnBridge(o, Line(t).to.ip) = {t}
    BY <1>1, BridgeLeads DEF Address
  <2>7. LeadsTo(m, AddressOf(m, t)) = UNION {OnBridge(o, l.to.ip) : l \in {Line(t)}}
    <3> HIDE DEF Line
    <3> QED
      BY <2>2, <2>5 DEF LeadsTo
  <2> HIDE DEF Line
  <2> QED
    BY <2>6, <2>7
<1> QED
  BY <1>2, <1>3

(***************************************************************************)
(* Once the agents have built whole configurations, the addresses each     *)
(* function was given lead to exactly its neighbors, one address for each, *)
(* or to its own port at the merger: what the machines derive from the ids *)
(* on their own agrees, for any graph on any number of machines.           *)
(***************************************************************************)
THEOREM RoutesOfAll == Spec => []RoutesAgree
<1>1. TypeOK /\ BuildInv => RoutesAgree
  <2> SUFFICES ASSUME TypeOK, BuildInv, Deployed,
                      NEW m \in Machines, NEW n \in DOMAIN started[m]
               PROVE  /\ UNION {LeadsTo(m, a) : a \in started[m][n]} = Neighbors[n]
                      /\ Neighbors[n] # {} => Cardinality(started[m][n]) = Cardinality(Neighbors[n])
                      /\ Neighbors[n] = {} /\ n # Pktgen =>
                            started[m][n] = {Address(<<"merger">>, 8000 + n + 1)}
    BY DEF RoutesAgree, Deployed
  <2>1. n \in Nodes /\ started[m][n] = Arguments(m, n)
    BY DEF BuildInv, Built, Internal, NodesFor
  <2>2. Neighbors[n] \subseteq Nodes
    BY <2>1, GraphAssumption
  <2>3. Arguments(m, n) = {AddressOf(m, t) : t \in Neighbors[n]}
                          \cup (IF Neighbors[n] = {} /\ n # Pktgen
                                THEN {Address(<<"merger">>, MergerPort(n))} ELSE {})
    BY <2>1, WholeConfiguration DEF Arguments, Deployed
  <2>4. \A t \in Neighbors[n] : LeadsTo(m, AddressOf(m, t)) = {t}
    BY <2>2, AddressLeads
  <2>5. CASE Neighbors[n] # {}
    <3>1. started[m][n] = {AddressOf(m, t) : t \in Neighbors[n]}
      BY <2>1, <2>3, <2>5
    <3>2. UNION {LeadsTo(m, a) : a \in started[m][n]} = Neighbors[n]
      BY <2>4, <3>1
    <3>3. Cardinality(started[m][n]) = Cardinality(Neighbors[n])
      <4> DEFINE to == [t \in Neighbors[n] |-> AddressOf(m, t)]
      <4>1. to \in Bijection(Neighbors[n], started[m][n])
        <5>1. \A s, t \in Neighbors[n] : to[s] = to[t] => s = t
          <6> SUFFICES ASSUME NEW s \in Neighbors[n], NEW t \in Neighbors[n],
                              AddressOf(m, s) = AddressOf(m, t)
                       PROVE  s = t
            OBVIOUS
          <6>1. {s} = {t}
            BY <2>4
          <6> QED
            BY <6>1
        <5>2. to \in [Neighbors[n] -> started[m][n]]
          BY <3>1
        <5>3. \A a \in started[m][n] : \E t \in Neighbors[n] : to[t] = a
          BY <3>1
        <5> HIDE DEF to
        <5> QED
          BY <5>1, <5>2, <5>3, Fun_IsBij
      <4>2. IsFiniteSet(Neighbors[n])
        <5>1. IsFiniteSet(Nodes)
          BY SizeAssumption, FS_Interval DEF Nodes
        <5> QED
          BY <2>2, <5>1, FS_Subset
      <4> HIDE DEF to
      <4> QED
        BY <4>1, <4>2, FS_Bijection DEF ExistsBijection
    <3> QED
      BY <2>5, <3>2, <3>3
  <2>6. CASE Neighbors[n] = {}
    <3>1. LeadsTo(m, Address(<<"merger">>, MergerPort(n))) = {}
      BY DEF LeadsTo, Address
    <3>2. started[m][n] \subseteq {Address(<<"merger">>, MergerPort(n))}
      BY <2>1, <2>3, <2>6
    <3>3. n # Pktgen => started[m][n] = {Address(<<"merger">>, 8000 + n + 1)}
      BY <2>1, <2>3, <2>6 DEF MergerPort
    <3> QED
      BY <2>6, <3>1, <3>2, <3>3
  <2> QED
    BY <2>5, <2>6
<1> QED
  BY <1>1, TypeCorrect, BuildsConfiguration, PTL
===============================================================================
