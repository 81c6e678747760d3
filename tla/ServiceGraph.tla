---------------------------- MODULE ServiceGraph ----------------------------
(***************************************************************************)
(* How the Orchestrator turns an input into a service graph, a list of     *)
(* conflicts and the ports of the merger: its constructor in               *)
(* src/setup/Orchestrator.cpp, a step at a time, on ServiceGraphNodes.     *)
(*                                                                         *)
(* A node is named by its function.  Sets of nodes are ordered by address  *)
(* and the walks over them are walks in any order, except for get_parent,  *)
(* whose answer depends on the addresses: addr.  unordered_maps are walked *)
(* in any order too.  A dereferenced NULL and an exception end the         *)
(* process: pc is "failed".                                                *)
(***************************************************************************)
EXTENDS Integers, Sequences, FiniteSets, Functions

CONSTANTS
    ActionTable,  \* function -> packet location -> "null", "R", "R/W" or "T"
    Inputs        \* the inputs the program may be started with

None == "NULL"

(***************************************************************************)
(* An input: the functions in order, the pairs of orderDependencies and    *)
(* of priorities, the positional pairs, the machines, and addr, the order  *)
(* of the addresses that new gives to the nodes.                           *)
(***************************************************************************)
FunctionsOf(in) == Range(in.functions)
Pairs(in) == {p \in FunctionsOf(in) \X FunctionsOf(in) : p[1] # p[2]}

IsInput(in) ==
    /\ in.functions \in Seq(STRING) /\ None \notin FunctionsOf(in)
    /\ in.orderDependencies \in Seq(Pairs(in))
    /\ in.priorities \in Seq(Pairs(in))
    /\ in.positional \in Seq(FunctionsOf(in) \X {"first", "last"})
    /\ in.ips \in Seq(STRING) /\ in.ips # <<>>
    /\ in.addr \in [FunctionsOf(in) -> Nat] /\ IsInjective(in.addr)

ASSUME InputAssumption == \A in \in Inputs : IsInput(in)

VARIABLES
    input,             \* userInput, and the addresses of the nodes
    pc,                \* the part of the constructor that runs
    k,                 \* the i of its loop
    parsedOrder, parsedPriorities,
    pairs,             \* the pairs of functions pair_to_conflicts has
    neighbors, parents,            \* of each ServiceGraphNode
    rootNodes,                     \* the roots not yet searched
    calls, leavesForRoot,          \* findAllLeaves: the calls to come, leaves
    leafNodes,
    func_to_ip, port_to_node_map, conflicts_list,
    drawn              \* the nodes and edges written for the web server

graph == <<neighbors, parents>>
parsed == <<parsedOrder, parsedPriorities>>
search == <<rootNodes, calls, leavesForRoot, leafNodes>>
outputs == <<func_to_ip, port_to_node_map, conflicts_list, drawn>>
vars == <<input, pc, k, parsed, pairs, graph, search, outputs>>

Fns == FunctionsOf(input)
Ids == 0 .. Len(input.functions) - 1
FnOf(id) == input.functions[id + 1]

\* func_to_inx: the last index of a function that is listed twice.
Inx(f) == CHOOSE id \in Ids : FnOf(id) = f /\ \A j \in Ids : FnOf(j) = f => j <= id

-----------------------------------------------------------------------------
(* isParallelizable                                                        *)

HasRow(f) == f \in DOMAIN ActionTable

\* stringToAction: whatever is not "R" writes.
WritesAt(f, l) == ActionTable[f][l] \notin {"null", "R"}
UsesAt(f, l) == ActionTable[f][l] # "null"

\* nf1 neither drops, adds nor removes, and writes nothing that nf2 only reads.
Parallel(f1, f2) ==
    /\ \A l \in {"Drop", "Add/Rm"} : ActionTable[f1][l] # "T"
    /\ \A l \in DOMAIN ActionTable[f1] :
          ~(WritesAt(f1, l) /\ UsesAt(f2, l) /\ ~WritesAt(f2, l))

ConflictingActions(f1, f2) ==
    {l \in DOMAIN ActionTable[f1] : UsesAt(f1, l) /\ WritesAt(f2, l)}

-----------------------------------------------------------------------------
(* Parsing                                                                 *)

Init ==
    /\ input \in Inputs
    /\ pc = "order" /\ k = 1
    /\ parsedOrder = <<>> /\ parsedPriorities = <<>> /\ pairs = {}
    /\ neighbors = [f \in Fns |-> {}] /\ parents = [f \in Fns |-> {}]
    /\ rootNodes = {} /\ calls = <<>> /\ leavesForRoot = {} /\ leafNodes = {}
    /\ func_to_ip = <<>> /\ port_to_node_map = <<>> /\ conflicts_list = <<>>
    /\ drawn = [nodes |-> {}, edges |-> {}]

Fail == /\ pc' = "failed"
        /\ UNCHANGED <<input, k, parsed, pairs, graph, search, outputs>>

WithConflicts(f1, f2) ==
    pairs \cup (IF ConflictingActions(f1, f2) # {} THEN {<<f1, f2>>} ELSE {})

\* parseOrderDependencies, one dependency.  A function without a row makes
\* the conversion of its row throw.
ParseOrder ==
    /\ pc = "order" /\ k <= Len(input.orderDependencies)
    /\ LET f1 == input.orderDependencies[k][1]
           f2 == input.orderDependencies[k][2]
       IN IF ~(HasRow(f1) /\ HasRow(f2)) THEN Fail
          ELSE /\ IF Parallel(f1, f2)
                  THEN /\ parsedPriorities' = Append(parsedPriorities, <<f1, f2>>)
                       /\ pairs' = WithConflicts(f1, f2)
                       /\ UNCHANGED parsedOrder
                  ELSE /\ parsedOrder' = Append(parsedOrder, <<f1, f2>>)
                       /\ UNCHANGED <<parsedPriorities, pairs>>
               /\ k' = k + 1
               /\ UNCHANGED <<input, pc, graph, search, outputs>>

\* parsePriorityDependencies, one pair; one that is not parallelizable is
\* only reported.
ParsePriority ==
    /\ pc = "priority" /\ k <= Len(input.priorities)
    /\ LET f1 == input.priorities[k][1]
           f2 == input.priorities[k][2]
       IN IF ~(HasRow(f1) /\ HasRow(f2)) THEN Fail
          ELSE /\ IF Parallel(f1, f2)
                  THEN /\ parsedPriorities' = Append(parsedPriorities, <<f1, f2>>)
                       /\ pairs' = WithConflicts(f1, f2)
                  ELSE UNCHANGED <<parsedPriorities, pairs>>
               /\ k' = k + 1
               /\ UNCHANGED <<input, pc, parsedOrder, graph, search, outputs>>

\* The ends of the constructor's loops.
NextPart ==
    /\ \/ pc = "order" /\ k > Len(input.orderDependencies) /\ pc' = "priority"
       \/ pc = "priority" /\ k > Len(input.priorities) /\ pc' = "forest"
    /\ k' = 1
    /\ UNCHANGED <<input, parsed, pairs, graph, search, outputs>>

-----------------------------------------------------------------------------
(* The forest of order dependencies                                        *)

AddEdge(a, b) == /\ neighbors' = [neighbors EXCEPT ![a] = @ \cup {b}]
                 /\ parents' = [parents EXCEPT ![b] = @ \cup {a}]

Forest ==
    /\ pc = "forest" /\ k <= Len(parsedOrder)
    /\ AddEdge(parsedOrder[k][1], parsedOrder[k][2])
    /\ k' = k + 1
    /\ UNCHANGED <<input, pc, parsed, pairs, search, outputs>>

orderTreeNodes == UNION {Range(parsedOrder[j]) : j \in DOMAIN parsedOrder}
priorityNodes == UNION {Range(parsedPriorities[j]) : j \in DOMAIN parsedPriorities}

\* node->isRoot() for every node of the forest
FindRoots ==
    /\ pc = "forest" /\ k > Len(parsedOrder)
    /\ rootNodes' = {f \in orderTreeNodes : parents[f] = {}}
    /\ pc' = "roots"
    /\ UNCHANGED <<input, k, parsed, pairs, graph, calls, leavesForRoot, leafNodes, outputs>>

SearchRoot ==
    /\ pc = "roots"
    /\ \E r \in rootNodes : /\ rootNodes' = rootNodes \ {r}
                            /\ calls' = <<{r}>>
    /\ leavesForRoot' = {}
    /\ pc' = "leaves"
    /\ UNCHANGED <<input, k, parsed, pairs, graph, leafNodes, outputs>>

CallsFrom(f) == <<neighbors[f]>>

(***************************************************************************)
(* findAllLeaves: calls is its stack, each entry the neighbors of one call *)
(* that are still to be visited.  No node is marked as visited.            *)
(***************************************************************************)
FindLeaf ==
    /\ pc = "leaves" /\ calls # <<>>
    /\ LET here == Head(calls) IN
       IF here = {} THEN calls' = Tail(calls) /\ UNCHANGED leavesForRoot
       ELSE \E f \in here :
              /\ \A g \in here : input.addr[f] <= input.addr[g]
              /\ IF neighbors[f] = {}
                 THEN /\ leavesForRoot' = leavesForRoot \cup {f}
                      /\ calls' = <<here \ {f}>> \o Tail(calls)
                 ELSE /\ calls' = CallsFrom(f) \o <<here \ {f}>> \o Tail(calls)
                      /\ UNCHANGED leavesForRoot
    /\ UNCHANGED <<input, pc, k, parsed, pairs, graph, rootNodes, leafNodes, outputs>>

\* Bug for TLC: pairs that are not parallelizable are recorded.
LevelPairsAll(nodes) == {p \in nodes \X nodes : p[1] # p[2]}

\* checkLevelParallelizability: a pair is recorded with its conflicts, which
\* may be none.
LevelPairs(nodes) == {p \in nodes \X nodes : p[1] # p[2] /\ Parallel(p[1], p[2])}

LeavesFound ==
    /\ pc = "leaves" /\ calls = <<>>
    /\ pairs' = pairs \cup LevelPairs(leavesForRoot)
    /\ leafNodes' = leafNodes \cup leavesForRoot
    /\ pc' = "roots"
    /\ UNCHANGED <<input, k, parsed, graph, rootNodes, calls, leavesForRoot, outputs>>

\* The level of the free floating nodes.
CheckPriorities ==
    /\ pc = "roots" /\ rootNodes = {}
    /\ pairs' = pairs \cup LevelPairs(priorityNodes)
    /\ pc' = "attach"
    /\ UNCHANGED <<input, k, parsed, graph, search, outputs>>

-----------------------------------------------------------------------------
(* First and last                                                          *)

hasPositionals ==
    /\ Len(input.positional) \in {1, 2}
    /\ Len(input.positional) = 2 => input.positional[1][2] # input.positional[2][2]

\* Bug for TLC: the loop starts at the second entry.
AtSkipsFirst(position) ==
    LET is == {i \in DOMAIN input.positional : i # 1 /\ input.positional[i][2] = position}
    IN IF is = {} THEN None
       ELSE input.positional[CHOOSE i \in is : \A j \in is : j <= i][1]

\* The function of the last entry with a position, or None.
At(position) ==
    LET is == {i \in DOMAIN input.positional : input.positional[i][2] = position}
    IN IF is = {} THEN None
       ELSE input.positional[CHOOSE i \in is : \A j \in is : j <= i][1]

treeRoots == {f \in orderTreeNodes : parents[f] = {}}

\* Bug for TLC: the leaves of the trees hang from first too.
FromFirstLeaves == treeRoots \cup priorityNodes \cup leafNodes

\* Bug for TLC: free floating nodes are not attached.
FromFirstRoots == treeRoots

\* What is attached to first: the roots of the trees, and every node of a
\* priority, whether a tree has it or not.
FromFirst == treeRoots \cup priorityNodes

\* Bug for TLC: only the leaves of trees go on to last.
ToLastLeaves == IF At("last") = None THEN {} ELSE leafNodes

ToLast == IF At("last") = None THEN {} ELSE priorityNodes \cup leafNodes

Edges == (IF FromFirst = {} THEN {} ELSE {At("first")} \X FromFirst)
         \cup (IF ToLast = {} THEN {} ELSE ToLast \X {At("last")})

Attach ==
    /\ pc = "attach"
    /\ IF hasPositionals /\ FromFirst # {} /\ At("first") = None THEN Fail
       ELSE /\ IF hasPositionals
               THEN /\ neighbors' = [f \in Fns |-> neighbors[f] \cup {g \in Fns : <<f, g>> \in Edges}]
                    /\ parents' = [f \in Fns |-> parents[f] \cup {g \in Fns : <<g, f>> \in Edges}]
               ELSE UNCHANGED graph
            /\ pc' = "partition"
            /\ UNCHANGED <<input, k, parsed, pairs, search, outputs>>

-----------------------------------------------------------------------------
(* Machines, ports and conflicts                                           *)

\* round_robin_partitioning: by name, so the last index of a function counts.
Partition ==
    /\ pc = "partition"
    /\ func_to_ip' = [f \in Fns |-> input.ips[(Inx(f) % Len(input.ips)) + 1]]
    /\ pc' = "ports"
    /\ UNCHANGED <<input, k, parsed, pairs, graph, search, port_to_node_map, conflicts_list, drawn>>

\* The neighbors of a RuntimeNode
IdNeighbors(id) == {Inx(f) : f \in neighbors[FnOf(id)]}

\* Bug for TLC: the port's own offset is not taken off.
MergerPortsShifted ==
    [port \in {8000 + id + 1 : id \in {j \in Ids : IdNeighbors(j) = {}}} |-> port - 8000]

\* Bug for TLC: the merger listens for every node.
MergerPortsAll == [port \in {8000 + id + 1 : id \in Ids} |-> port - 8001]

MergerPorts ==
    [port \in {8000 + id + 1 : id \in {j \in Ids : IdNeighbors(j) = {}}} |-> port - 8001]

Ports ==
    /\ pc = "ports"
    /\ port_to_node_map' = MergerPorts
    /\ pc' = "draw"
    /\ UNCHANGED <<input, k, parsed, pairs, graph, search, func_to_ip, conflicts_list, drawn>>

Label(f) == CASE f = "dnf_loadbalancer" -> "IDS" [] f = "pktgen" -> "client" [] OTHER -> f

\* write_graph_format: what has no neighbors goes on to the merger, and the
\* merger to the receiver; the machines of these two are not the input's.
WriteGraph ==
    LET merger == Len(input.functions)
        receiver == merger + 1
    IN /\ pc = "draw"
       /\ drawn' = [nodes |-> {[id |-> id, label |-> Label(FnOf(id)), group |-> func_to_ip[FnOf(id)]] :
                                  id \in Ids}
                              \cup {[id |-> merger, label |-> "merger", group |-> None],
                                    [id |-> receiver, label |-> "server", group |-> None]},
                    edges |-> (UNION {{id} \X IdNeighbors(id) : id \in Ids})
                              \cup ({id \in Ids : IdNeighbors(id) = {}} \X {merger})
                              \cup {<<merger, receiver>>}]
       /\ pc' = "conflicts"
       /\ UNCHANGED <<input, k, parsed, pairs, graph, search, func_to_ip, port_to_node_map, conflicts_list>>

\* ServiceGraphNode::get_parent: the first of the set, that is, by address.
GetParent(f) ==
    IF parents[f] = {} THEN -1
    ELSE Inx(CHOOSE g \in parents[f] : \A h \in parents[f] : input.addr[g] <= input.addr[h])

Item(p) == [major |-> Inx(p[1]), minor |-> Inx(p[2]), parent |-> GetParent(p[1])]

\* create_conflicts_list: pairs holds what is left of the walk over the two
\* maps, which stays with a major until its minors are all listed.
ListConflict ==
    /\ pc = "conflicts"
    /\ \E p \in pairs :
         /\ conflicts_list # <<>> =>
              LET before == conflicts_list[Len(conflicts_list)].major
              IN Inx(p[1]) = before \/ \A q \in pairs : Inx(q[1]) # before
         /\ conflicts_list' = Append(conflicts_list, Item(p))
         /\ pairs' = pairs \ {p}
    /\ UNCHANGED <<input, pc, k, parsed, graph, search, func_to_ip, port_to_node_map, drawn>>

\* MergerInfo is complete, and the merger is made.
Finish ==
    /\ pc = "conflicts" /\ pairs = {}
    /\ pc' = "done"
    /\ UNCHANGED <<input, k, parsed, pairs, graph, search, outputs>>

Next == \/ ParseOrder \/ ParsePriority \/ NextPart \/ Forest \/ FindRoots
        \/ SearchRoot \/ FindLeaf \/ LeavesFound \/ CheckPriorities
        \/ Attach \/ Partition \/ Ports \/ WriteGraph \/ ListConflict \/ Finish

Spec == Init /\ [][Next]_vars
FairSpec == Spec /\ WF_vars(Next)

-----------------------------------------------------------------------------
(* Properties                                                              *)

(***************************************************************************)
(* The graph is one the constructor's comments have in mind: its           *)
(* dependencies that are not parallelizable form a forest, free floating   *)
(* nodes are in no tree except as a root, every function is in one of the  *)
(* two or is first, and there is a first node and no other position.       *)
(***************************************************************************)
Ordered(in) == {p \in Range(in.orderDependencies) : ~Parallel(p[1], p[2])}
Floating(in) ==
    UNION {Range(p) : p \in {q \in Range(in.orderDependencies) \cup Range(in.priorities) :
                                Parallel(q[1], q[2])}}

\* f and the functions with a path of such dependencies to it: what is in
\* every set that has f and, with a function, those it depends on.
Above(in, f) ==
    {g \in FunctionsOf(in) :
        \A S \in SUBSET FunctionsOf(in) :
            f \in S /\ (\A p \in Ordered(in) : p[2] \in S => p[1] \in S) => g \in S}

Acyclic(in) == \A p \in Ordered(in) : p[2] \notin Above(in, p[1])

Separate(in) ==
    LET named == Range(in.orderDependencies) \cup Range(in.priorities)
        order == Ordered(in)
        tree == UNION {Range(p) : p \in order}
        floating == Floating(in)
    IN /\ Len(in.positional) = 1 /\ in.positional[1][2] = "first"
       /\ IsInjective(in.functions)
       /\ \A p \in named : HasRow(p[1]) /\ HasRow(p[2])
       /\ FunctionsOf(in) \ {in.positional[1][1]} = tree \cup floating
       /\ \A p \in order : p[2] \notin floating
       /\ \A p, q \in order : p[2] = q[2] => p = q
       /\ Acyclic(in)

\* Of two leaves of a tree that may run in parallel, the predecessor of the
\* first is on the way to the second: so it is if all leaves of a tree have
\* one predecessor.
Level(in) ==
    \A p, q \in Ordered(in) :
        /\ \A r \in Ordered(in) : r[1] \notin {p[2], q[2]}
        /\ Above(in, p[2]) \cap Above(in, q[2]) # {}
        /\ p[2] # q[2] /\ Parallel(p[2], q[2])
        => p[1] \in Above(in, q[2])

TypeOK ==
    /\ IsInput(input)
    /\ pc \in {"order", "priority", "forest", "roots", "leaves", "attach",
               "partition", "ports", "draw", "conflicts", "done", "failed"}
    /\ k \in Nat \ {0}
    /\ parsedOrder \in Seq(Pairs(input)) /\ parsedPriorities \in Seq(Pairs(input))
    /\ pairs \subseteq Pairs(input)
    /\ neighbors \in [Fns -> SUBSET Fns] /\ parents \in [Fns -> SUBSET Fns]
    /\ rootNodes \subseteq Fns /\ leavesForRoot \subseteq Fns /\ leafNodes \subseteq Fns
    /\ calls \in Seq(SUBSET Fns)
    /\ pc \in {"ports", "draw", "conflicts", "done"} => func_to_ip \in [Fns -> Range(input.ips)]
    /\ \A port \in DOMAIN port_to_node_map : port_to_node_map[port] \in Ids
    /\ conflicts_list \in Seq([major : Ids, minor : Ids, parent : Ids \cup {-1}])
    /\ \A e \in drawn.edges : \E a, b \in drawn.nodes : e = <<a.id, b.id>>

\* The nodes a packet reaches from a set without passing through avoid.
Reached(from, avoid) ==
    {f \in Fns :
        \A S \in SUBSET Fns :
            from \ avoid \subseteq S /\ (\A g \in S : neighbors[g] \ avoid \subseteq S) => f \in S}

Upstream(f) == {g \in Fns : f \in Reached({g}, {})}

(***************************************************************************)
(* A dependency that is not parallelizable is kept: no packet reaches the  *)
(* second function unless it has passed the first.                         *)
(***************************************************************************)
OrderKept ==
    pc = "done" =>
        \A i \in DOMAIN parsedOrder :
            parsedOrder[i][2] \notin
                Reached({f \in Fns : parents[f] = {}}, {parsedOrder[i][1]})

\* The same for the inputs the comments have in mind.
TreesKeepOrder == pc = "done" /\ Separate(input) => OrderKept

(***************************************************************************)
(* What the merger relies on (AtMostOnce in MergerOperator): each leaf it  *)
(* listens for is reached from first, along one path only, so that it      *)
(* sends one copy of each packet.                                          *)
(***************************************************************************)
OneCopy ==
    pc = "done" /\ Separate(input) =>
        \A id \in Range(port_to_node_map) :
            /\ At("first") \in Upstream(FnOf(id))
            /\ \A g \in Upstream(FnOf(id)) \ {At("first")} : Cardinality(parents[g]) = 1

(***************************************************************************)
(* A conflict is listed between two functions that can run in parallel,    *)
(* neither of which precedes the other, and its parent lies on the way to  *)
(* the major; if the leaves of the trees are level, on the way to both:    *)
(* the merge of the two, stored under the parent, stands for what the      *)
(* parent sent.                                                            *)
(***************************************************************************)
ItemsMeet ==
    pc = "done" /\ Separate(input) =>
        \A i \in DOMAIN conflicts_list :
            LET c == conflicts_list[i] IN
            /\ c.major # c.minor /\ Parallel(FnOf(c.major), FnOf(c.minor))
            /\ c.parent # -1 /\ FnOf(c.parent) \in Upstream(FnOf(c.major))
            /\ FnOf(c.major) \notin Upstream(FnOf(c.minor))
            /\ Level(input) => FnOf(c.parent) \in Upstream(FnOf(c.minor))

(***************************************************************************)
(* With a last function that no dependency or priority names, the merger   *)
(* listens for that function and otherwise only for functions that are     *)
(* attached to nothing: every other path goes on to last, whether from a   *)
(* tree or a free floating node, unless the dependencies form a cycle.     *)
(***************************************************************************)
LastIsLeaf ==
    /\ pc = "done" /\ hasPositionals /\ At("last") # None /\ At("last") # At("first")
    /\ At("last") \notin orderTreeNodes \cup priorityNodes
    /\ Acyclic(input)
    => /\ Inx(At("last")) \in Range(port_to_node_map)
       /\ \A id \in Range(port_to_node_map) :
             FnOf(id) = At("last") \/ parents[FnOf(id)] = {}

\* The constructor comes to an end for such inputs, without a failure.
Builds == pc = "order" /\ Separate(input) ~> pc = "done"

-----------------------------------------------------------------------------
(* The graph the merger works on, as MergePacket has it                    *)

PathTo(l) ==
    LET Up[n \in Nat] ==
            IF n = 0 THEN <<l>>
            ELSE LET p == GetParent(FnOf(Up[n - 1][1]))
                 IN IF p = -1 THEN Up[n - 1] ELSE <<p>> \o Up[n - 1]
    IN Up[Cardinality(Fns)]

MergerGraph ==
    LET leaves == Range(port_to_node_map)
    IN [nf |-> [id \in Ids |-> FnOf(id)], leaves |-> leaves,
        path |-> [l \in leaves |-> PathTo(l)], conflicts |-> conflicts_list]
=============================================================================
