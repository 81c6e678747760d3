-------------------------- MODULE ServiceGraphProofs --------------------------
(***************************************************************************)
(* Theorems about the Orchestrator's constructor, for every action table   *)
(* and every set of inputs.                                                *)
(***************************************************************************)
EXTENDS ServiceGraph, FiniteSetTheorems, WellFoundedInduction, TLAPS

-----------------------------------------------------------------------------
(* The order dependencies of an input, as a graph                          *)

LEMMA OrderedType ==
    ASSUME NEW in, IsInput(in)
    PROVE  /\ Ordered(in) \subseteq Pairs(in)
           /\ \A p \in Ordered(in) : /\ p = <<p[1], p[2]>> /\ p[1] # p[2]
                                     /\ p[1] \in FunctionsOf(in) /\ p[2] \in FunctionsOf(in)
<1>1. Range(in.orderDependencies) \subseteq Pairs(in)
    BY DEF IsInput, Range
<1>2. Ordered(in) \subseteq Pairs(in)
    BY <1>1 DEF Ordered
<1> QED
    BY <1>2 DEF Pairs

LEMMA AboveType == ASSUME NEW in, NEW f PROVE Above(in, f) \subseteq FunctionsOf(in)
BY DEF Above

\* f is above itself, and what is above f has its predecessors above f.
LEMMA AboveClosed ==
    ASSUME NEW in, IsInput(in), NEW f \in FunctionsOf(in)
    PROVE  /\ f \in Above(in, f)
           /\ \A p \in Ordered(in) : p[2] \in Above(in, f) => p[1] \in Above(in, f)
<1>1. f \in Above(in, f)
    BY DEF Above
<1>2. ASSUME NEW p \in Ordered(in), p[2] \in Above(in, f) PROVE p[1] \in Above(in, f)
    BY <1>2, OrderedType DEF Above
<1> QED
    BY <1>1, <1>2

\* It is the smallest such set.
LEMMA AboveLeast ==
    ASSUME NEW in, NEW f, NEW S \in SUBSET FunctionsOf(in), f \in S,
           \A p \in Ordered(in) : p[2] \in S => p[1] \in S
    PROVE  Above(in, f) \subseteq S
BY DEF Above

LEMMA AboveTransitive ==
    ASSUME NEW in, IsInput(in), NEW f \in FunctionsOf(in), NEW g \in Above(in, f)
    PROVE  Above(in, g) \subseteq Above(in, f)
BY AboveType, AboveClosed, AboveLeast

\* What is above f has, but for f itself, a successor above f.
LEMMA AboveSuccessor ==
    ASSUME NEW in, IsInput(in), NEW f \in FunctionsOf(in), NEW g \in Above(in, f), g # f
    PROVE  \E p \in Ordered(in) : p[1] = g /\ p[2] \in Above(in, f)
<1> SUFFICES ASSUME \A p \in Ordered(in) : p[1] = g => p[2] \notin Above(in, f) PROVE FALSE
    OBVIOUS
<1> DEFINE S == Above(in, f) \ {g}
<1>1. S \subseteq FunctionsOf(in) /\ f \in S
    BY AboveType, AboveClosed
<1>2. \A p \in Ordered(in) : p[2] \in S => p[1] \in S
    BY AboveClosed
<1>3. Above(in, f) \subseteq S
    <2> HIDE DEF S
    <2> QED
        BY <1>1, <1>2, AboveLeast
<1> QED
    BY <1>3

\* With one predecessor, what is above g is g or above that one.
LEMMA AboveOne ==
    ASSUME NEW in, IsInput(in), NEW p \in Ordered(in),
           \A q \in Ordered(in) : q[2] = p[2] => q = p
    PROVE  Above(in, p[2]) \subseteq {p[2]} \cup Above(in, p[1])
<1> DEFINE S == {p[2]} \cup Above(in, p[1])
<1>1. p[1] \in FunctionsOf(in) /\ p[2] \in FunctionsOf(in)
    BY OrderedType
<1>2. S \subseteq FunctionsOf(in) /\ p[2] \in S
    BY <1>1, AboveType
<1>3. \A q \in Ordered(in) : q[2] \in S => q[1] \in S
    BY <1>1, AboveClosed
<1> HIDE DEF S
<1>4. Above(in, p[2]) \subseteq S
    BY <1>2, <1>3, AboveLeast
<1> QED
    BY <1>4 DEF S

\* Without a predecessor only g itself is above g.
LEMMA AboveRoot ==
    ASSUME NEW in, NEW g \in FunctionsOf(in), \A q \in Ordered(in) : q[2] # g
    PROVE  Above(in, g) \subseteq {g}
<1> DEFINE S == {g}
<1>1. S \in SUBSET FunctionsOf(in) /\ g \in S /\ \A p \in Ordered(in) : p[2] \in S => p[1] \in S
    OBVIOUS
<1> HIDE DEF S
<1>2. Above(in, g) \subseteq S
    BY <1>1, AboveLeast
<1> QED
    BY <1>2 DEF S

LEMMA FunctionsFinite == ASSUME NEW in, IsInput(in) PROVE IsFiniteSet(FunctionsOf(in))
<1>1. in.functions \in Seq(STRING)
    BY DEF IsInput
<1>2. PICK n \in Nat : n = Len(in.functions) /\ DOMAIN in.functions = 1 .. n
    BY <1>1
<1>3. IsFiniteSet(1 .. n)
    BY FS_Interval
<1>4. FunctionsOf(in) = {in.functions[j] : j \in 1 .. n}
    BY <1>2 DEF FunctionsOf, Range
<1> DEFINE h == [j \in 1 .. n |-> in.functions[j]]
<1>5. h \in [1 .. n -> FunctionsOf(in)] /\ \A t \in FunctionsOf(in) : \E j \in 1 .. n : h[j] = t
    BY <1>4
<1>6. h \in Surjection(1 .. n, FunctionsOf(in))
    BY <1>5 DEF Surjection
<1> QED
    BY <1>3, <1>6, FS_Surjection

\* Without a cycle, every set of functions has one with no predecessor in it.
LEMMA Rooted ==
    ASSUME NEW in, IsInput(in), Acyclic(in), NEW B \in SUBSET FunctionsOf(in), B # {}
    PROVE  \E f \in B : \A p \in Ordered(in) : p[2] = f => p[1] \notin B
<1> DEFINE T == {Cardinality(Above(in, f)) : f \in B}
<1>1. \A f \in B : IsFiniteSet(Above(in, f)) /\ Cardinality(Above(in, f)) \in Nat
    BY AboveType, FunctionsFinite, FS_Subset, FS_CardinalityType
<1>2. T \subseteq Nat /\ T # {}
    BY <1>1
<1>3. PICK m \in T : \A y \in T : ~(<<y, m>> \in OpToRel(<, Nat))
    <2> HIDE DEF T
    <2> QED
        BY <1>2, NatLessThanWellFounded, WFMin
<1>4. \A y \in T : ~(y < m)
    <2> HIDE DEF T
    <2> QED
        BY <1>2, <1>3 DEF OpToRel
<1>5. PICK f \in B : m = Cardinality(Above(in, f))
    OBVIOUS
<1>6. ASSUME NEW p \in Ordered(in), p[2] = f, p[1] \in B PROVE FALSE
    <2>1. p[1] \in Above(in, f) /\ f \notin Above(in, p[1]) /\ f \in Above(in, f)
        BY <1>6, AboveClosed DEF Acyclic
    <2>2. Above(in, p[1]) \subseteq Above(in, f)
        BY <2>1, AboveTransitive
    <2>3. Cardinality(Above(in, p[1])) < Cardinality(Above(in, f))
        BY <1>1, <1>6, <2>1, <2>2, FS_Subset
    <2> QED
        BY <1>4, <1>5, <1>6, <2>3
<1> QED
    BY <1>6

-----------------------------------------------------------------------------
(***************************************************************************)
(* What the constructor has built when.  The lists of the input as sets:   *)
(* Deps(n) and Prios(n) are the first n of them.                           *)
(***************************************************************************)
Deps(n) == {input.orderDependencies[j] : j \in 1 .. n}
Prios(n) == {input.priorities[j] : j \in 1 .. n}
FloatingPairs(in) ==
    {p \in Range(in.orderDependencies) \cup Range(in.priorities) : Parallel(p[1], p[2])}

\* The functions of the trees, those of them without a predecessor and those
\* without a successor.
Tree(in) == UNION {Range(p) : p \in Ordered(in)}
Roots(in) == {f \in Tree(in) : \A p \in Ordered(in) : p[2] # f}
LeavesOf(in) == {f \in Tree(in) : \A p \in Ordered(in) : p[1] # f}

Parsing == {"order", "priority"}
Searching == {"roots", "leaves", "attach"}
Attached == {"partition", "ports", "draw", "conflicts", "done"}

ParseInv ==
    /\ pc = "order" =>
          /\ k \in 1 .. Len(input.orderDependencies) + 1
          /\ Range(parsedOrder) = {p \in Deps(k - 1) : ~Parallel(p[1], p[2])}
          /\ Range(parsedPriorities) = {p \in Deps(k - 1) : Parallel(p[1], p[2])}
    /\ pc = "priority" =>
          /\ k \in 1 .. Len(input.priorities) + 1
          /\ Range(parsedOrder) = Ordered(input)
          /\ Range(parsedPriorities) =
                {p \in Range(input.orderDependencies) \cup Prios(k - 1) : Parallel(p[1], p[2])}
    /\ pc \notin Parsing \cup {"failed"} =>
          /\ Range(parsedOrder) = Ordered(input)
          /\ Range(parsedPriorities) = FloatingPairs(input)

\* The edges that attach adds.
Attachments ==
    ({At("first")} \X (Roots(input) \cup Floating(input)))
    \cup (IF At("last") = None THEN {} ELSE (Floating(input) \cup leafNodes) \X {At("last")})
FinalEdges == Ordered(input) \cup (IF hasPositionals THEN Attachments ELSE {})

IsGraph(edges) ==
    \A f, g \in Fns : /\ g \in neighbors[f] <=> <<f, g>> \in edges
                      /\ f \in parents[g] <=> <<f, g>> \in edges

GraphInv ==
    /\ neighbors \in [Fns -> SUBSET Fns] /\ parents \in [Fns -> SUBSET Fns]
    /\ pc \in Parsing => IsGraph({})
    /\ pc = "forest" => /\ k \in 1 .. Len(parsedOrder) + 1
                        /\ IsGraph({parsedOrder[j] : j \in 1 .. k - 1})
    /\ pc \in Searching => IsGraph(Ordered(input))
    /\ pc \in Attached => IsGraph(FinalEdges)

\* Two functions that create_conflicts_list may be given: free floating ones,
\* or leaves of one tree.
Rivals(p) ==
    /\ p[1] # p[2] /\ Parallel(p[1], p[2])
    /\ \/ p[1] \in Floating(input) /\ p[2] \in Floating(input)
       \/ /\ p[1] \in LeavesOf(input) /\ p[2] \in LeavesOf(input)
          /\ Above(input, p[1]) \cap Above(input, p[2]) # {}

\* The search finds leaves of the root it started at, and will find them all.
Found(f) ==
    \/ f \in leafNodes
    \/ pc \in {"roots", "leaves"} /\ rootNodes \cap Above(input, f) # {}
    \/ pc = "leaves" /\ (f \in leavesForRoot \/ (UNION Range(calls)) \cap Above(input, f) # {})

SearchInv ==
    /\ pc \in Searching \cup Attached =>
          \A f \in LeavesOf(input) : Roots(input) \cap Above(input, f) # {} => Found(f)
    /\ pc \in Searching => rootNodes \subseteq Roots(input)
    /\ leafNodes \subseteq LeavesOf(input)
    /\ pc = "leaves" =>
          \E r \in Fns : /\ \A f \in UNION Range(calls) : f \in Tree(input) /\ r \in Above(input, f)
                         /\ \A f \in leavesForRoot : f \in LeavesOf(input) /\ r \in Above(input, f)

ListInv ==
    /\ \A p \in pairs : Rivals(p)
    /\ conflicts_list # <<>> => pc \in {"conflicts", "done", "failed"}
    /\ pc \in {"conflicts", "done"} =>
          \A i \in DOMAIN conflicts_list :
              \E p \in Pairs(input) : Rivals(p) /\ conflicts_list[i] = Item(p)
    /\ pc \in {"draw", "conflicts", "done"} => port_to_node_map = MergerPorts

Inv == TypeOK /\ ParseInv /\ GraphInv /\ SearchInv /\ ListInv

-----------------------------------------------------------------------------
(* The indices of functions                                                *)

LEMMA GreatestId ==
    ASSUME NEW n \in Nat, NEW W, W \subseteq 0 .. n, W # {}
    PROVE  \E x \in W : \A y \in W : y <= x
<1> DEFINE T == {n - y : y \in W}
<1>1. T \subseteq Nat /\ T # {}
    <2>1. \A y \in W : n - y \in Nat
        OBVIOUS
    <2> QED
        BY <2>1
<1>2. PICK d \in T : \A y \in T : ~(<<y, d>> \in OpToRel(<, Nat))
    <2> HIDE DEF T
    <2> QED
        BY <1>1, NatLessThanWellFounded, WFMin
<1>3. \A y \in T : ~(y < d)
    <2> HIDE DEF T
    <2> QED
        BY <1>1, <1>2 DEF OpToRel
<1>4. PICK x \in W : d = n - x
    OBVIOUS
<1>5. ASSUME NEW y \in W PROVE y <= x
    <2>1. n - y \in T /\ x \in 0 .. n /\ y \in 0 .. n
        OBVIOUS
    <2>2. ~(n - y < n - x)
        BY <1>3, <1>4, <2>1
    <2> QED
        BY <2>1, <2>2
<1> QED
    BY <1>5

LEMMA InxFacts ==
    ASSUME IsInput(input), NEW f \in Fns
    PROVE  Inx(f) \in Ids /\ FnOf(Inx(f)) = f
<1>1. PICK n \in Nat : n = Len(input.functions) /\ DOMAIN input.functions = 1 .. n
    BY DEF IsInput
<1>2. PICK j \in 1 .. n : input.functions[j] = f
    BY <1>1 DEF Fns, FunctionsOf, Range
<1> DEFINE W == {id \in Ids : FnOf(id) = f}
<1>3. n \in Nat /\ n - 1 \in Nat /\ Ids = 0 .. n - 1
    BY <1>1, <1>2 DEF Ids
<1>4. j - 1 \in W
    BY <1>2, <1>3 DEF FnOf
<1>5. PICK x \in W : \A y \in W : y <= x
    <2>1. W \subseteq 0 .. n - 1
        BY <1>3
    <2> HIDE DEF W
    <2> QED
        BY <1>3, <1>4, <2>1, GreatestId
<1> QED
    BY <1>5 DEF Inx

LEMMA FnOfType == ASSUME IsInput(input), NEW id \in Ids PROVE FnOf(id) \in Fns
<1>1. id + 1 \in DOMAIN input.functions
    BY DEF IsInput, Ids
<1> QED
    BY <1>1 DEF FnOf, Fns, FunctionsOf, Range

-----------------------------------------------------------------------------
(* The trees, the free floating functions and the positions                *)

LEMMA TreeFacts ==
    ASSUME NEW in, IsInput(in)
    PROVE  /\ \A f : f \in Tree(in) <=> \E p \in Ordered(in) : f = p[1] \/ f = p[2]
           /\ Tree(in) \subseteq FunctionsOf(in)
<1>1. \A p \in Ordered(in) : Range(p) = {p[1], p[2]}
    <2> SUFFICES ASSUME NEW p \in Ordered(in) PROVE Range(p) = {p[1], p[2]}
        OBVIOUS
    <2>1. p = <<p[1], p[2]>>
        BY OrderedType
    <2>2. DOMAIN p = 1 .. 2
        BY <2>1
    <2> QED
        BY <2>2 DEF Range
<1>2. \A f : f \in Tree(in) <=> \E p \in Ordered(in) : f = p[1] \/ f = p[2]
    BY <1>1 DEF Tree
<1> QED
    BY <1>2, OrderedType

LEMMA FloatingFacts ==
    ASSUME NEW in, IsInput(in)
    PROVE  /\ FloatingPairs(in) \subseteq Pairs(in)
           /\ Floating(in) = UNION {Range(p) : p \in FloatingPairs(in)}
           /\ \A f : f \in Floating(in) <=> \E p \in FloatingPairs(in) : f = p[1] \/ f = p[2]
           /\ Floating(in) \subseteq FunctionsOf(in)
<1>1. Range(in.orderDependencies) \cup Range(in.priorities) \subseteq Pairs(in)
    BY DEF IsInput, Range
<1>2. FloatingPairs(in) \subseteq Pairs(in)
    BY <1>1 DEF FloatingPairs
<1>3. \A p \in FloatingPairs(in) : Range(p) = {p[1], p[2]}
    <2> SUFFICES ASSUME NEW p \in FloatingPairs(in) PROVE Range(p) = {p[1], p[2]}
        OBVIOUS
    <2>1. p = <<p[1], p[2]>>
        BY <1>2 DEF Pairs
    <2>2. DOMAIN p = 1 .. 2
        BY <2>1
    <2> QED
        BY <2>2 DEF Range
<1>4. Floating(in) = UNION {Range(p) : p \in FloatingPairs(in)}
    BY DEF Floating, FloatingPairs
<1>5. \A f : f \in Floating(in) <=> \E p \in FloatingPairs(in) : f = p[1] \/ f = p[2]
    BY <1>3, <1>4
<1>6. Floating(in) \subseteq FunctionsOf(in)
    BY <1>2, <1>5 DEF Pairs
<1> QED
    BY <1>2, <1>4, <1>5, <1>6

\* The functions that positions name are functions.
LEMMA AtType ==
    ASSUME IsInput(input), NEW position
    PROVE  At(position) \in Fns \cup {None}
<1>1. PICK n \in Nat : n = Len(input.positional) /\ DOMAIN input.positional = 1 .. n
    BY DEF IsInput
<1>2. \A j \in 1 .. n : input.positional[j][1] \in Fns
    BY <1>1 DEF IsInput, Fns
<1> DEFINE is == {j \in DOMAIN input.positional : input.positional[j][2] = position}
<1>3. CASE is = {}
    BY <1>3 DEF At
<1>4. CASE is # {}
    <2>1. PICK x \in is : \A y \in is : y <= x
        <3>1. is \subseteq 0 .. n
            BY <1>1
        <3> HIDE DEF is
        <3> QED
            BY <1>4, <3>1, GreatestId
    <2>2. (CHOOSE m \in is : \A y \in is : y <= m) \in is
        BY <2>1
    <2>3. At(position) = input.positional[CHOOSE m \in is : \A y \in is : y <= m][1]
        BY <1>4 DEF At
    <2> QED
        BY <1>1, <1>2, <2>2, <2>3
<1> QED
    BY <1>3, <1>4
-----------------------------------------------------------------------------
(* The graph of an input that Separate describes                           *)

LEMMA SeparateFacts ==
    ASSUME IsInput(input), Separate(input)
    PROVE  /\ hasPositionals
           /\ At("first") \in Fns /\ At("last") = None
           /\ At("first") \notin Tree(input) \cup Floating(input)
           /\ Fns = {At("first")} \cup Tree(input) \cup Floating(input)
           /\ \A p \in Ordered(input) : p[2] \notin Floating(input)
           /\ \A p, q \in Ordered(input) : p[2] = q[2] => p = q
           /\ Acyclic(input)
<1>1. /\ Len(input.positional) = 1 /\ input.positional[1][2] = "first"
      /\ Fns \ {input.positional[1][1]} = Tree(input) \cup Floating(input)
    BY DEF Separate, Tree, Fns
<1>2. DOMAIN input.positional = {1} /\ input.positional[1][1] \in Fns
    BY <1>1 DEF IsInput, Fns
<1> DEFINE is(position) == {j \in DOMAIN input.positional : input.positional[j][2] = position}
<1>3. is("first") = {1} /\ is("last") = {}
    BY <1>1, <1>2
<1>4. (CHOOSE j \in {1} : \A i \in {1} : i <= j) = 1
    OBVIOUS
<1>5. At("first") = input.positional[1][1]
    BY <1>3, <1>4 DEF At
<1>6. At("last") = None
    BY <1>3 DEF At
<1>7. hasPositionals
    BY <1>1 DEF hasPositionals
<1>8. At("first") \notin Tree(input) \cup Floating(input)
    BY <1>1, <1>5
<1>9. Fns = {At("first")} \cup Tree(input) \cup Floating(input)
    BY <1>1, <1>2, <1>5
<1> QED
    BY <1>2, <1>5, <1>6, <1>7, <1>8, <1>9 DEF Separate

\* Every node but first has one parent: its predecessor, or first.
LEMMA ParentFacts ==
    ASSUME TypeOK, IsGraph(FinalEdges), Separate(input)
    PROVE  /\ parents[At("first")] = {}
           /\ \A p \in Ordered(input) : parents[p[2]] = {p[1]}
           /\ \A f \in Roots(input) \cup Floating(input) : parents[f] = {At("first")}
           /\ \A f \in Fns : \/ f = At("first") \/ f \in Roots(input) \cup Floating(input)
                             \/ \E p \in Ordered(input) : f = p[2]
<1> DEFINE first == At("first")
<1>0. IsInput(input) /\ parents \in [Fns -> SUBSET Fns]
    BY DEF TypeOK
<1>1. FinalEdges = Ordered(input) \cup ({first} \X (Roots(input) \cup Floating(input)))
    BY <1>0, SeparateFacts DEF FinalEdges, Attachments
<1>2. /\ first \in Fns /\ first \notin Tree(input) \cup Floating(input)
      /\ Fns = {first} \cup Tree(input) \cup Floating(input)
      /\ \A p \in Ordered(input) : p[2] \notin Floating(input)
      /\ \A p, q \in Ordered(input) : p[2] = q[2] => p = q
    BY <1>0, SeparateFacts
<1>3. \A p \in Ordered(input) : /\ p = <<p[1], p[2]>> /\ p[1] \in Fns /\ p[2] \in Fns
                                /\ p[1] \in Tree(input) /\ p[2] \in Tree(input)
    BY <1>0, OrderedType, TreeFacts DEF Fns
<1>4. \A f, g \in Fns : f \in parents[g] <=>
          \/ <<f, g>> \in Ordered(input)
          \/ f = first /\ g \in Roots(input) \cup Floating(input)
    BY <1>1 DEF IsGraph
<1>5. \A g \in Roots(input) : g \in Tree(input) /\ \A p \in Ordered(input) : p[2] # g
    BY DEF Roots
<1>6. parents[first] = {}
    <2>1. \A f \in Fns : f \notin parents[first]
        BY <1>2, <1>3, <1>4, <1>5
    <2> QED
        BY <1>0, <1>2, <2>1
<1>7. ASSUME NEW p \in Ordered(input) PROVE parents[p[2]] = {p[1]}
    <2>1. \A f \in Fns : f \in parents[p[2]] <=> <<f, p[2]>> \in Ordered(input)
        BY <1>2, <1>3, <1>4, <1>5
    <2>2. ASSUME NEW f \in Fns, <<f, p[2]>> \in Ordered(input) PROVE f = p[1]
        <3> DEFINE q == <<f, p[2]>>
        <3>1. q \in Ordered(input) /\ q[2] = p[2] /\ q[1] = f
            BY <2>2
        <3>2. q = p
            <4> HIDE DEF q
            <4> QED
                BY <1>2, <3>1
        <3> QED
            BY <3>1, <3>2
    <2>3. p[1] \in Fns /\ <<p[1], p[2]>> \in Ordered(input)
        BY <1>3
    <2> QED
        BY <1>0, <1>3, <2>1, <2>2, <2>3
<1>8. ASSUME NEW g \in Roots(input) \cup Floating(input) PROVE parents[g] = {first}
    <2>1. g \in Fns /\ \A p \in Ordered(input) : p[2] # g
        BY <1>2, <1>5
    <2>2. \A f \in Fns : f \in parents[g] <=> f = first
        BY <1>3, <1>4, <2>1
    <2> QED
        BY <1>0, <1>2, <2>1, <2>2
<1>9. ASSUME NEW f \in Fns
      PROVE  \/ f = first \/ f \in Roots(input) \cup Floating(input)
             \/ \E p \in Ordered(input) : f = p[2]
    BY <1>2 DEF Roots
<1> QED
    BY <1>6, <1>7, <1>8, <1>9

-----------------------------------------------------------------------------
(* Upstream, by its closure                                                *)

LEMMA UpstreamSelf == ASSUME NEW f \in Fns PROVE f \in Upstream(f)
BY DEF Upstream, Reached

LEMMA UpstreamParent ==
    ASSUME NEW edges, IsGraph(edges), NEW f \in Fns, NEW g \in Upstream(f), NEW h \in Fns,
           h \in parents[g]
    PROVE  h \in Upstream(f)
<1>1. g \in Fns /\ f \in Reached({g}, {})
    BY DEF Upstream
<1>2. g \in neighbors[h]
    BY <1>1 DEF IsGraph
<1>3. ASSUME NEW S \in SUBSET Fns, {h} \ {} \subseteq S, \A x \in S : neighbors[x] \ {} \subseteq S
      PROVE  f \in S
    <2>1. {g} \ {} \subseteq S
        BY <1>2, <1>3
    <2> QED
        BY <1>1, <1>3, <2>1 DEF Reached
<1>4. f \in Reached({h}, {})
    BY <1>3 DEF Reached
<1> QED
    BY <1>4 DEF Upstream

LEMMA UpstreamWithin ==
    ASSUME NEW edges, IsGraph(edges), neighbors \in [Fns -> SUBSET Fns],
           NEW U \in SUBSET Fns, NEW f \in U, \A g \in U : parents[g] \subseteq U
    PROVE  Upstream(f) \subseteq U
<1> SUFFICES ASSUME NEW g \in Upstream(f), g \notin U PROVE FALSE
    OBVIOUS
<1>1. g \in Fns /\ f \in Reached({g}, {})
    BY DEF Upstream
<1> DEFINE S == Fns \ U
<1>2. S \in SUBSET Fns /\ {g} \ {} \subseteq S
    BY <1>1
<1>3. ASSUME NEW h \in S, NEW n \in neighbors[h] PROVE n \in S
    <2>1. n \in Fns /\ h \in parents[n]
        BY DEF IsGraph
    <2> QED
        BY <2>1
<1>4. \A h \in S : neighbors[h] \ {} \subseteq S
    BY <1>3
<1>5. f \in S
    <2> HIDE DEF S
    <2> QED
        BY <1>1, <1>2, <1>4 DEF Reached
<1> QED
    BY <1>5

\* Dependencies are paths.
LEMMA AboveUpstream ==
    ASSUME IsInput(input), IsGraph(FinalEdges), NEW f \in Fns
    PROVE  Above(input, f) \subseteq Upstream(f)
<1> DEFINE S == Upstream(f)
<1>1. S \in SUBSET Fns /\ f \in S
    BY UpstreamSelf DEF Upstream
<1>2. ASSUME NEW p \in Ordered(input), p[2] \in S PROVE p[1] \in S
    <2>1. p = <<p[1], p[2]>> /\ p[1] \in Fns /\ p[2] \in Fns
        BY OrderedType DEF Fns
    <2>2. <<p[1], p[2]>> \in FinalEdges
        BY <2>1 DEF FinalEdges
    <2>3. p[1] \in parents[p[2]]
        BY <2>1, <2>2 DEF IsGraph
    <2> QED
        BY <1>2, <2>1, <2>3, UpstreamParent
<1> HIDE DEF S
<1>3. Above(input, f) \subseteq S
    BY <1>1, <1>2, AboveLeast DEF Fns
<1> QED
    BY <1>3 DEF S

\* Every node is reached from first.
LEMMA FirstUpstream ==
    ASSUME TypeOK, IsGraph(FinalEdges), Separate(input), NEW f \in Fns
    PROVE  At("first") \in Upstream(f)
<1> DEFINE U == Upstream(f)
<1>0. IsInput(input)
    BY DEF TypeOK
<1>1. U \in SUBSET FunctionsOf(input) /\ U # {}
    BY UpstreamSelf DEF Upstream, Fns
<1>2. PICK g \in U : \A p \in Ordered(input) : p[2] = g => p[1] \notin U
    <2> HIDE DEF U
    <2> QED
        BY <1>0, <1>1, SeparateFacts, Rooted
<1>3. g \in Fns
    BY DEF Upstream
<1>4. CASE g = At("first")
    BY <1>4
<1>5. CASE g \in Roots(input) \cup Floating(input)
    <2>1. At("first") \in parents[g] /\ At("first") \in Fns
        BY <1>0, <1>5, ParentFacts, SeparateFacts
    <2> QED
        BY <1>3, <2>1, UpstreamParent
<1>6. ASSUME NEW p \in Ordered(input), g = p[2] PROVE FALSE
    <2>1. p[1] \in parents[g] /\ p[1] \in Fns
        BY <1>0, <1>6, ParentFacts, OrderedType DEF Fns
    <2>2. p[1] \in U
        BY <1>3, <2>1, UpstreamParent
    <2> QED
        BY <1>2, <1>6, <2>2
<1> QED
    BY <1>3, <1>4, <1>5, <1>6, ParentFacts
-----------------------------------------------------------------------------
(* The properties follow from the invariant                                *)

\* What a packet meets before the second function of a dependency has, from
\* first on, the first function above it.
LEMMA KeepsOrder == Inv => TreesKeepOrder
<1> SUFFICES ASSUME Inv, pc = "done", Separate(input), NEW i \in DOMAIN parsedOrder
             PROVE  parsedOrder[i][2] \notin
                        Reached({f \in Fns : parents[f] = {}}, {parsedOrder[i][1]})
    BY DEF TreesKeepOrder, OrderKept
<1> DEFINE a == parsedOrder[i][1]
           b == parsedOrder[i][2]
           first == At("first")
           S == {f \in Fns : a \notin Above(input, f)}
           starts == {f \in Fns : parents[f] = {}}
<1>0. TypeOK /\ IsInput(input) /\ IsGraph(FinalEdges) /\ neighbors \in [Fns -> SUBSET Fns]
    BY DEF Inv, TypeOK, GraphInv, Attached
<1>1. parsedOrder[i] \in Ordered(input)
    BY DEF Inv, ParseInv, Parsing, Range
<1>2. a \in Fns /\ b \in Fns /\ a \in Above(input, b)
    BY <1>0, <1>1, OrderedType, AboveClosed DEF Fns
<1>3. b \notin S
    BY <1>2
<1>4. first \in Fns /\ \A p \in Ordered(input) : p[2] # first /\ p[2] \notin Floating(input)
    BY <1>0, SeparateFacts, TreeFacts
<1>5. starts \subseteq {first}
    BY <1>0, ParentFacts
<1>6. ASSUME NEW g \in Fns, \A p \in Ordered(input) : p[2] # g, g # a PROVE g \in S
    <2>1. Above(input, g) \subseteq {g}
        BY <1>6, AboveRoot DEF Fns
    <2> QED
        BY <1>6, <2>1
<1>7. starts \ {a} \subseteq S
    BY <1>4, <1>5, <1>6
<1>8. ASSUME NEW h \in S, NEW g \in neighbors[h], g # a PROVE g \in S
    <2>1. g \in Fns /\ h \in Fns /\ h \in parents[g]
        BY <1>0 DEF IsGraph
    <2>2. CASE g = first \/ g \in Roots(input) \cup Floating(input)
        <3>1. \A p \in Ordered(input) : p[2] # g
            BY <1>4, <2>2 DEF Roots
        <3> HIDE DEF S
        <3> QED
            BY <1>6, <1>8, <2>1, <3>1
    <2>3. ASSUME NEW p \in Ordered(input), g = p[2] PROVE g \in S
        <3>1. parents[g] = {p[1]} /\ p[1] = h
            BY <1>0, <2>1, <2>3, ParentFacts
        <3>2. \A q \in Ordered(input) : q[2] = p[2] => q = p
            BY <1>0, SeparateFacts
        <3>3. Above(input, g) \subseteq {g} \cup Above(input, h)
            BY <1>0, <2>3, <3>1, <3>2, AboveOne
        <3> QED
            BY <1>8, <2>1, <3>3
    <2> QED
        BY <1>0, <2>1, <2>2, <2>3, ParentFacts
<1>9. S \in SUBSET Fns /\ \A h \in S : neighbors[h] \ {a} \subseteq S
    BY <1>8
<1>10. b \notin Reached(starts, {a})
    <2> HIDE DEF S, starts, a, b
    <2> QED
        BY <1>3, <1>7, <1>9 DEF Reached
<1> QED
    BY <1>10

\* Each function but first has the one parent that ParentFacts names.
LEMMA CopiesOnce == Inv => OneCopy
<1> SUFFICES ASSUME Inv, pc = "done", Separate(input), NEW id \in Range(port_to_node_map)
             PROVE  /\ At("first") \in Upstream(FnOf(id))
                    /\ \A g \in Upstream(FnOf(id)) \ {At("first")} : Cardinality(parents[g]) = 1
    BY DEF OneCopy
<1>0. TypeOK /\ IsInput(input) /\ IsGraph(FinalEdges)
    BY DEF Inv, TypeOK, GraphInv, Attached
<1>1. id \in Ids
    BY <1>0 DEF TypeOK, Range
<1>2. FnOf(id) \in Fns
    BY <1>0, <1>1, FnOfType
<1>3. At("first") \in Upstream(FnOf(id))
    BY <1>0, <1>2, FirstUpstream
<1>4. ASSUME NEW g \in Upstream(FnOf(id)) \ {At("first")} PROVE Cardinality(parents[g]) = 1
    <2>1. g \in Fns /\ g # At("first")
        BY DEF Upstream
    <2>2. ASSUME NEW h, parents[g] = {h} PROVE Cardinality(parents[g]) = 1
        BY <2>2, FS_Singleton
    <2>3. CASE g \in Roots(input) \cup Floating(input)
        BY <1>0, <2>2, <2>3, ParentFacts
    <2>4. ASSUME NEW p \in Ordered(input), g = p[2] PROVE Cardinality(parents[g]) = 1
        BY <1>0, <2>2, <2>4, ParentFacts
    <2> QED
        BY <1>0, <2>1, <2>3, <2>4, ParentFacts
<1> QED
    BY <1>3, <1>4

\* Of two rivals, the paths to the second, from its predecessors up to first,
\* leave the first out.
LEMMA Meets == Inv => ItemsMeet
<1> SUFFICES ASSUME Inv, pc = "done", Separate(input), NEW i \in DOMAIN conflicts_list
             PROVE  LET c == conflicts_list[i] IN
                    /\ c.major # c.minor /\ Parallel(FnOf(c.major), FnOf(c.minor))
                    /\ c.parent # -1 /\ FnOf(c.parent) \in Upstream(FnOf(c.major))
                    /\ FnOf(c.major) \notin Upstream(FnOf(c.minor))
                    /\ Level(input) => FnOf(c.parent) \in Upstream(FnOf(c.minor))
    BY DEF ItemsMeet
<1> DEFINE first == At("first")
<1>0. /\ TypeOK /\ IsInput(input) /\ IsGraph(FinalEdges)
      /\ parents \in [Fns -> SUBSET Fns] /\ neighbors \in [Fns -> SUBSET Fns]
    BY DEF Inv, TypeOK, GraphInv, Attached
<1>1. PICK p \in Pairs(input) : Rivals(p) /\ conflicts_list[i] = Item(p)
    BY DEF Inv, ListInv
<1>2. /\ p[1] \in Fns /\ p[2] \in Fns /\ p[1] # p[2] /\ Parallel(p[1], p[2])
      /\ p[1] # first /\ p[2] # first
    <2>1. p[1] \in Tree(input) \cup Floating(input) /\ p[2] \in Tree(input) \cup Floating(input)
        BY <1>1 DEF Rivals, LeavesOf
    <2> QED
        BY <1>0, <1>1, <2>1, SeparateFacts DEF Pairs, Fns, Rivals
<1>3. PICK g : parents[p[1]] = {g}
    <2>1. CASE p[1] \in Roots(input) \cup Floating(input)
        BY <1>0, <2>1, ParentFacts
    <2>2. ASSUME NEW q \in Ordered(input), p[1] = q[2] PROVE \E g : parents[p[1]] = {g}
        <3>1. parents[q[2]] = {q[1]}
            BY <1>0, ParentFacts
        <3> QED
            BY <2>2, <3>1
    <2>3. \/ p[1] \in Roots(input) \cup Floating(input)
          \/ \E q \in Ordered(input) : p[1] = q[2]
        BY <1>0, <1>2, ParentFacts
    <2> QED
        BY <2>1, <2>2, <2>3
<1>4. g \in Fns
    BY <1>0, <1>2, <1>3
<1>5. GetParent(p[1]) = Inx(g)
    <2>1. input.addr \in [Fns -> Nat]
        BY <1>0 DEF IsInput, Fns
    <2>2. (CHOOSE x \in {g} : \A h \in {g} : input.addr[x] <= input.addr[h]) = g
        BY <1>4, <2>1
    <2> QED
        BY <1>3, <2>2 DEF GetParent
<1>6. /\ conflicts_list[i].major = Inx(p[1]) /\ FnOf(Inx(p[1])) = p[1]
      /\ conflicts_list[i].minor = Inx(p[2]) /\ FnOf(Inx(p[2])) = p[2]
      /\ conflicts_list[i].parent = Inx(g) /\ FnOf(Inx(g)) = g /\ Inx(g) # -1
    BY <1>0, <1>1, <1>2, <1>4, <1>5, InxFacts DEF Item, Ids
<1>7. g \in Upstream(p[1])
    BY <1>0, <1>2, <1>3, <1>4, UpstreamSelf, UpstreamParent
<1>8. CASE p[1] \in Floating(input) /\ p[2] \in Floating(input)
    <2>1. parents[p[1]] = {first} /\ parents[p[2]] = {first} /\ parents[first] = {} /\ first \in Fns
        BY <1>0, <1>8, ParentFacts, SeparateFacts
    <2> DEFINE U == {p[2], first}
    <2>2. U \in SUBSET Fns /\ p[2] \in U /\ \A h \in U : parents[h] \subseteq U
        BY <1>2, <2>1
    <2>3. Upstream(p[2]) \subseteq U
        <3> HIDE DEF U
        <3> QED
            BY <1>0, <2>2, UpstreamWithin
    <2>4. p[1] \notin Upstream(p[2])
        BY <1>2, <2>3
    <2>5. g \in Upstream(p[2])
        BY <1>0, <1>2, <1>3, <2>1, FirstUpstream
    <2> QED
        BY <1>2, <1>6, <1>7, <2>4, <2>5
<1>9. CASE /\ p[1] \in LeavesOf(input) /\ p[2] \in LeavesOf(input)
           /\ Above(input, p[1]) \cap Above(input, p[2]) # {}
    <2>1. /\ \A r \in Ordered(input) : r[1] \notin {p[1], p[2]}
          /\ \E q \in Ordered(input) : q[2] = p[1]
          /\ \E q \in Ordered(input) : q[2] = p[2]
        BY <1>0, <1>9, TreeFacts DEF LeavesOf
    <2> DEFINE U == Above(input, p[2]) \cup {first}
    <2>2. U \in SUBSET Fns /\ p[2] \in U
        BY <1>0, <1>2, AboveType, AboveClosed, SeparateFacts DEF Fns
    <2>3. ASSUME NEW h \in U PROVE parents[h] \subseteq U
        <3>1. CASE h = first \/ h \in Roots(input) \cup Floating(input)
            BY <1>0, <3>1, ParentFacts
        <3>2. ASSUME NEW q \in Ordered(input), h = q[2], h # first PROVE parents[h] \subseteq U
            <4>1. parents[h] = {q[1]} /\ q[2] \in Above(input, p[2])
                BY <1>0, <2>3, <3>2, ParentFacts
            <4>2. q[1] \in Above(input, p[2])
                BY <1>0, <1>2, <4>1, AboveClosed DEF Fns
            <4> QED
                BY <4>1, <4>2
        <3>3. h \in Fns
            BY <2>2
        <3> HIDE DEF U
        <3> QED
            BY <1>0, <3>1, <3>2, <3>3, ParentFacts
    <2>4. Upstream(p[2]) \subseteq U
        <3> HIDE DEF U
        <3> QED
            BY <1>0, <2>2, <2>3, UpstreamWithin
    <2>5. p[1] \notin Above(input, p[2])
        BY <1>0, <1>2, <2>1, AboveSuccessor DEF Fns
    <2>6. p[1] \notin Upstream(p[2])
        BY <1>2, <2>4, <2>5
    <2>7. ASSUME Level(input) PROVE g \in Upstream(p[2])
        <3>1. PICK q \in Ordered(input) : q[2] = p[1]
            BY <2>1
        <3>2. PICK r \in Ordered(input) : r[2] = p[2]
            BY <2>1
        <3>3. q[1] \in Above(input, p[2])
            BY <1>2, <1>9, <2>1, <2>7, <3>1, <3>2 DEF Level
        <3>4. g = q[1]
            BY <1>0, <1>3, <3>1, ParentFacts
        <3> QED
            BY <1>0, <1>2, <3>3, <3>4, AboveUpstream
    <2> QED
        BY <1>2, <1>6, <1>7, <2>6, <2>7
<1> QED
    BY <1>1, <1>8, <1>9 DEF Rivals

\* A node that ends in no edge is last, or has nothing above it.
LEMMA LastListens == Inv => LastIsLeaf
<1> SUFFICES ASSUME Inv, pc = "done", hasPositionals, At("last") # None, At("last") # At("first"),
                    At("last") \notin orderTreeNodes \cup priorityNodes, Acyclic(input)
             PROVE  /\ Inx(At("last")) \in Range(port_to_node_map)
                    /\ \A id \in Range(port_to_node_map) :
                           FnOf(id) = At("last") \/ parents[FnOf(id)] = {}
    BY DEF LastIsLeaf
<1> DEFINE first == At("first")
           last == At("last")
           here == {id \in Ids : IdNeighbors(id) = {}}
<1>0. /\ TypeOK /\ IsInput(input) /\ IsGraph(FinalEdges)
      /\ parents \in [Fns -> SUBSET Fns] /\ neighbors \in [Fns -> SUBSET Fns]
    BY DEF Inv, TypeOK, GraphInv, Attached
<1>1. FinalEdges = Ordered(input) \cup ({first} \X (Roots(input) \cup Floating(input)))
                   \cup ((Floating(input) \cup leafNodes) \X {last})
    BY DEF FinalEdges, Attachments
<1>2. last \in Fns
    BY <1>0, AtType
<1>3. orderTreeNodes = Tree(input) /\ priorityNodes = Floating(input)
    <2>1. Range(parsedOrder) = Ordered(input) /\ Range(parsedPriorities) = FloatingPairs(input)
        BY DEF Inv, ParseInv, Parsing
    <2>2. /\ orderTreeNodes = UNION {Range(p) : p \in Range(parsedOrder)}
          /\ priorityNodes = UNION {Range(p) : p \in Range(parsedPriorities)}
        BY DEF orderTreeNodes, priorityNodes, Range
    <2> QED
        BY <1>0, <2>1, <2>2, FloatingFacts DEF Tree
<1>4. leafNodes \subseteq LeavesOf(input) /\ LeavesOf(input) \subseteq Tree(input)
    BY DEF Inv, SearchInv, LeavesOf
<1>5. Range(port_to_node_map) = here
    <2>1. port_to_node_map = [port \in {8000 + id + 1 : id \in here} |-> port - 8001]
        BY DEF Inv, ListInv, MergerPorts
    <2>2. \A id \in here : (8000 + id + 1) - 8001 = id
        BY DEF Ids
    <2> HIDE DEF here
    <2> QED
        BY <2>1, <2>2 DEF Range
<1>6. \A f \in Fns : ~\E h \in Fns : <<last, h>> \in FinalEdges
    <2>1. \A p \in Ordered(input) : p[1] # last
        BY <1>0, <1>3, TreeFacts
    <2> SUFFICES ASSUME NEW h \in Fns, <<last, h>> \in FinalEdges PROVE FALSE
        OBVIOUS
    <2>2. <<last, h>> \notin Ordered(input)
        BY <2>1
    <2> QED
        BY <1>1, <1>3, <1>4, <2>2
<1>7. neighbors[last] = {}
    BY <1>0, <1>2, <1>6 DEF IsGraph
<1>8. Inx(last) \in here
    BY <1>0, <1>2, <1>7, InxFacts DEF IdNeighbors
<1>9. ASSUME NEW id \in here, FnOf(id) # last, parents[FnOf(id)] # {} PROVE FALSE
    <2> DEFINE f == FnOf(id)
    <2>1. f \in Fns
        BY <1>0, FnOfType
    <2>2. neighbors[f] = {}
        BY DEF IdNeighbors
    <2>3. \A h \in Fns : <<f, h>> \notin FinalEdges
        BY <1>0, <2>1, <2>2 DEF IsGraph
    <2>4. f \notin Floating(input) \cup leafNodes
        BY <1>1, <1>2, <2>3
    <2>5. \A p \in Ordered(input) : p[1] # f
        <3> SUFFICES ASSUME NEW p \in Ordered(input), p[1] = f PROVE FALSE
            OBVIOUS
        <3>1. p = <<f, p[2]>> /\ p[2] \in Fns
            BY <1>0, OrderedType DEF Fns
        <3> QED
            BY <1>1, <2>3, <3>1
    <2>6. PICK h \in Fns : <<h, f>> \in FinalEdges
        BY <1>0, <1>9, <2>1 DEF IsGraph
    <2>7. f \in Tree(input)
        <3>1. CASE <<h, f>> \in Ordered(input)
            BY <1>0, <3>1, TreeFacts
        <3>2. CASE f \in Roots(input)
            BY <3>2 DEF Roots
        <3> HIDE DEF f
        <3> QED
            BY <1>1, <1>9, <2>4, <2>6, <3>1, <3>2 DEF f
    <2>8. f \in LeavesOf(input)
        BY <2>5, <2>7 DEF LeavesOf
    <2>9. Roots(input) \cap Above(input, f) # {}
        <3> DEFINE B == Above(input, f)
        <3>1. B \in SUBSET FunctionsOf(input) /\ f \in B
            BY <1>0, <2>1, AboveType, AboveClosed DEF Fns
        <3>2. PICK r \in B : \A p \in Ordered(input) : p[2] = r => p[1] \notin B
            <4> HIDE DEF B
            <4> QED
                BY <1>0, <3>1, Rooted
        <3>3. \A p \in Ordered(input) : p[2] # r
            BY <1>0, <2>1, <3>2, AboveClosed DEF Fns
        <3>4. r \in Tree(input)
            BY <1>0, <2>1, <2>7, TreeFacts, AboveSuccessor DEF Fns
        <3> QED
            BY <3>3, <3>4 DEF Roots
    <2>10. f \in leafNodes
        BY <2>8, <2>9 DEF Inv, SearchInv, Searching, Attached, Found
    <2> QED
        BY <2>4, <2>10
<1> QED
    BY <1>5, <1>8, <1>9
-----------------------------------------------------------------------------
(* Types                                                                   *)

LEMMA InitInv == Init => Inv
<1> SUFFICES ASSUME Init PROVE Inv
    OBVIOUS
<1>0. IsInput(input)
    BY InputAssumption DEF Init
<1>1. TypeOK
    BY <1>0 DEF Init, TypeOK
<1>2. ParseInv
    <2>1. Range(parsedOrder) = {} /\ Range(parsedPriorities) = {}
        BY DEF Init, Range
    <2>2. Deps(0) = {}
        BY DEF Deps
    <2>3. Len(input.orderDependencies) \in Nat
        BY <1>0 DEF IsInput
    <2>4. pc = "order" /\ k = 1
        BY DEF Init
    <2> QED
        BY <2>1, <2>2, <2>3, <2>4 DEF ParseInv, Parsing
<1>3. GraphInv
    BY <1>1 DEF Init, GraphInv, IsGraph, Parsing, Searching, Attached, TypeOK
<1>4. SearchInv
    BY DEF Init, SearchInv, Searching, Attached
<1>5. ListInv
    BY DEF Init, ListInv
<1> QED
    BY <1>1, <1>2, <1>3, <1>4, <1>5 DEF Inv

\* No step changes the input, nor the functions with it.
LEMMA SameInput ==
    ASSUME [Next]_vars
    PROVE  input' = input /\ Fns' = Fns
<1>1. input' = input
    BY DEF Next, vars, ParseOrder, ParsePriority, NextPart, Forest, FindRoots, SearchRoot, FindLeaf,
           LeavesFound, CheckPriorities, Attach, Partition, Ports, WriteGraph, ListConflict, Finish,
           Fail
<1> QED
    BY <1>1 DEF Fns

LEMMA SameIds ==
    ASSUME input' = input
    PROVE  Ids' = Ids /\ \A f : Inx(f)' = Inx(f)
BY DEF Ids, Inx, FnOf

\* get_parent finds the one of the least address.
LEMMA GetParentType ==
    ASSUME IsInput(input), parents \in [Fns -> SUBSET Fns], NEW f \in Fns
    PROVE  /\ GetParent(f) \in Ids \cup {-1}
<1> DEFINE P == parents[f]
           T == {input.addr[g] : g \in P}
<1>1. P \subseteq Fns /\ input.addr \in [Fns -> Nat]
    BY DEF IsInput, Fns
<1>2. CASE P = {}
    BY <1>2 DEF GetParent
<1>3. CASE P # {}
    <2>1. T \subseteq Nat /\ T # {}
        BY <1>1, <1>3
    <2>2. PICK m \in T : \A y \in T : ~(<<y, m>> \in OpToRel(<, Nat))
        <3> HIDE DEF T
        <3> QED
            BY <2>1, NatLessThanWellFounded, WFMin
    <2>3. \A y \in T : m <= y
        <3> HIDE DEF T
        <3>1. \A y \in T : ~(y < m) /\ y \in Nat /\ m \in Nat
            BY <2>1, <2>2 DEF OpToRel
        <3> QED
            BY <3>1
    <2>4. PICK g \in P : m = input.addr[g]
        OBVIOUS
    <2>5. \A h \in P : input.addr[g] <= input.addr[h]
        BY <2>3, <2>4
    <2>6. (CHOOSE x \in P : \A h \in P : input.addr[x] <= input.addr[h]) \in P
        BY <2>5
    <2> QED
        BY <1>1, <1>3, <2>6, InxFacts DEF GetParent
<1> QED
    BY <1>2, <1>3

LEMMA NeighborTypes ==
    ASSUME IsInput(input), neighbors \in [Fns -> SUBSET Fns], NEW id \in Ids
    PROVE  IdNeighbors(id) \subseteq Ids
BY FnOfType, InxFacts DEF IdNeighbors

LEMMA AppendFacts ==
    ASSUME NEW S, NEW s \in Seq(S), NEW e \in S
    PROVE  Append(s, e) \in Seq(S) /\ Range(Append(s, e)) = Range(s) \cup {e}
<1>1. Append(s, e) \in Seq(S) /\ DOMAIN Append(s, e) = 1 .. Len(s) + 1
    OBVIOUS
<1>2. /\ DOMAIN s = 1 .. Len(s) /\ Append(s, e)[Len(s) + 1] = e
      /\ \A j \in 1 .. Len(s) : Append(s, e)[j] = s[j]
    OBVIOUS
<1>3. Len(s) \in Nat /\ 1 .. Len(s) + 1 = 1 .. Len(s) \cup {Len(s) + 1}
    OBVIOUS
<1>4. Range(Append(s, e)) = {Append(s, e)[j] : j \in 1 .. Len(s) \cup {Len(s) + 1}}
    BY <1>1, <1>3 DEF Range
<1>5. Range(s) = {s[j] : j \in 1 .. Len(s)}
    BY <1>2 DEF Range
<1> QED
    BY <1>1, <1>2, <1>4, <1>5

LEMMA TypeStep == TypeOK /\ [Next]_vars => TypeOK'
<1> SUFFICES ASSUME TypeOK, [Next]_vars PROVE TypeOK'
    OBVIOUS
<1>0. /\ input' = input /\ Fns' = Fns /\ Ids' = Ids
      /\ IsInput(input) /\ neighbors \in [Fns -> SUBSET Fns] /\ parents \in [Fns -> SUBSET Fns]
    BY SameInput, SameIds DEF TypeOK
<1> USE DEF TypeOK, parsed, graph, search, outputs
<1>1. CASE Fail
    BY <1>0, <1>1 DEF Fail
<1>2. CASE ParseOrder /\ ~Fail
    <2> DEFINE d == input.orderDependencies[k]
    <2>1. d \in Pairs(input) /\ d = <<d[1], d[2]>>
        <3>1. input.orderDependencies \in Seq(Pairs(input)) /\ k \in 1 .. Len(input.orderDependencies)
            BY <1>0, <1>2 DEF ParseOrder, IsInput
        <3>2. d \in Pairs(input)
            BY <3>1
        <3> QED
            BY <3>2 DEF Pairs
    <2>2. WithConflicts(d[1], d[2]) \subseteq Pairs(input)
        BY <2>1 DEF WithConflicts
    <2>3. /\ k' = k + 1 /\ UNCHANGED <<pc, graph, search, outputs>>
          /\ parsedPriorities' \in {parsedPriorities, Append(parsedPriorities, d)}
          /\ parsedOrder' \in {parsedOrder, Append(parsedOrder, d)}
          /\ pairs' \in {pairs, WithConflicts(d[1], d[2])}
        BY <1>2, <2>1 DEF ParseOrder
    <2> HIDE DEF d
    <2>4. parsedOrder' \in Seq(Pairs(input)) /\ parsedPriorities' \in Seq(Pairs(input))
        <3>1. /\ Append(parsedOrder, d) \in Seq(Pairs(input))
              /\ Append(parsedPriorities, d) \in Seq(Pairs(input))
            BY <2>1, AppendFacts
        <3> QED
            BY <2>3, <3>1
    <2>5. pairs' \subseteq Pairs(input)
        BY <2>2, <2>3
    <2> QED
        BY <1>0, <2>3, <2>4, <2>5
<1>3. CASE ParsePriority /\ ~Fail
    <2> DEFINE d == input.priorities[k]
    <2>1. d \in Pairs(input) /\ d = <<d[1], d[2]>>
        <3>1. input.priorities \in Seq(Pairs(input)) /\ k \in 1 .. Len(input.priorities)
            BY <1>0, <1>3 DEF ParsePriority, IsInput
        <3>2. d \in Pairs(input)
            BY <3>1
        <3> QED
            BY <3>2 DEF Pairs
    <2>2. WithConflicts(d[1], d[2]) \subseteq Pairs(input)
        BY <2>1 DEF WithConflicts
    <2>3. /\ k' = k + 1 /\ UNCHANGED <<pc, parsedOrder, graph, search, outputs>>
          /\ parsedPriorities' \in {parsedPriorities, Append(parsedPriorities, d)}
          /\ pairs' \in {pairs, WithConflicts(d[1], d[2])}
        BY <1>3, <2>1 DEF ParsePriority
    <2> HIDE DEF d
    <2>4. parsedOrder' \in Seq(Pairs(input)) /\ parsedPriorities' \in Seq(Pairs(input))
        <3>1. /\ Append(parsedOrder, d) \in Seq(Pairs(input))
              /\ Append(parsedPriorities, d) \in Seq(Pairs(input))
            BY <2>1, AppendFacts
        <3> QED
            BY <2>3, <3>1
    <2>5. pairs' \subseteq Pairs(input)
        BY <2>2, <2>3
    <2> QED
        BY <1>0, <2>3, <2>4, <2>5
<1>4. CASE NextPart
    BY <1>0, <1>4 DEF NextPart
<1>5. CASE Forest
    <2>1. parsedOrder[k] \in Pairs(input)
        BY <1>5 DEF Forest
    <2>2. parsedOrder[k][1] \in Fns /\ parsedOrder[k][2] \in Fns
        BY <2>1 DEF Pairs, Fns
    <2>3. neighbors' \in [Fns -> SUBSET Fns] /\ parents' \in [Fns -> SUBSET Fns]
        BY <1>0, <1>5, <2>2 DEF Forest, AddEdge
    <2> QED
        BY <1>0, <1>5, <2>3 DEF Forest
<1>6. CASE FindRoots
    <2>1. orderTreeNodes \subseteq Fns
        <3> SUFFICES ASSUME NEW j \in DOMAIN parsedOrder, NEW f \in Range(parsedOrder[j]) PROVE f \in Fns
            BY DEF orderTreeNodes
        <3>1. parsedOrder[j] \in Pairs(input)
            OBVIOUS
        <3>2. parsedOrder[j] \in Fns \X Fns
            BY <3>1 DEF Pairs, Fns
        <3> QED
            BY <3>2 DEF Range
    <2> QED
        BY <1>0, <1>6, <2>1 DEF FindRoots
<1>7. CASE SearchRoot
    BY <1>0, <1>7 DEF SearchRoot
<1>8. CASE FindLeaf
    <2>1. calls # <<>> /\ calls \in Seq(SUBSET Fns) /\ Head(calls) \in SUBSET Fns
          /\ Tail(calls) \in Seq(SUBSET Fns)
        BY <1>8 DEF FindLeaf
    <2>2. CASE Head(calls) = {}
        BY <1>0, <1>8, <2>1, <2>2 DEF FindLeaf
    <2>3. CASE Head(calls) # {}
        <3>1. PICK f \in Head(calls) :
                 IF neighbors[f] = {}
                 THEN /\ leavesForRoot' = leavesForRoot \cup {f}
                      /\ calls' = <<Head(calls) \ {f}>> \o Tail(calls)
                 ELSE /\ calls' = CallsFrom(f) \o <<Head(calls) \ {f}>> \o Tail(calls)
                      /\ UNCHANGED leavesForRoot
            BY <1>8, <2>3 DEF FindLeaf
        <3>2. /\ <<Head(calls) \ {f}>> \in Seq(SUBSET Fns) /\ f \in Fns
              /\ <<neighbors[f]>> \in Seq(SUBSET Fns)
            BY <1>0, <2>1
        <3>3. /\ <<Head(calls) \ {f}>> \o Tail(calls) \in Seq(SUBSET Fns)
              /\ <<neighbors[f]>> \o <<Head(calls) \ {f}>> \in Seq(SUBSET Fns)
            BY <2>1, <3>2
        <3>4. <<neighbors[f]>> \o <<Head(calls) \ {f}>> \o Tail(calls) \in Seq(SUBSET Fns)
            BY <2>1, <3>3
        <3>5. calls' \in Seq(SUBSET Fns) /\ leavesForRoot' \subseteq Fns
            BY <3>1, <3>2, <3>3, <3>4 DEF CallsFrom
        <3> QED
            BY <1>0, <1>8, <3>5 DEF FindLeaf
    <2> QED
        BY <2>2, <2>3
<1>9. CASE LeavesFound
    <2>1. LevelPairs(leavesForRoot) \subseteq Pairs(input)
        BY DEF LevelPairs, Pairs, Fns
    <2> QED
        BY <1>0, <1>9, <2>1 DEF LeavesFound
<1>10. CASE CheckPriorities
    <2>1. priorityNodes \subseteq Fns
        <3> SUFFICES ASSUME NEW j \in DOMAIN parsedPriorities, NEW f \in Range(parsedPriorities[j])
                     PROVE  f \in Fns
            BY DEF priorityNodes
        <3>1. parsedPriorities[j] \in Pairs(input)
            OBVIOUS
        <3>2. parsedPriorities[j] \in Fns \X Fns
            BY <3>1 DEF Pairs, Fns
        <3> QED
            BY <3>2 DEF Range
    <2>2. LevelPairs(priorityNodes) \subseteq Pairs(input)
        BY <2>1 DEF LevelPairs, Pairs, Fns
    <2> QED
        BY <1>0, <1>10, <2>2 DEF CheckPriorities
<1>11. CASE Attach /\ ~Fail
    <2>1. neighbors' \in [Fns -> SUBSET Fns] /\ parents' \in [Fns -> SUBSET Fns]
        <3>1. CASE hasPositionals
            <4>1. /\ neighbors' = [f \in Fns |-> neighbors[f] \cup {g \in Fns : <<f, g>> \in Edges}]
                  /\ parents' = [f \in Fns |-> parents[f] \cup {g \in Fns : <<g, f>> \in Edges}]
                BY <1>11, <3>1 DEF Attach
            <4> QED
                BY <1>0, <4>1
        <3>2. CASE ~hasPositionals
            BY <1>0, <1>11, <3>2 DEF Attach
        <3> QED
            BY <3>1, <3>2
    <2> QED
        BY <1>0, <1>11, <2>1 DEF Attach
<1>12. CASE Partition
    <2>1. Len(input.ips) \in Nat /\ Len(input.ips) > 0 /\ DOMAIN input.ips = 1 .. Len(input.ips)
        BY <1>0 DEF IsInput
    <2>2. \A f \in Fns : (Inx(f) % Len(input.ips)) + 1 \in 1 .. Len(input.ips)
        BY <1>0, <2>1, InxFacts DEF Ids
    <2>3. \A f \in Fns : input.ips[(Inx(f) % Len(input.ips)) + 1] \in Range(input.ips)
        BY <2>1, <2>2 DEF Range
    <2>4. func_to_ip' \in [Fns -> Range(input.ips)]
        BY <1>12, <2>3 DEF Partition
    <2> QED
        BY <1>0, <1>12, <2>4 DEF Partition
<1>13. CASE Ports
    <2>1. \A port \in DOMAIN MergerPorts : MergerPorts[port] \in Ids
        <3> DEFINE here == {id \in Ids : IdNeighbors(id) = {}}
        <3>1. MergerPorts = [port \in {8000 + id + 1 : id \in here} |-> port - 8001]
            BY DEF MergerPorts
        <3>2. \A id \in here : (8000 + id + 1) - 8001 = id /\ id \in Ids
            BY DEF Ids
        <3> HIDE DEF here
        <3> QED
            BY <3>1, <3>2
    <2> QED
        BY <1>0, <1>13, <2>1 DEF Ports
<1>14. CASE WriteGraph
    <2> DEFINE merger == Len(input.functions)
               named == {[id |-> id, label |-> Label(FnOf(id)), group |-> func_to_ip[FnOf(id)]] : id \in Ids}
               theirs == {[id |-> merger, label |-> "merger", group |-> None],
                          [id |-> merger + 1, label |-> "server", group |-> None]}
               ids == Ids \cup {merger, merger + 1}
               between == UNION {{id} \X IdNeighbors(id) : id \in Ids}
               out == {id \in Ids : IdNeighbors(id) = {}} \X {merger}
               all == between \cup out \cup {<<merger, merger + 1>>}
    <2>1. ASSUME NEW id \in ids PROVE \E a \in named \cup theirs : a.id = id
        <3>1. CASE id \in Ids
            <4> DEFINE a == [id |-> id, label |-> Label(FnOf(id)), group |-> func_to_ip[FnOf(id)]]
            <4>1. a \in named /\ a.id = id
                BY <3>1
            <4> QED
                BY <4>1
        <3>2. CASE id = merger
            <4> DEFINE a == [id |-> merger, label |-> "merger", group |-> None]
            <4>1. a \in theirs /\ a.id = merger
                OBVIOUS
            <4> QED
                BY <3>2, <4>1
        <3>3. CASE id = merger + 1
            <4> DEFINE a == [id |-> merger + 1, label |-> "server", group |-> None]
            <4>1. a \in theirs /\ a.id = merger + 1
                OBVIOUS
            <4> QED
                BY <3>3, <4>1
        <3> QED
            BY <3>1, <3>2, <3>3
    <2>2. drawn'.nodes = named \cup theirs /\ drawn'.edges = all
        BY <1>14 DEF WriteGraph
    <2>3. ASSUME NEW e \in drawn'.edges PROVE \E x, y \in ids : e = <<x, y>>
        <3>1. ASSUME e \in between PROVE \E x, y \in ids : e = <<x, y>>
            <4>1. PICK id \in Ids : e \in {id} \X IdNeighbors(id)
                BY <3>1
            <4>2. e = <<id, e[2]>> /\ e[2] \in Ids
                BY <1>0, <4>1, NeighborTypes
            <4> QED
                BY <4>2
        <3>2. ASSUME e \in out PROVE \E x, y \in ids : e = <<x, y>>
            <4>1. e = <<e[1], merger>> /\ e[1] \in ids /\ merger \in ids
                BY <3>2
            <4> QED
                BY <4>1
        <3>3. ASSUME e = <<merger, merger + 1>> PROVE \E x, y \in ids : e = <<x, y>>
            <4>1. merger \in ids /\ merger + 1 \in ids
                OBVIOUS
            <4> QED
                BY <3>3, <4>1
        <3> HIDE DEF ids, between, out, merger
        <3> QED
            BY <2>2, <3>1, <3>2, <3>3
    <2>4. ASSUME NEW e \in drawn'.edges PROVE \E a, b \in drawn'.nodes : e = <<a.id, b.id>>
        <3>1. PICK x \in ids, y \in ids : e = <<x, y>>
            BY <2>3
        <3>2. PICK a \in named \cup theirs : a.id = x
            BY <2>1
        <3>3. PICK b \in named \cup theirs : b.id = y
            BY <2>1
        <3> HIDE DEF named, theirs, ids
        <3> QED
            BY <2>2, <3>1, <3>2, <3>3
    <2> QED
        BY <1>0, <1>14, <2>4 DEF WriteGraph
<1>15. CASE ListConflict
    <2>1. PICK p \in pairs : conflicts_list' = Append(conflicts_list, Item(p)) /\ pairs' = pairs \ {p}
        BY <1>15 DEF ListConflict
    <2>2. p[1] \in Fns /\ p[2] \in Fns
        BY DEF Pairs, Fns
    <2>3. Item(p) \in [major : Ids, minor : Ids, parent : Ids \cup {-1}]
        BY <1>0, <2>2, InxFacts, GetParentType DEF Item
    <2> QED
        BY <1>0, <1>15, <2>1, <2>3 DEF ListConflict
<1>16. CASE Finish
    BY <1>0, <1>16 DEF Finish
<1>17. CASE UNCHANGED vars
    BY <1>0, <1>17 DEF vars
<1> QED
    BY <1>1, <1>2, <1>3, <1>4, <1>5, <1>6, <1>7, <1>8, <1>9, <1>10, <1>11, <1>12, <1>13, <1>14,
       <1>15, <1>16, <1>17 DEF Next

-----------------------------------------------------------------------------
(* Parsing                                                                 *)

LEMMA PrefixStep ==
    ASSUME NEW s, NEW n \in Nat, n > 0
    PROVE  {s[j] : j \in 1 .. n} = {s[j] : j \in 1 .. n - 1} \cup {s[n]}
<1>1. 1 .. n = 1 .. n - 1 \cup {n}
    OBVIOUS
<1> QED
    BY <1>1

LEMMA PrefixAll ==
    ASSUME NEW S, NEW s \in Seq(S), NEW n \in 1 .. Len(s) + 1, n > Len(s)
    PROVE  {s[j] : j \in 1 .. n - 1} = Range(s)
<1>1. n - 1 = Len(s) /\ DOMAIN s = 1 .. Len(s)
    OBVIOUS
<1> QED
    BY <1>1 DEF Range

LEMMA ParseStep == Inv /\ [Next]_vars => ParseInv'
<1> SUFFICES ASSUME Inv, [Next]_vars PROVE ParseInv'
    OBVIOUS
<1>0. /\ input' = input /\ IsInput(input) /\ TypeOK /\ ParseInv
      /\ input.orderDependencies \in Seq(Pairs(input)) /\ input.priorities \in Seq(Pairs(input))
    BY SameInput DEF Inv, TypeOK, IsInput
<1>1. CASE Fail
    BY <1>1 DEF Fail, ParseInv, Parsing
<1>2. CASE ParseOrder /\ ~Fail
    <2> DEFINE d == input.orderDependencies[k]
    <2>1. /\ pc = "order" /\ pc' = "order" /\ k \in 1 .. Len(input.orderDependencies) /\ k' = k + 1
        BY <1>0, <1>2 DEF ParseOrder, ParseInv
    <2>2. d \in Pairs(input) /\ d = <<d[1], d[2]>>
        <3>1. d \in Pairs(input)
            BY <1>0, <2>1
        <3> QED
            BY <3>1 DEF Pairs
    <2>3. IF Parallel(d[1], d[2])
          THEN parsedPriorities' = Append(parsedPriorities, d) /\ parsedOrder' = parsedOrder
          ELSE parsedPriorities' = parsedPriorities /\ parsedOrder' = Append(parsedOrder, d)
        BY <1>2, <2>1, <2>2 DEF ParseOrder, parsed
    <2>4. Deps(k) = Deps(k - 1) \cup {d}
        BY <2>1, PrefixStep DEF Deps
    <2>5. /\ Range(parsedOrder) = {p \in Deps(k - 1) : ~Parallel(p[1], p[2])}
          /\ Range(parsedPriorities) = {p \in Deps(k - 1) : Parallel(p[1], p[2])}
        BY <1>0, <2>1 DEF ParseInv
    <2>6. /\ Range(Append(parsedOrder, d)) = Range(parsedOrder) \cup {d}
          /\ Range(Append(parsedPriorities, d)) = Range(parsedPriorities) \cup {d}
        BY <1>0, <2>2, AppendFacts DEF TypeOK
    <2> HIDE DEF d
    <2>7. /\ Range(parsedOrder') = {p \in Deps(k) : ~Parallel(p[1], p[2])}
          /\ Range(parsedPriorities') = {p \in Deps(k) : Parallel(p[1], p[2])}
        BY <2>3, <2>4, <2>5, <2>6
    <2>8. k' - 1 = k /\ k' \in 1 .. Len(input.orderDependencies) + 1
        BY <1>0, <2>1
    <2>9. Deps(k - 1)' = Deps(k)
        BY <1>0, <2>8 DEF Deps
    <2> QED
        BY <1>0, <2>1, <2>7, <2>8, <2>9 DEF ParseInv, Parsing
<1>3. CASE ParsePriority /\ ~Fail
    <2> DEFINE d == input.priorities[k]
               there(n) == Range(input.orderDependencies) \cup Prios(n)
    <2>1. /\ pc = "priority" /\ pc' = "priority" /\ k \in 1 .. Len(input.priorities) /\ k' = k + 1
          /\ parsedOrder' = parsedOrder
        BY <1>0, <1>3 DEF ParsePriority, ParseInv, parsed
    <2>2. d \in Pairs(input) /\ d = <<d[1], d[2]>>
        <3>1. d \in Pairs(input)
            BY <1>0, <2>1
        <3> QED
            BY <3>1 DEF Pairs
    <2>3. parsedPriorities' = IF Parallel(d[1], d[2]) THEN Append(parsedPriorities, d)
                              ELSE parsedPriorities
        BY <1>3, <2>1, <2>2 DEF ParsePriority, parsed
    <2>4. there(k) = there(k - 1) \cup {d}
        BY <2>1, PrefixStep DEF Prios
    <2>5. /\ Range(parsedOrder) = Ordered(input)
          /\ Range(parsedPriorities) = {p \in there(k - 1) : Parallel(p[1], p[2])}
        BY <1>0, <2>1 DEF ParseInv
    <2>6. Range(Append(parsedPriorities, d)) = Range(parsedPriorities) \cup {d}
        BY <1>0, <2>2, AppendFacts DEF TypeOK
    <2>7. Range(parsedPriorities') = {p \in there(k) : Parallel(p[1], p[2])}
        <3> HIDE DEF d, there
        <3> QED
            BY <2>3, <2>4, <2>5, <2>6
    <2>8. k' - 1 = k /\ k' \in 1 .. Len(input.priorities) + 1
        BY <1>0, <2>1
    <2>9. Prios(k - 1)' = Prios(k)
        BY <1>0, <2>8 DEF Prios
    <2> QED
        BY <1>0, <2>1, <2>5, <2>7, <2>8, <2>9 DEF ParseInv, Parsing
<1>4. CASE NextPart
    <2>1. k' = 1 /\ parsedOrder' = parsedOrder /\ parsedPriorities' = parsedPriorities
        BY <1>4 DEF NextPart, parsed
    <2>2. CASE pc = "order" /\ k > Len(input.orderDependencies) /\ pc' = "priority"
        <3>1. Deps(k - 1) = Range(input.orderDependencies)
            BY <1>0, <2>2, PrefixAll DEF ParseInv, Deps
        <3>2. /\ Range(parsedOrder) = Ordered(input)
              /\ Range(parsedPriorities) =
                    {p \in Range(input.orderDependencies) : Parallel(p[1], p[2])}
            BY <1>0, <2>2, <3>1 DEF ParseInv, Ordered
        <3>3. Prios(k - 1)' = {}
            BY <2>1 DEF Prios
        <3>4. Len(input.priorities) \in Nat
            BY <1>0
        <3> QED
            BY <1>0, <2>1, <2>2, <3>2, <3>3, <3>4 DEF ParseInv, Parsing
    <2>3. CASE pc = "priority" /\ k > Len(input.priorities) /\ pc' = "forest"
        <3>1. Prios(k - 1) = Range(input.priorities)
            BY <1>0, <2>3, PrefixAll DEF ParseInv, Prios
        <3>2. /\ Range(parsedOrder) = Ordered(input)
              /\ Range(parsedPriorities) = FloatingPairs(input)
            BY <1>0, <2>3, <3>1 DEF ParseInv, FloatingPairs
        <3> QED
            BY <1>0, <2>1, <2>3, <3>2 DEF ParseInv, Parsing
    <2> QED
        BY <1>4, <2>2, <2>3 DEF NextPart
<1>5. CASE UNCHANGED <<input, parsed>> /\ pc \notin Parsing \cup {"failed"} /\ pc' \notin Parsing
    BY <1>0, <1>5 DEF ParseInv, Parsing, parsed
<1>6. CASE UNCHANGED vars
    BY <1>0, <1>6 DEF ParseInv, Parsing, vars, parsed, Deps, Prios
<1>7. CASE Forest \/ FindRoots \/ SearchRoot \/ FindLeaf \/ LeavesFound \/ CheckPriorities
    BY <1>5, <1>7 DEF Forest, FindRoots, SearchRoot, FindLeaf, LeavesFound, CheckPriorities, Parsing
<1>8. CASE (Attach /\ ~Fail) \/ Partition \/ Ports \/ WriteGraph \/ ListConflict \/ Finish
    BY <1>5, <1>8 DEF Attach, Partition, Ports, WriteGraph, ListConflict, Finish, Parsing
<1> QED
    BY <1>1, <1>2, <1>3, <1>4, <1>6, <1>7, <1>8 DEF Next

-----------------------------------------------------------------------------
(* The graph                                                               *)

\* What the parsed lists stand for once they are complete.
LEMMA ParsedNodes ==
    ASSUME IsInput(input), Range(parsedOrder) = Ordered(input),
           Range(parsedPriorities) = FloatingPairs(input)
    PROVE  orderTreeNodes = Tree(input) /\ priorityNodes = Floating(input)
<1>1. /\ orderTreeNodes = UNION {Range(p) : p \in Range(parsedOrder)}
      /\ priorityNodes = UNION {Range(p) : p \in Range(parsedPriorities)}
    BY DEF orderTreeNodes, priorityNodes, Range
<1> QED
    BY <1>1, FloatingFacts DEF Tree

LEMMA ParsedRoots ==
    ASSUME IsInput(input), IsGraph(Ordered(input)), parents \in [Fns -> SUBSET Fns]
    PROVE  {f \in Tree(input) : parents[f] = {}} = Roots(input)
<1>1. ASSUME NEW f \in Tree(input)
      PROVE  parents[f] = {} <=> \A p \in Ordered(input) : p[2] # f
    <2>1. f \in Fns
        BY TreeFacts DEF Fns
    <2>2. \A g \in Fns : g \in parents[f] <=> <<g, f>> \in Ordered(input)
        BY <2>1 DEF IsGraph
    <2>3. ASSUME NEW p \in Ordered(input), p[2] = f PROVE p[1] \in parents[f]
        BY <2>2, <2>3, OrderedType DEF Fns
    <2>4. ASSUME NEW g \in parents[f] PROVE \E p \in Ordered(input) : p[2] = f
        <3> DEFINE q == <<g, f>>
        <3>1. q \in Ordered(input) /\ q[2] = f
            BY <2>1, <2>2
        <3> QED
            BY <3>1
    <2> QED
        BY <2>3, <2>4
<1> QED
    BY <1>1 DEF Roots

LEMMA SameFinalEdges ==
    ASSUME input' = input, leafNodes' = leafNodes
    PROVE  FinalEdges' = FinalEdges
<1>1. \A position : At(position)' = At(position)
    BY DEF At
<1>2. hasPositionals' = hasPositionals
    BY DEF hasPositionals
<1> QED
    BY <1>1, <1>2 DEF FinalEdges, Attachments

\* The edge that addEdge adds, in both directions.
LEMMA EdgeAdded ==
    ASSUME NEW edges, IsGraph(edges),
           neighbors \in [Fns -> SUBSET Fns], parents \in [Fns -> SUBSET Fns],
           NEW a \in Fns, NEW b \in Fns, AddEdge(a, b)
    PROVE  \A f, g \in Fns : /\ g \in neighbors'[f] <=> <<f, g>> \in edges \cup {<<a, b>>}
                             /\ f \in parents'[g] <=> <<f, g>> \in edges \cup {<<a, b>>}
<1>1. /\ \A f \in Fns : neighbors'[f] = IF f = a THEN neighbors[f] \cup {b} ELSE neighbors[f]
      /\ \A f \in Fns : parents'[f] = IF f = b THEN parents[f] \cup {a} ELSE parents[f]
    BY DEF AddEdge
<1> SUFFICES ASSUME NEW f \in Fns, NEW g \in Fns
             PROVE  /\ g \in neighbors'[f] <=> <<f, g>> \in edges \cup {<<a, b>>}
                    /\ f \in parents'[g] <=> <<f, g>> \in edges \cup {<<a, b>>}
    OBVIOUS
<1>2. /\ g \in neighbors[f] <=> <<f, g>> \in edges
      /\ f \in parents[g] <=> <<f, g>> \in edges
    BY DEF IsGraph
<1>3. <<f, g>> = <<a, b>> <=> f = a /\ g = b
    OBVIOUS
<1> QED
    BY <1>1, <1>2, <1>3

LEMMA GraphStep == Inv /\ [Next]_vars => GraphInv'
<1> SUFFICES ASSUME Inv, [Next]_vars PROVE GraphInv'
    OBVIOUS
<1>0. /\ input' = input /\ Fns' = Fns /\ Ordered(input)' = Ordered(input)
      /\ IsInput(input) /\ TypeOK /\ ParseInv /\ GraphInv
      /\ neighbors \in [Fns -> SUBSET Fns] /\ parents \in [Fns -> SUBSET Fns]
      /\ neighbors' \in [Fns -> SUBSET Fns] /\ parents' \in [Fns -> SUBSET Fns]
    BY SameInput, TypeStep DEF Inv, TypeOK, Ordered
<1>1. ASSUME UNCHANGED graph, IsGraph({}) PROVE IsGraph({})'
    BY <1>0, <1>1 DEF IsGraph, graph
<1>2. CASE Fail
    BY <1>0, <1>2 DEF Fail, GraphInv, Parsing, Searching, Attached
<1>3. CASE (ParseOrder /\ ~Fail) \/ (ParsePriority /\ ~Fail)
    <2>1. pc \in Parsing /\ pc' = pc /\ UNCHANGED graph
        BY <1>3 DEF ParseOrder, ParsePriority, Parsing
    <2>2. IsGraph({})
        BY <1>0, <2>1 DEF GraphInv
    <2>3. IsGraph({})'
        BY <1>1, <2>1, <2>2
    <2> QED
        BY <1>0, <2>1, <2>3 DEF GraphInv, Parsing, Searching, Attached
<1>4. CASE NextPart
    <2>1. pc \in Parsing /\ UNCHANGED graph /\ k' = 1 /\ pc' \in {"priority", "forest"}
          /\ parsedOrder' = parsedOrder
        BY <1>4 DEF NextPart, Parsing, parsed
    <2>2. IsGraph({})'
        BY <1>0, <1>1, <2>1 DEF GraphInv
    <2>3. IsGraph({parsedOrder[j] : j \in 1 .. k - 1})'
        <3>1. {parsedOrder[j] : j \in 1 .. k - 1}' = {}
            BY <2>1
        <3> QED
            BY <2>2, <3>1 DEF IsGraph
    <2>4. Len(parsedOrder) \in Nat
        BY <1>0 DEF TypeOK
    <2> QED
        BY <1>0, <2>1, <2>2, <2>3, <2>4 DEF GraphInv, Parsing, Searching, Attached
<1>5. CASE Forest
    <2> DEFINE d == parsedOrder[k]
               had == {parsedOrder[j] : j \in 1 .. k - 1}
    <2>1. /\ pc = "forest" /\ pc' = "forest" /\ k \in 1 .. Len(parsedOrder) /\ k' = k + 1
          /\ parsedOrder' = parsedOrder /\ AddEdge(d[1], d[2])
        BY <1>0, <1>5 DEF Forest, GraphInv, parsed
    <2>2. d = <<d[1], d[2]>> /\ d[1] \in Fns /\ d[2] \in Fns
        <3>1. d \in Pairs(input)
            BY <1>0, <2>1 DEF TypeOK
        <3> QED
            BY <3>1 DEF Pairs, Fns
    <2>3. IsGraph(had)
        BY <1>0, <2>1 DEF GraphInv
    <2>4. \A f, g \in Fns : /\ g \in neighbors'[f] <=> <<f, g>> \in had \cup {d}
                            /\ f \in parents'[g] <=> <<f, g>> \in had \cup {d}
        <3> DEFINE a == d[1]
                   b == d[2]
        <3> HIDE DEF had, a, b
        <3>1. a \in Fns /\ b \in Fns /\ AddEdge(a, b)
            BY <2>1, <2>2 DEF a, b
        <3>2. d = <<a, b>>
            BY <2>2 DEF a, b
        <3> HIDE DEF d
        <3> QED
            BY <1>0, <2>3, <3>1, <3>2, EdgeAdded
    <2>5. had' = had \cup {d}
        <3>1. k' - 1 = k
            BY <2>1
        <3>2. {parsedOrder[j] : j \in 1 .. k} = had \cup {d}
            BY <2>1, PrefixStep
        <3> QED
            BY <2>1, <3>1, <3>2
    <2>6. IsGraph({parsedOrder[j] : j \in 1 .. k - 1})'
        BY <1>0, <2>4, <2>5 DEF IsGraph
    <2>7. k' \in 1 .. Len(parsedOrder') + 1
        BY <1>0, <2>1 DEF TypeOK
    <2> QED
        BY <1>0, <2>1, <2>6, <2>7 DEF GraphInv, Parsing, Searching, Attached
<1>6. CASE FindRoots
    <2>1. pc = "forest" /\ pc' = "roots" /\ k > Len(parsedOrder) /\ UNCHANGED graph
        BY <1>6 DEF FindRoots
    <2>2. Range(parsedOrder) = Ordered(input)
        BY <1>0, <2>1 DEF ParseInv, Parsing
    <2>3. {parsedOrder[j] : j \in 1 .. k - 1} = Range(parsedOrder)
        BY <1>0, <2>1, PrefixAll DEF GraphInv, TypeOK
    <2>4. IsGraph(Ordered(input))
        BY <1>0, <2>1, <2>2, <2>3 DEF GraphInv
    <2>5. IsGraph(Ordered(input))'
        BY <1>0, <2>1, <2>4 DEF IsGraph, graph
    <2> QED
        BY <1>0, <2>1, <2>5 DEF GraphInv, Parsing, Searching, Attached
<1>7. CASE SearchRoot \/ FindLeaf \/ LeavesFound \/ CheckPriorities
    <2>1. pc \in Searching /\ pc' \in Searching /\ UNCHANGED graph
        BY <1>7 DEF SearchRoot, FindLeaf, LeavesFound, CheckPriorities, Searching
    <2>2. IsGraph(Ordered(input))'
        BY <1>0, <2>1 DEF GraphInv, IsGraph, graph
    <2> QED
        BY <1>0, <2>1, <2>2 DEF GraphInv, Parsing, Searching, Attached
<1>8. CASE Attach /\ ~Fail
    <2>1. pc = "attach" /\ pc' = "partition" /\ leafNodes' = leafNodes
        BY <1>8 DEF Attach, search
    <2>2. IsGraph(Ordered(input))
        BY <1>0, <2>1 DEF GraphInv, Searching
    <2>3. FromFirst = Roots(input) \cup Floating(input) /\ priorityNodes = Floating(input)
        <3>1. Range(parsedOrder) = Ordered(input) /\ Range(parsedPriorities) = FloatingPairs(input)
            BY <1>0, <2>1 DEF ParseInv, Parsing
        <3> QED
            BY <1>0, <2>2, <3>1, ParsedNodes, ParsedRoots DEF FromFirst, treeRoots
    <2>4. Edges = Attachments
        BY <2>3 DEF Edges, ToLast, Attachments
    <2>5. CASE hasPositionals
        <3>1. /\ neighbors' = [f \in Fns |-> neighbors[f] \cup {g \in Fns : <<f, g>> \in Edges}]
              /\ parents' = [f \in Fns |-> parents[f] \cup {g \in Fns : <<g, f>> \in Edges}]
            BY <1>8, <2>5 DEF Attach
        <3>2. FinalEdges = Ordered(input) \cup Edges
            BY <2>4, <2>5 DEF FinalEdges
        <3>3. ASSUME NEW f \in Fns, NEW g \in Fns
              PROVE  /\ g \in neighbors'[f] <=> <<f, g>> \in FinalEdges
                     /\ f \in parents'[g] <=> <<f, g>> \in FinalEdges
            <4>1. /\ g \in neighbors[f] <=> <<f, g>> \in Ordered(input)
                  /\ f \in parents[g] <=> <<f, g>> \in Ordered(input)
                BY <2>2 DEF IsGraph
            <4>2. /\ g \in neighbors'[f] <=> g \in neighbors[f] \/ <<f, g>> \in Edges
                  /\ f \in parents'[g] <=> f \in parents[g] \/ <<f, g>> \in Edges
                BY <3>1
            <4> QED
                BY <3>2, <4>1, <4>2
        <3>4. FinalEdges' = FinalEdges
            BY <1>0, <2>1, SameFinalEdges
        <3>5. IsGraph(FinalEdges)'
            BY <1>0, <3>3, <3>4 DEF IsGraph
        <3> QED
            BY <1>0, <2>1, <3>5 DEF GraphInv, Parsing, Searching, Attached
    <2>6. CASE ~hasPositionals
        <3>1. UNCHANGED graph /\ FinalEdges = Ordered(input)
            BY <1>8, <2>6 DEF Attach, FinalEdges
        <3>2. FinalEdges' = FinalEdges
            BY <1>0, <2>1, SameFinalEdges
        <3>3. IsGraph(FinalEdges)'
            BY <1>0, <2>2, <3>1, <3>2 DEF IsGraph, graph
        <3> QED
            BY <1>0, <2>1, <3>3 DEF GraphInv, Parsing, Searching, Attached
    <2> QED
        BY <2>5, <2>6
<1>9. CASE Partition \/ Ports \/ WriteGraph \/ ListConflict \/ Finish
    <2>1. pc \in Attached /\ pc' \in Attached /\ UNCHANGED graph /\ leafNodes' = leafNodes
        BY <1>9 DEF Partition, Ports, WriteGraph, ListConflict, Finish, Attached, search
    <2>2. FinalEdges' = FinalEdges
        BY <1>0, <2>1, SameFinalEdges
    <2>3. IsGraph(FinalEdges)'
        BY <1>0, <2>1, <2>2 DEF GraphInv, IsGraph, graph
    <2> QED
        BY <1>0, <2>1, <2>3 DEF GraphInv, Parsing, Searching, Attached
<1>10. CASE UNCHANGED vars
    <2>1. UNCHANGED <<pc, k, parsedOrder, graph, leafNodes>>
        BY <1>10 DEF vars, parsed, search
    <2>2. FinalEdges' = FinalEdges
        BY <1>0, <2>1, SameFinalEdges
    <2>3. {parsedOrder[j] : j \in 1 .. k - 1}' = {parsedOrder[j] : j \in 1 .. k - 1}
        BY <2>1
    <2> QED
        BY <1>0, <2>1, <2>2, <2>3 DEF GraphInv, IsGraph, graph
<1> QED
    BY <1>2, <1>3, <1>4, <1>5, <1>6, <1>7, <1>8, <1>9, <1>10 DEF Next

-----------------------------------------------------------------------------
(* The search for leaves                                                   *)

LEMMA SameTrees ==
    ASSUME input' = input
    PROVE  /\ Ordered(input)' = Ordered(input)
           /\ Roots(input)' = Roots(input) /\ LeavesOf(input)' = LeavesOf(input)
           /\ Tree(input)' = Tree(input) /\ Floating(input)' = Floating(input)
           /\ \A f : Above(input, f)' = Above(input, f)
BY DEF Ordered, Roots, LeavesOf, Tree, Floating, Above

LEMMA StackFacts ==
    ASSUME NEW S, NEW s \in Seq(S), NEW e \in S
    PROVE  /\ <<e>> \o s \in Seq(S) /\ Range(<<e>> \o s) = {e} \cup Range(s)
           /\ s # <<>> => Head(s) \in S /\ Tail(s) \in Seq(S) /\ Range(s) = {Head(s)} \cup Range(Tail(s))
<1>1. ASSUME NEW x \in S, NEW t \in Seq(S) PROVE Range(<<x>> \o t) = {x} \cup Range(t)
    <2> DEFINE u == <<x>> \o t
    <2>1. /\ u \in Seq(S) /\ DOMAIN u = 1 .. Len(t) + 1 /\ Len(t) \in Nat /\ DOMAIN t = 1 .. Len(t)
          /\ u[1] = x /\ \A j \in 1 .. Len(t) : u[j + 1] = t[j]
        OBVIOUS
    <2>2. \A j \in 1 .. Len(t) + 1 : j # 1 => j - 1 \in 1 .. Len(t) /\ (j - 1) + 1 = j
        BY <2>1
    <2>3. \A j \in 1 .. Len(t) : j + 1 \in 1 .. Len(t) + 1
        BY <2>1
    <2>4. 1 \in 1 .. Len(t) + 1
        BY <2>1
    <2> HIDE DEF u
    <2>5. Range(u) \subseteq {x} \cup Range(t)
        <3> SUFFICES ASSUME NEW j \in 1 .. Len(t) + 1 PROVE u[j] \in {x} \cup Range(t)
            BY <2>1 DEF Range
        <3>1. CASE j = 1
            BY <2>1, <3>1
        <3>2. CASE j # 1
            <4>1. u[j] = t[j - 1] /\ j - 1 \in DOMAIN t
                BY <2>1, <2>2, <3>2
            <4> QED
                BY <4>1 DEF Range
        <3> QED
            BY <3>1, <3>2
    <2>6. x \in Range(u)
        BY <2>1, <2>4 DEF Range
    <2>7. Range(t) \subseteq Range(u)
        BY <2>1, <2>3 DEF Range
    <2> QED
        BY <2>5, <2>6, <2>7 DEF u
<1>2. <<e>> \o s \in Seq(S)
    OBVIOUS
<1>3. ASSUME s # <<>>
      PROVE  Head(s) \in S /\ Tail(s) \in Seq(S) /\ Range(s) = {Head(s)} \cup Range(Tail(s))
    <2>1. Head(s) \in S /\ Tail(s) \in Seq(S) /\ s = <<Head(s)>> \o Tail(s)
        BY <1>3
    <2>2. Range(<<Head(s)>> \o Tail(s)) = {Head(s)} \cup Range(Tail(s))
        BY <1>1, <2>1
    <2> QED
        BY <2>1, <2>2
<1> QED
    BY <1>1, <1>2, <1>3

LEMMA SearchStep == Inv /\ [Next]_vars => SearchInv'
<1> SUFFICES ASSUME Inv, [Next]_vars PROVE SearchInv'
    OBVIOUS
<1> DEFINE Left == UNION Range(calls)
<1>0. /\ input' = input /\ Fns' = Fns /\ IsInput(input) /\ TypeOK /\ SearchInv
      /\ neighbors \in [Fns -> SUBSET Fns] /\ parents \in [Fns -> SUBSET Fns]
      /\ calls \in Seq(SUBSET Fns)
    BY SameInput DEF Inv, TypeOK
<1>1. /\ Roots(input)' = Roots(input) /\ LeavesOf(input)' = LeavesOf(input)
      /\ Tree(input)' = Tree(input) /\ \A f : Above(input, f)' = Above(input, f)
    BY <1>0, SameTrees
<1>2. /\ LeavesOf(input) \subseteq Tree(input) /\ Roots(input) \subseteq Tree(input)
      /\ Tree(input) \subseteq Fns
    BY <1>0, TreeFacts DEF LeavesOf, Roots, Fns
<1>3. CASE pc' \notin Searching \cup Attached /\ leafNodes' = leafNodes
    BY <1>0, <1>1, <1>3 DEF SearchInv, Searching, Attached
<1>4. CASE FindRoots
    <2>1. pc = "forest" /\ pc' = "roots" /\ leafNodes' = leafNodes
          /\ rootNodes' = {f \in orderTreeNodes : parents[f] = {}}
        BY <1>4 DEF FindRoots
    <2>2. /\ Range(parsedOrder) = Ordered(input) /\ Range(parsedPriorities) = FloatingPairs(input)
          /\ k > Len(parsedOrder) /\ k \in 1 .. Len(parsedOrder) + 1
          /\ IsGraph({parsedOrder[j] : j \in 1 .. k - 1})
        BY <1>4, <2>1 DEF FindRoots, Inv, ParseInv, GraphInv, Parsing
    <2>3. {parsedOrder[j] : j \in 1 .. k - 1} = Range(parsedOrder)
        BY <1>0, <2>2, PrefixAll DEF TypeOK
    <2>4. rootNodes' = Roots(input)
        BY <1>0, <2>1, <2>2, <2>3, ParsedNodes, ParsedRoots
    <2> QED
        BY <1>0, <1>1, <2>1, <2>4 DEF SearchInv, Found, Searching, Attached
<1>5. CASE SearchRoot
    <2>1. PICK r \in rootNodes : rootNodes' = rootNodes \ {r} /\ calls' = <<{r}>>
        BY <1>5 DEF SearchRoot
    <2>2. /\ pc = "roots" /\ pc' = "leaves" /\ leavesForRoot' = {} /\ leafNodes' = leafNodes
          /\ rootNodes \subseteq Roots(input)
        BY <1>0, <1>5 DEF SearchRoot, SearchInv, Searching
    <2>3. UNION Range(calls') = {r}
        <3>1. Range(calls') = {{r}}
            BY <2>1 DEF Range
        <3> QED
            BY <3>1
    <2>4. r \in Fns /\ r \in Tree(input) /\ r \in Above(input, r)
        BY <1>0, <1>2, <2>2, AboveClosed DEF Fns
    <2>5. ASSUME NEW f \in LeavesOf(input), Roots(input) \cap Above(input, f) # {}
          PROVE  \/ f \in leafNodes
                 \/ rootNodes' \cap Above(input, f) # {}
                 \/ (UNION Range(calls')) \cap Above(input, f) # {}
        <3>1. f \in leafNodes \/ rootNodes \cap Above(input, f) # {}
            BY <1>0, <2>2, <2>5 DEF SearchInv, Found, Searching
        <3> QED
            BY <2>1, <2>3, <3>1
    <2>6. \A f \in LeavesOf(input)' : (Roots(input) \cap Above(input, f) # {})' => Found(f)'
        BY <1>1, <2>2, <2>5 DEF Found
    <2>7. rootNodes' \subseteq Roots(input)' /\ leafNodes' \subseteq LeavesOf(input)'
        BY <1>0, <1>1, <2>1, <2>2 DEF SearchInv
    <2>8. \E x \in Fns' : /\ \A f \in UNION Range(calls') : f \in Tree(input)' /\ x \in Above(input, f)'
                          /\ \A f \in leavesForRoot' : f \in LeavesOf(input)' /\ x \in Above(input, f)'
        BY <1>0, <1>1, <2>2, <2>3, <2>4
    <2> QED
        BY <2>2, <2>6, <2>7, <2>8 DEF SearchInv
<1>6. CASE FindLeaf
    <2>1. /\ pc = "leaves" /\ pc' = "leaves" /\ calls # <<>> /\ UNCHANGED <<rootNodes, leafNodes>>
          /\ Head(calls) \in SUBSET Fns /\ Tail(calls) \in Seq(SUBSET Fns)
          /\ Range(calls) = {Head(calls)} \cup Range(Tail(calls))
        BY <1>0, <1>6, StackFacts DEF FindLeaf
    <2>2. PICK r \in Fns : /\ \A f \in Left : f \in Tree(input) /\ r \in Above(input, f)
                           /\ \A f \in leavesForRoot : f \in LeavesOf(input) /\ r \in Above(input, f)
        BY <1>0, <2>1 DEF SearchInv
    <2>3. /\ \A f \in LeavesOf(input) : Roots(input) \cap Above(input, f) # {} => Found(f)
          /\ rootNodes \subseteq Roots(input) /\ leafNodes \subseteq LeavesOf(input)
        BY <1>0, <2>1 DEF SearchInv, Searching
    <2> DEFINE Now == UNION Range(calls')
    \* What is found, and what is left to visit, is below r ...
    <2>4. SUFFICES
             /\ \A f \in Now : f \in Tree(input) /\ r \in Above(input, f)
             /\ \A f \in leavesForRoot' : f \in LeavesOf(input) /\ r \in Above(input, f)
             \* ... and nothing is lost.
             /\ \A f \in leavesForRoot : f \in leavesForRoot'
             /\ \A f \in LeavesOf(input) :
                   Left \cap Above(input, f) # {} => f \in leavesForRoot' \/ Now \cap Above(input, f) # {}
        <3>1. \A f \in LeavesOf(input) : Roots(input) \cap Above(input, f) # {} =>
                 \/ f \in leafNodes'
                 \/ rootNodes' \cap Above(input, f) # {}
                 \/ f \in leavesForRoot' \/ Now \cap Above(input, f) # {}
            BY <2>1, <2>3, <2>4 DEF Found
        <3> QED
            BY <1>0, <1>1, <2>1, <2>3, <2>4, <3>1 DEF SearchInv, Found, Searching, Attached
    <2>5. CASE Head(calls) = {}
        <3>1. calls' = Tail(calls) /\ leavesForRoot' = leavesForRoot
            BY <1>6, <2>5 DEF FindLeaf
        <3>2. Now = Left
            BY <2>1, <2>5, <3>1
        <3> QED
            BY <2>2, <3>1, <3>2
    <2>6. CASE Head(calls) # {}
        <3>1. PICK f \in Head(calls) :
                 IF neighbors[f] = {}
                 THEN /\ leavesForRoot' = leavesForRoot \cup {f}
                      /\ calls' = <<Head(calls) \ {f}>> \o Tail(calls)
                 ELSE /\ calls' = CallsFrom(f) \o <<Head(calls) \ {f}>> \o Tail(calls)
                      /\ UNCHANGED leavesForRoot
            BY <1>6, <2>6 DEF FindLeaf
        <3> DEFINE rest == <<Head(calls) \ {f}>> \o Tail(calls)
        <3>2. f \in Fns /\ f \in Left /\ f \in Tree(input) /\ r \in Above(input, f)
            BY <2>1, <2>2, <3>1
        <3>3. rest \in Seq(SUBSET Fns) /\ UNION Range(rest) \subseteq Left
              /\ Left \subseteq {f} \cup UNION Range(rest)
            <4>1. Head(calls) \ {f} \in SUBSET Fns
                BY <2>1
            <4>2. rest \in Seq(SUBSET Fns) /\ Range(rest) = {Head(calls) \ {f}} \cup Range(Tail(calls))
                <5> DEFINE e == Head(calls) \ {f}
                           t == Tail(calls)
                <5>1. e \in SUBSET Fns /\ t \in Seq(SUBSET Fns)
                    BY <2>1, <4>1
                <5>2. <<e>> \o t \in Seq(SUBSET Fns) /\ Range(<<e>> \o t) = {e} \cup Range(t)
                    <6> HIDE DEF e, t
                    <6> QED
                        BY <5>1, StackFacts
                <5> QED
                    BY <5>2
            <4>3. UNION Range(rest) = (Head(calls) \ {f}) \cup UNION Range(Tail(calls))
                <5> HIDE DEF rest
                <5> QED
                    BY <4>2
            <4>4. Left = Head(calls) \cup UNION Range(Tail(calls))
                BY <2>1
            <4> QED
                BY <4>2, <4>3, <4>4
        <3>4. \A h \in Fns : h \in neighbors[f] <=> <<f, h>> \in Ordered(input)
            BY <2>1, <3>2 DEF Inv, GraphInv, IsGraph, Searching
        <3>5. CASE neighbors[f] = {}
            <4>1. leavesForRoot' = leavesForRoot \cup {f} /\ Now = UNION Range(rest)
                BY <3>1, <3>5
            <4>2. \A p \in Ordered(input) : p[1] # f
                <5> SUFFICES ASSUME NEW p \in Ordered(input), p[1] = f PROVE FALSE
                    OBVIOUS
                <5>1. p = <<f, p[2]>> /\ p[2] \in Fns
                    BY <1>0, OrderedType DEF Fns
                <5> QED
                    BY <3>4, <3>5, <5>1
            <4>3. f \in LeavesOf(input)
                BY <3>2, <4>2 DEF LeavesOf
            <4>4. ASSUME NEW l \in LeavesOf(input), Left \cap Above(input, l) # {}
                  PROVE  l \in leavesForRoot' \/ Now \cap Above(input, l) # {}
                <5>1. CASE f \in Above(input, l)
                    <6>1. f = l
                        BY <1>0, <1>2, <4>2, <5>1, AboveSuccessor DEF Fns
                    <6> QED
                        BY <4>1, <6>1
                <5>2. CASE f \notin Above(input, l)
                    <6>1. PICK g \in Left : g \in Above(input, l)
                        BY <4>4
                    <6>2. g \in UNION Range(rest)
                        <7> HIDE DEF Left, rest
                        <7> QED
                            BY <3>3, <5>2, <6>1
                    <6> QED
                        BY <4>1, <6>1, <6>2
                <5> QED
                    BY <5>1, <5>2
            <4> HIDE DEF Left, Now, rest
            <4> QED
                BY <2>2, <3>2, <3>3, <4>1, <4>3, <4>4
        <3>6. CASE neighbors[f] # {}
            <4>1. leavesForRoot' = leavesForRoot /\ Now = neighbors[f] \cup UNION Range(rest)
                <5>1. calls' = <<neighbors[f]>> \o <<Head(calls) \ {f}>> \o Tail(calls)
                      /\ leavesForRoot' = leavesForRoot
                    BY <3>1, <3>6 DEF CallsFrom
                <5>2. calls' = <<neighbors[f]>> \o rest
                    <6>1. /\ <<neighbors[f]>> \in Seq(SUBSET Fns) /\ <<Head(calls) \ {f}>> \in Seq(SUBSET Fns)
                        BY <1>0, <2>1, <3>2
                    <6> QED
                        BY <2>1, <5>1, <6>1
                <5>3. neighbors[f] \in SUBSET Fns
                    BY <1>0, <3>2
                <5>4. Range(<<neighbors[f]>> \o rest) = {neighbors[f]} \cup Range(rest)
                    <6> HIDE DEF rest
                    <6> QED
                        BY <3>3, <5>3, StackFacts
                <5> QED
                    BY <5>1, <5>2, <5>4
            <4>2. ASSUME NEW h \in neighbors[f] PROVE h \in Tree(input) /\ r \in Above(input, h)
                <5> DEFINE p == <<f, h>>
                <5>1. h \in Fns /\ p \in Ordered(input) /\ p[1] = f /\ p[2] = h
                    BY <1>0, <3>2, <3>4
                <5> HIDE DEF p
                <5>2. h \in Tree(input)
                    BY <1>0, <5>1, TreeFacts
                <5>3. f \in Above(input, h)
                    BY <1>0, <5>1, AboveClosed DEF Fns
                <5>4. Above(input, f) \subseteq Above(input, h)
                    BY <1>0, <5>1, <5>3, AboveTransitive DEF Fns
                <5> QED
                    BY <3>2, <5>2, <5>4
            <4>3. ASSUME NEW l \in LeavesOf(input), Left \cap Above(input, l) # {}
                  PROVE  Now \cap Above(input, l) # {}
                <5>1. CASE f \in Above(input, l)
                    <6>1. f # l
                        <7>1. PICK h \in neighbors[f] : h \in Fns
                            BY <1>0, <3>2, <3>6
                        <7> DEFINE q == <<f, h>>
                        <7>2. q \in Ordered(input) /\ q[1] = f
                            BY <3>4, <7>1
                        <7> HIDE DEF q
                        <7> QED
                            BY <7>2 DEF LeavesOf
                    <6>2. PICK p \in Ordered(input) : p[1] = f /\ p[2] \in Above(input, l)
                        BY <1>0, <1>2, <5>1, <6>1, AboveSuccessor DEF Fns
                    <6>3. p = <<f, p[2]>> /\ p[2] \in Fns
                        BY <1>0, <6>2, OrderedType DEF Fns
                    <6>4. p[2] \in neighbors[f]
                        BY <3>4, <6>3
                    <6> QED
                        BY <4>1, <6>2, <6>4
                <5>2. CASE f \notin Above(input, l)
                    <6>1. PICK g \in Left : g \in Above(input, l)
                        BY <4>3
                    <6>2. g \in UNION Range(rest)
                        <7> HIDE DEF Left, rest
                        <7> QED
                            BY <3>3, <5>2, <6>1
                    <6> QED
                        BY <4>1, <6>1, <6>2
                <5> QED
                    BY <5>1, <5>2
            <4> HIDE DEF Left, Now, rest
            <4> QED
                BY <2>2, <3>3, <4>1, <4>2, <4>3
        <3> QED
            BY <3>5, <3>6
    <2> QED
        BY <2>5, <2>6
<1>7. CASE LeavesFound
    <2>1. /\ pc = "leaves" /\ pc' = "roots" /\ calls = <<>> /\ rootNodes' = rootNodes
          /\ leafNodes' = leafNodes \cup leavesForRoot
        BY <1>7 DEF LeavesFound
    <2>2. UNION Range(calls) = {}
        BY <2>1 DEF Range
    <2>3. leavesForRoot \subseteq LeavesOf(input)
        BY <1>0, <2>1 DEF SearchInv
    <2> QED
        BY <1>0, <1>1, <2>1, <2>2, <2>3 DEF SearchInv, Found, Searching, Attached
<1>8. CASE CheckPriorities
    <2>1. pc = "roots" /\ pc' = "attach" /\ rootNodes = {} /\ UNCHANGED search
        BY <1>8 DEF CheckPriorities
    <2> QED
        BY <1>0, <1>1, <2>1 DEF SearchInv, Found, Searching, Attached, search
<1>9. CASE (Attach /\ ~Fail) \/ Partition \/ Ports \/ WriteGraph \/ ListConflict \/ Finish
    <2>1. pc \in Attached \cup {"attach"} /\ pc' \in Attached /\ UNCHANGED search
        BY <1>9 DEF Attach, Partition, Ports, WriteGraph, ListConflict, Finish, Attached
    <2> QED
        BY <1>0, <1>1, <2>1 DEF SearchInv, Found, Searching, Attached, search
<1>10. CASE UNCHANGED vars
    BY <1>0, <1>1, <1>10 DEF SearchInv, Found, Searching, Attached, vars, search
<1>11. CASE Fail \/ (ParseOrder /\ ~Fail) \/ (ParsePriority /\ ~Fail) \/ NextPart \/ Forest
    BY <1>3, <1>11 DEF Fail, ParseOrder, ParsePriority, NextPart, Forest, Searching, Attached, search
<1> QED
    BY <1>4, <1>5, <1>6, <1>7, <1>8, <1>9, <1>10, <1>11 DEF Next

-----------------------------------------------------------------------------
(* The pairs and the list of conflicts                                     *)

LEMMA SameRivals ==
    ASSUME input' = input
    PROVE  \A p : Rivals(p)' <=> Rivals(p)
BY SameTrees DEF Rivals

\* Two functions of a pair that is parallelizable float.
LEMMA FloatingRivals ==
    ASSUME IsInput(input), NEW p \in FloatingPairs(input)
    PROVE  Rivals(p)
<1>1. p[1] \in Floating(input) /\ p[2] \in Floating(input) /\ p \in Pairs(input)
    BY FloatingFacts
<1>2. p[1] # p[2] /\ Parallel(p[1], p[2])
    BY <1>1 DEF FloatingPairs, Pairs
<1> QED
    BY <1>1, <1>2 DEF Rivals

LEMMA ListStep == Inv /\ [Next]_vars => ListInv'
<1> SUFFICES ASSUME Inv, [Next]_vars PROVE ListInv'
    OBVIOUS
<1>0. /\ input' = input /\ IsInput(input) /\ TypeOK /\ ListInv
      /\ \A p : Rivals(p)' <=> Rivals(p)
      /\ pairs \subseteq Pairs(input) /\ Pairs(input)' = Pairs(input)
    BY SameInput, SameRivals DEF Inv, TypeOK, Pairs
<1>1. ASSUME \A p \in pairs' : Rivals(p), UNCHANGED conflicts_list, pc' # "draw",
             pc' \in {"conflicts", "done", "failed"} => pc' = "failed"
      PROVE  (pc' = "failed" \/ conflicts_list = <<>>) => ListInv'
    BY <1>0, <1>1 DEF ListInv
<1>2. CASE Fail
    <2>1. pairs' = pairs /\ conflicts_list' = conflicts_list /\ pc' = "failed"
        BY <1>2 DEF Fail, outputs
    <2> QED
        BY <1>0, <1>1, <2>1 DEF ListInv
<1>3. CASE ParseOrder /\ ~Fail
    <2> DEFINE d == input.orderDependencies[k]
    <2>1. /\ pc = "order" /\ pc' = "order" /\ k \in 1 .. Len(input.orderDependencies)
          /\ conflicts_list' = conflicts_list
        BY <1>0, <1>3 DEF ParseOrder, TypeOK, outputs
    <2>2. d \in Range(input.orderDependencies) /\ d \in Pairs(input)
        <3>1. input.orderDependencies \in Seq(Pairs(input))
            BY <1>0 DEF IsInput
        <3> QED
            BY <2>1, <3>1 DEF Range
    <2>3. Parallel(d[1], d[2]) => Rivals(d)
        BY <1>0, <2>2, FloatingRivals DEF FloatingPairs
    <2>4. d = <<d[1], d[2]>>
        BY <2>2 DEF Pairs
    <2>5. \/ pairs' = pairs
          \/ Parallel(d[1], d[2]) /\ pairs' \subseteq pairs \cup {<<d[1], d[2]>>}
        BY <1>3, <2>1 DEF ParseOrder, WithConflicts
    <2>6. \A p \in pairs' : Rivals(p)
        <3> HIDE DEF d
        <3> QED
            BY <1>0, <2>3, <2>4, <2>5 DEF ListInv
    <2> QED
        BY <1>0, <1>1, <2>1, <2>6 DEF ListInv
<1>4. CASE ParsePriority /\ ~Fail
    <2> DEFINE d == input.priorities[k]
    <2>1. /\ pc = "priority" /\ pc' = "priority" /\ k \in 1 .. Len(input.priorities)
          /\ conflicts_list' = conflicts_list
        BY <1>0, <1>4 DEF ParsePriority, TypeOK, outputs
    <2>2. d \in Range(input.priorities) /\ d \in Pairs(input)
        <3>1. input.priorities \in Seq(Pairs(input))
            BY <1>0 DEF IsInput
        <3> QED
            BY <2>1, <3>1 DEF Range
    <2>3. Parallel(d[1], d[2]) => Rivals(d)
        BY <1>0, <2>2, FloatingRivals DEF FloatingPairs
    <2>4. d = <<d[1], d[2]>>
        BY <2>2 DEF Pairs
    <2>5. \/ pairs' = pairs
          \/ Parallel(d[1], d[2]) /\ pairs' \subseteq pairs \cup {<<d[1], d[2]>>}
        BY <1>4, <2>1 DEF ParsePriority, WithConflicts
    <2>6. \A p \in pairs' : Rivals(p)
        <3> HIDE DEF d
        <3> QED
            BY <1>0, <2>3, <2>4, <2>5 DEF ListInv
    <2> QED
        BY <1>0, <1>1, <2>1, <2>6 DEF ListInv
<1>5. CASE LeavesFound
    <2>1. /\ pc = "leaves" /\ pc' = "roots" /\ conflicts_list' = conflicts_list
          /\ pairs' = pairs \cup LevelPairs(leavesForRoot)
        BY <1>5 DEF LeavesFound, outputs
    <2>2. PICK r \in Fns : \A f \in leavesForRoot : f \in LeavesOf(input) /\ r \in Above(input, f)
        BY <2>1 DEF Inv, SearchInv
    <2>3. ASSUME NEW p \in LevelPairs(leavesForRoot) PROVE Rivals(p)
        <3>1. /\ p[1] \in leavesForRoot /\ p[2] \in leavesForRoot
              /\ p[1] # p[2] /\ Parallel(p[1], p[2])
            BY DEF LevelPairs
        <3> QED
            BY <2>2, <3>1 DEF Rivals
    <2>4. \A p \in pairs' : Rivals(p)
        BY <1>0, <2>1, <2>3 DEF ListInv
    <2> QED
        BY <1>0, <1>1, <2>1, <2>4 DEF ListInv
<1>6. CASE CheckPriorities
    <2>1. /\ pc = "roots" /\ pc' = "attach" /\ conflicts_list' = conflicts_list
          /\ pairs' = pairs \cup LevelPairs(priorityNodes)
        BY <1>6 DEF CheckPriorities, outputs
    <2>2. priorityNodes = Floating(input)
        <3>1. Range(parsedOrder) = Ordered(input) /\ Range(parsedPriorities) = FloatingPairs(input)
            BY <2>1 DEF Inv, ParseInv, Parsing
        <3> QED
            BY <1>0, <3>1, ParsedNodes
    <2>3. ASSUME NEW p \in LevelPairs(priorityNodes) PROVE Rivals(p)
        <3>1. /\ p[1] \in priorityNodes /\ p[2] \in priorityNodes
              /\ p[1] # p[2] /\ Parallel(p[1], p[2])
            BY DEF LevelPairs
        <3> QED
            BY <2>2, <3>1 DEF Rivals
    <2>4. \A p \in pairs' : Rivals(p)
        BY <1>0, <2>1, <2>3 DEF ListInv
    <2> QED
        BY <1>0, <1>1, <2>1, <2>4 DEF ListInv
<1>7. CASE NextPart \/ Forest \/ FindRoots \/ SearchRoot \/ FindLeaf \/ (Attach /\ ~Fail) \/ Partition
    <2>1. /\ pc' \notin {"draw", "conflicts", "done", "failed"}
          /\ pc \notin {"conflicts", "done", "failed"} /\ UNCHANGED <<pairs, conflicts_list>>
        BY <1>7 DEF NextPart, Forest, FindRoots, SearchRoot, FindLeaf, Attach, Partition, outputs
    <2> QED
        BY <1>0, <1>1, <2>1 DEF ListInv
<1>8. CASE Ports
    <2>1. /\ pc = "ports" /\ pc' = "draw" /\ UNCHANGED <<pairs, conflicts_list, graph>>
          /\ port_to_node_map' = MergerPorts
        BY <1>8 DEF Ports
    <2>2. MergerPorts' = MergerPorts
        BY <1>0, <2>1, SameIds DEF MergerPorts, IdNeighbors, FnOf, graph
    <2> QED
        BY <1>0, <2>1, <2>2 DEF ListInv
<1>9. CASE WriteGraph
    <2>1. /\ pc = "draw" /\ pc' = "conflicts"
          /\ UNCHANGED <<pairs, conflicts_list, graph, port_to_node_map>>
        BY <1>9 DEF WriteGraph
    <2>2. MergerPorts' = MergerPorts
        BY <1>0, <2>1, SameIds DEF MergerPorts, IdNeighbors, FnOf, graph
    <2>3. conflicts_list = <<>>
        BY <1>0, <2>1 DEF ListInv
    <2> QED
        BY <1>0, <2>1, <2>2, <2>3 DEF ListInv
<1>10. CASE ListConflict
    <2>1. PICK p \in pairs : conflicts_list' = Append(conflicts_list, Item(p)) /\ pairs' = pairs \ {p}
        BY <1>10 DEF ListConflict
    <2>2. pc = "conflicts" /\ pc' = "conflicts" /\ UNCHANGED <<graph, port_to_node_map>>
        BY <1>10 DEF ListConflict
    <2>3. MergerPorts' = MergerPorts /\ \A q : Item(q)' = Item(q)
        BY <1>0, <2>2, SameIds DEF MergerPorts, IdNeighbors, FnOf, graph, Item, GetParent
    <2>4. conflicts_list \in Seq([major : Ids, minor : Ids, parent : Ids \cup {-1}])
        BY <1>0 DEF TypeOK
    <2>5. ASSUME NEW i \in DOMAIN conflicts_list'
          PROVE  \E q \in Pairs(input) : Rivals(q) /\ conflicts_list'[i] = Item(q)
        <3>1. \/ i \in DOMAIN conflicts_list /\ conflicts_list'[i] = conflicts_list[i]
              \/ conflicts_list'[i] = Item(p)
            BY <2>1, <2>4
        <3> QED
            BY <1>0, <2>2, <3>1 DEF ListInv
    <2> QED
        BY <1>0, <2>1, <2>2, <2>3, <2>5 DEF ListInv
<1>11. CASE Finish \/ UNCHANGED vars
    <2>1. /\ UNCHANGED <<graph, port_to_node_map, pairs, conflicts_list>>
          /\ \/ pc' = pc
             \/ pc = "conflicts" /\ pc' = "done"
        <3>1. CASE Finish
            BY <3>1 DEF Finish, outputs
        <3>2. CASE UNCHANGED vars
            BY <3>2 DEF vars, outputs
        <3> QED
            BY <1>11, <3>1, <3>2
    <2>2. MergerPorts' = MergerPorts /\ \A q : Item(q)' = Item(q)
        BY <1>0, <2>1, SameIds DEF MergerPorts, IdNeighbors, FnOf, graph, Item, GetParent
    <2> QED
        BY <1>0, <2>1, <2>2 DEF ListInv
<1> QED
    BY <1>2, <1>3, <1>4, <1>5, <1>6, <1>7, <1>8, <1>9, <1>10, <1>11 DEF Next

-----------------------------------------------------------------------------
(* The theorems                                                            *)

(***************************************************************************)
(* The types of the constructor's state, with what it writes for the web   *)
(* server: each edge joins two nodes that are written (TypeOK).            *)
(***************************************************************************)
THEOREM TypeCorrect == Spec => []TypeOK
<1>1. Init => TypeOK
    BY InitInv DEF Inv
<1> QED
    BY <1>1, TypeStep, PTL DEF Spec

(***************************************************************************)
(* The invariant of the constructor: what has been parsed, built, searched *)
(* and listed when.                                                        *)
(***************************************************************************)
THEOREM Built == Spec => []Inv
<1>1. Inv /\ [Next]_vars => Inv'
    BY TypeStep, ParseStep, GraphStep, SearchStep, ListStep DEF Inv
<1> QED
    BY InitInv, <1>1, PTL DEF Spec

(***************************************************************************)
(* For any number of functions, dependencies and priorities whose graph is *)
(* a forest beside free floating functions, a dependency that is not       *)
(* parallelizable is kept on every path (TreesKeepOrder).                  *)
(***************************************************************************)
THEOREM OrderIsKept == Spec => []TreesKeepOrder
    BY Built, KeepsOrder, PTL

(***************************************************************************)
(* In such a graph each function but first has one parent, and first is    *)
(* above all: each leaf sends one copy of a packet (OneCopy).              *)
(***************************************************************************)
THEOREM OneCopyEach == Spec => []OneCopy
    BY Built, CopiesOnce, PTL

(***************************************************************************)
(* In such a graph each conflict is between functions of which none is on  *)
(* the way to the other, and is stored under one that is on the way to the *)
(* major, and to the minor if leaves are level (ItemsMeet).                *)
(***************************************************************************)
THEOREM ConflictsMeet == Spec => []ItemsMeet
    BY Built, Meets, PTL

(***************************************************************************)
(* With a last function that nothing else names, and no cycle, the merger  *)
(* listens for it and otherwise only for what hangs from nothing           *)
(* (LastIsLeaf).                                                           *)
(***************************************************************************)
THEOREM LastIsHeard == Spec => []LastIsLeaf
    BY Built, LastListens, PTL
=============================================================================
