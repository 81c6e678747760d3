------------------------- MODULE MergeChangesProofs -------------------------
(***************************************************************************)
(* Theorems about what merge_packet makes of the fields' values, for every *)
(* service graph and conflict list of the kind each theorem names and any  *)
(* number of merges of one id at a time.                                   *)
(***************************************************************************)
EXTENDS MergePacketProofs

(***************************************************************************)
(* Keys.  D is the set of keys merge m has used up: none of them comes     *)
(* back, since a conflict whose parent is used up, or there, names a used  *)
(* key; each was used by a conflict whose parent has come to be; and what  *)
(* the function of a key writes is recorded in a packet, under that key    *)
(* while it is there.                                                      *)
(***************************************************************************)
KeysUsed(m, D) ==
    /\ D \subseteq Nodes /\ D \cap DOMAIN info[m] = {}
    /\ graph.leaves \subseteq D \cup DOMAIN info[m]
    /\ \A c \in Range(graph.conflicts) :
          c.parent \in D \cup DOMAIN info[m] => Members(c) \cap D # {}
    /\ \A d \in D : \E c \in Range(graph.conflicts) :
          d \in Members(c) /\ Members(c) \subseteq D /\ c.parent \in D \cup DOMAIN info[m]
    /\ \A k \in DOMAIN info[m] \cap Nodes : Writes(graph, k) \subseteq info[m][k].fields
    /\ \A d \in D : \A f \in Writes(graph, d) : \E x \in Parts(m) : f \in x.fields

\* A pass that has changed nothing so far found no conflict to resolve.
Passed(m) ==
    /\ phase[m] = "convert" => next[m] = 1
    /\ phase[m] = "conflicts" /\ ~changed[m] =>
          \A i \in 1 .. next[m] - 1 : ~(Members(graph.conflicts[i]) \subseteq DOMAIN info[m])

KeysOf(m) ==
    /\ OncePerKey(graph) /\ phase[m] = "conflicts" => \E D \in SUBSET Nodes : KeysUsed(m, D)
    /\ Passed(m)

KeysInv == \A m \in Mergers : KeysOf(m)
-----------------------------------------------------------------------------
LEMMA GraphFacts ==
    ASSUME graph \in Graphs
    PROVE  /\ graph.leaves \subseteq Nodes /\ Nodes \subseteq Nat
           /\ \A l \in graph.leaves : Writes(graph, l) \subseteq Fields
           /\ \A c \in Range(graph.conflicts) :
                 c.major \in Nodes /\ c.minor \in Nodes /\ c.major # c.minor
PROOF
<1>1. graph.leaves \subseteq Nodes /\ Nodes \subseteq Nat
    BY GraphAssumption DEF IsGraph, Nodes
<1>2. graph.conflicts \in Seq(Items(Nodes)) /\ \A c \in Range(graph.conflicts) : c.major # c.minor
    BY GraphAssumption DEF IsGraph, Nodes
<1>3. \A c \in Range(graph.conflicts) : c \in Items(Nodes)
    BY <1>2 DEF Range
<1> QED
    BY <1>1, <1>2, <1>3, WritesFields DEF Nodes, Items

\* The item a merge is at is one of the list.
LEMMA ItemInList ==
    ASSUME graph \in Graphs, NEW m \in Mergers, AtItem(m), TypeOK
    PROVE  Item(m) \in Range(graph.conflicts)
PROOF
<1>1. graph.conflicts \in Seq(Items(Nodes)) /\ next[m] \in 1 .. Len(graph.conflicts)
    BY ItemType, GraphAssumption DEF IsGraph, Nodes
<1> QED
    BY <1>1 DEF Item, Range

\* The values of a resolution of two packets that are not null.
LEMMA ResolvedValues ==
    ASSUME Shape, LeafNulls, NEW p, NEW q, IsPartial(p), IsPartial(q), ~IsNull(p, q),
           WriteThrough(p, q), UNCHANGED graph, NEW r, r = Resolved(p, q)
    PROVE  /\ r.fields = p.fields \cup q.fields
           /\ \A f \in Fields : Bytes(r)'.val[f] = IF f \in q.fields \ p.fields
                                                   THEN Bytes(q).val[f] ELSE Bytes(p).val[f]
           /\ \A l \in graph.leaves : l # p.home => leafBuf'[l] = leafBuf[l]
           /\ \A l \in graph.leaves : l = p.home => leafBuf'[l] = Headers(p, q)
PROOF
<1> DEFINE h == Headers(p, q)
           o == IF CopiesPayload(p, q) THEN WithPayload(h, Bytes(q)) ELSE h
<1>1. r = [home |-> IF CopiesPayload(p, q) THEN Own ELSE p.home,
           own |-> o, fields |-> p.fields \cup q.fields]
    BY DEF Resolved
<1>2. p.home \in graph.leaves \cup {Own} /\ Own \notin graph.leaves
    BY OwnIsNoLeaf DEF IsPartial, Shape
<1>3. /\ \A l \in graph.leaves : l # p.home => leafBuf'[l] = leafBuf[l]
      /\ \A l \in graph.leaves : l = p.home => leafBuf'[l] = h
    BY <1>2 DEF WriteThrough, Shape
<1>4. Bytes(r)' = IF r.home = Own THEN r.own ELSE leafBuf'[r.home]
    BY DEF Bytes
<1>5. Bytes(r)' = o
    <2>1. CASE CopiesPayload(p, q)
        BY <1>1, <1>4, <2>1
    <2>2. CASE ~CopiesPayload(p, q) /\ p.home = Own
        BY <1>1, <1>4, <2>2
    <2>3. CASE ~CopiesPayload(p, q) /\ p.home # Own
        BY <1>1, <1>2, <1>3, <1>4, <2>3
    <2> QED
        BY <2>1, <2>2, <2>3
<1>6. \A f \in Fields : h.val[f] = IF f \in (q.fields \ p.fields) \ {"PAYLOAD"}
                                   THEN Bytes(q).val[f] ELSE Bytes(p).val[f]
    BY DEF Headers
<1>7. \A f \in Fields : o.val[f] = IF f \in q.fields \ p.fields
                                   THEN Bytes(q).val[f] ELSE Bytes(p).val[f]
    <2>1. CASE CopiesPayload(p, q)
        <3>1. o.val = [h.val EXCEPT !["PAYLOAD"] = Bytes(q).val["PAYLOAD"]]
            BY <2>1 DEF WithPayload
        <3>2. DOMAIN h.val = Fields
            BY DEF Headers
        <3> HIDE DEF h, o
        <3> QED
            BY <1>6, <2>1, <3>1, <3>2 DEF CopiesPayload, Fields
    <2>2. CASE ~CopiesPayload(p, q)
        BY <1>6, <2>2 DEF CopiesPayload, Fields
    <2> QED
        BY <2>1, <2>2
<1> QED
    BY <1>1, <1>3, <1>5, <1>7

\* What the resolution of the item a merge is at puts into its map.
LEMMA ItemResolved ==
    ASSUME NullInv, TypeOK, NEW m \in Mergers, ResolveConflict(m)
    PROVE  \E c \in Range(graph.conflicts) :
              /\ Members(c) \subseteq DOMAIN info[m]
              /\ ~IsNull(info[m][c.major], info[m][c.minor])
              /\ WriteThrough(info[m][c.major], info[m][c.minor])
              /\ info'[m] = MapInsert(MapErase(info[m], Members(c)), c.parent,
                                      WithParent(Resolved(info[m][c.major], info[m][c.minor]),
                                                 c.parent))
PROOF
<1>1. Item(m) \in Range(graph.conflicts)
    BY ItemInList DEF ResolveConflict, NullInv, Shape
<1>2. PICK c \in Range(graph.conflicts) : c = Item(m)
    BY <1>1
<1>3. Members(c) \subseteq DOMAIN info[m]
    BY <1>2 DEF ResolveConflict, Available, Members
<1>4. /\ ~IsNull(info[m][c.major], info[m][c.minor])
      /\ WriteThrough(info[m][c.major], info[m][c.minor])
      /\ info'[m] = MapInsert(MapErase(info[m], Members(c)), c.parent,
                              WithParent(Resolved(info[m][c.major], info[m][c.minor]), c.parent))
    BY <1>2 DEF ResolveConflict, NullInv, Shape, Members
<1> QED
    BY <1>3, <1>4

\* The fields and bytes of a resolution that is not null, with its parent's.
LEMMA WithParentFacts ==
    ASSUME NEW p, NEW q, ~IsNull(p, q), NEW k, NEW r, r = Resolved(p, q),
           NEW w, w = WithParent(r, k)
    PROVE  /\ w.home = r.home /\ w.own = r.own
           /\ w.fields = p.fields \cup q.fields
                         \cup IF k \in DOMAIN graph.nf THEN Writes(graph, k) ELSE {}
PROOF
<1>1. r = [home |-> r.home, own |-> r.own, fields |-> p.fields \cup q.fields]
    BY DEF Resolved
<1> QED
    BY <1>1 DEF WithParent

LEMMA KeysQuiet ==
    ASSUME UNCHANGED graph, NEW m, info'[m] = info[m], acc'[m] = acc[m]
    PROVE  \A D : KeysUsed(m, D) => KeysUsed(m, D)'
BY DEF KeysUsed, Parts, Nodes, Writes

LEMMA KeysConvert ==
    ASSUME NullInv, KeysInv, NEW m \in Mergers, Convert(m)
    PROVE  KeysOf(m)'
PROOF
<1> DEFINE part(l) == [home |-> l, own |-> leafBuf[l], fields |-> Writes(graph, l)]
<1>1. UNCHANGED <<graph, next>> /\ graph \in Graphs /\ phase[m] = "convert"
    BY DEF Convert, NullInv, Shape
<1>2. phase'[m] = "conflicts" /\ info'[m] = [l \in graph.leaves |-> part(l)]
    BY DEF Convert, NullInv, Shape
<1>3. ASSUME OncePerKey(graph) PROVE KeysUsed(m, {})'
    <2>1. DOMAIN info'[m] = graph.leaves
        BY <1>2
    <2>2. \A l \in graph.leaves : info'[m][l].fields = Writes(graph, l)
        BY <1>2
    <2>3. \A c \in Range(graph.conflicts) : c.parent \notin graph.leaves
        BY <1>3 DEF OncePerKey
    <2> QED
        BY <1>1, <2>1, <2>2, <2>3 DEF KeysUsed, Writes
<1>4. Passed(m)'
    BY <1>1, <1>2 DEF KeysInv, KeysOf, Passed
<1> QED
    BY <1>1, <1>3, <1>4 DEF KeysOf

\* Nothing is there yet under the parent of a conflict that is resolved, and
\* what it resolves is used up.
LEMMA KeysResolve ==
    ASSUME NullInv, TypeOK, OncePerKey(graph), NEW m \in Mergers, ResolveConflict(m),
           NEW D \in SUBSET Nodes, KeysUsed(m, D),
           NEW c \in Range(graph.conflicts), Members(c) \subseteq DOMAIN info[m],
           NEW p, p = info[m][c.major], NEW q, q = info[m][c.minor], ~IsNull(p, q),
           NEW w, w = WithParent(Resolved(p, q), c.parent),
           info'[m] = MapInsert(MapErase(info[m], Members(c)), c.parent, w)
    PROVE  c.parent \notin DOMAIN info[m] /\ KeysUsed(m, D \cup Members(c))'
PROOF
<1> DEFINE E == D \cup Members(c)
<1>1. UNCHANGED <<graph, acc>> /\ graph \in Graphs
    BY DEF ResolveConflict, NullInv, Shape
<1>2. PICK map : map = info'[m]
    OBVIOUS
<1>3. c.parent \notin D \cup DOMAIN info[m]
    BY DEF KeysUsed
<1>4. /\ DOMAIN map = (DOMAIN info[m] \ Members(c)) \cup {c.parent}
      /\ map[c.parent] = w
      /\ \A k \in DOMAIN info[m] \ Members(c) : map[k] = info[m][k]
    BY <1>2, <1>3 DEF MapInsert, MapErase, Restrict
<1>5. w.fields = p.fields \cup q.fields
                 \cup IF c.parent \in DOMAIN graph.nf THEN Writes(graph, c.parent) ELSE {}
    BY WithParentFacts
<1>6. E \subseteq Nodes
    BY <1>1, GraphFacts DEF Members
<1>7. E \cap DOMAIN map = {}
    BY <1>3, <1>4 DEF KeysUsed, OncePerKey
<1>8. D \cup DOMAIN info[m] \subseteq E \cup DOMAIN map /\ c.parent \in DOMAIN map
    BY <1>4
<1>9. \A e \in Range(graph.conflicts) : e.parent \in E \cup DOMAIN map => Members(e) \cap E # {}
    <2> SUFFICES ASSUME NEW e \in Range(graph.conflicts), e.parent \in E \cup DOMAIN map
                 PROVE  Members(e) \cap E # {}
        OBVIOUS
    <2>1. CASE e.parent \in D \cup DOMAIN info[m]
        BY <2>1 DEF KeysUsed
    <2>2. CASE e.parent = c.parent
        BY <2>2 DEF OncePerKey
    <2> QED
        BY <1>4, <2>1, <2>2
<1>10. \A d \in E : \E e \in Range(graph.conflicts) :
         d \in Members(e) /\ Members(e) \subseteq E /\ e.parent \in E \cup DOMAIN map
    <2> SUFFICES ASSUME NEW d \in E
                 PROVE  \E e \in Range(graph.conflicts) :
                           /\ d \in Members(e) /\ Members(e) \subseteq E
                           /\ e.parent \in E \cup DOMAIN map
        OBVIOUS
    <2>1. CASE d \in D
        <3>1. PICK e \in Range(graph.conflicts) :
                 d \in Members(e) /\ Members(e) \subseteq D /\ e.parent \in D \cup DOMAIN info[m]
            BY <2>1 DEF KeysUsed
        <3> QED
            BY <1>8, <3>1
    <2>2. CASE d \in Members(c)
        BY <1>8, <2>2
    <2> QED
        BY <2>1, <2>2
<1>11. \A k \in DOMAIN map \cap Nodes : Writes(graph, k) \subseteq map[k].fields
    <2> SUFFICES ASSUME NEW k \in DOMAIN map \cap Nodes
                 PROVE  Writes(graph, k) \subseteq map[k].fields
        OBVIOUS
    <2>1. CASE k = c.parent
        BY <1>4, <1>5, <2>1 DEF Nodes
    <2>2. CASE k \in DOMAIN info[m] \ Members(c)
        BY <1>4, <2>2 DEF KeysUsed
    <2> QED
        BY <1>4, <2>1, <2>2
<1>12. w \in Parts(m)'
    BY <1>2, <1>4 DEF Parts
<1>13. \A x \in Parts(m) : x \in Parts(m)' \/ x.fields \subseteq w.fields
    <2> SUFFICES ASSUME NEW x \in Parts(m), x \notin acc[m]
                 PROVE  x \in Parts(m)' \/ x.fields \subseteq w.fields
        BY <1>1 DEF Parts
    <2>1. PICK k \in DOMAIN info[m] : x = info[m][k]
        BY DEF Parts
    <2>2. CASE k \in Members(c)
        BY <1>5, <2>1, <2>2 DEF Members
    <2>3. CASE k \notin Members(c)
        BY <1>2, <1>4, <2>1, <2>3 DEF Parts
    <2> QED
        BY <2>2, <2>3
<1>14. \A d \in E : \A f \in Writes(graph, d) : \E x \in Parts(m)' : f \in x.fields
    <2> SUFFICES ASSUME NEW d \in E, NEW f \in Writes(graph, d)
                 PROVE  \E x \in Parts(m)' : f \in x.fields
        OBVIOUS
    <2>1. \E x \in Parts(m) : f \in x.fields
        <3>1. CASE d \in D
            BY <3>1 DEF KeysUsed
        <3>2. CASE d \in Members(c)
            <4>1. d \in DOMAIN info[m] \cap Nodes
                BY <1>6, <3>2
            <4> QED
                BY <4>1 DEF KeysUsed, Parts
        <3> QED
            BY <3>1, <3>2
    <2> QED
        BY <1>12, <1>13, <2>1
<1>15. graph.leaves \subseteq E \cup DOMAIN map
    BY <1>8 DEF KeysUsed
<1> HIDE DEF E
<1>16. KeysUsed(m, E)'
    BY <1>1, <1>2, <1>6, <1>7, <1>9, <1>10, <1>11, <1>14, <1>15 DEF KeysUsed, Nodes, Writes
<1> QED
    BY <1>3, <1>16 DEF E

\* A step of one merge leaves what the others have of their own.
LEMMA OthersKept ==
    ASSUME NullInv, TypeOK, NEW m \in Mergers, Step(m), NEW n \in Mergers, n # m
    PROVE  /\ phase'[n] = phase[n] /\ info'[n] = info[n] /\ acc'[n] = acc[n]
           /\ result'[n] = result[n] /\ next'[n] = next[n] /\ changed'[n] = changed[n]
PROOF
<1>1. /\ phase = [x \in Mergers |-> phase[x]] /\ info = [x \in Mergers |-> info[x]]
      /\ acc = [x \in Mergers |-> acc[x]] /\ result = [x \in Mergers |-> result[x]]
      /\ next = [x \in Mergers |-> next[x]] /\ changed = [x \in Mergers |-> changed[x]]
    BY DEF NullInv, Shape, TypeOK
<1>2. CASE Convert(m)
    BY <1>1, <1>2 DEF Convert
<1>3. CASE ResolveConflict(m)
    BY <1>1, <1>3 DEF ResolveConflict
<1>4. CASE ResolveToNull(m)
    BY <1>1, <1>4 DEF ResolveToNull
<1>5. CASE SkipConflict(m) \/ EndPass(m)
    BY <1>1, <1>5 DEF SkipConflict, EndPass
<1>6. ASSUME NEW k, FoldFirst(m, k) \/ FoldNext(m, k)
      PROVE  /\ phase'[n] = phase[n] /\ info'[n] = info[n] /\ acc'[n] = acc[n]
             /\ result'[n] = result[n] /\ next'[n] = next[n] /\ changed'[n] = changed[n]
    BY <1>1, <1>6 DEF FoldFirst, FoldNext
<1>7. CASE FoldEnd(m) \/ Send(m)
    BY <1>1, <1>7 DEF FoldEnd, Send
<1> QED
    BY <1>2, <1>3, <1>4, <1>5, <1>6, <1>7 DEF Step

LEMMA KeysInit == Init => KeysInv
BY DEF Init, KeysInv, KeysOf, Passed

LEMMA KeysStep == NullInv /\ TypeOK /\ KeysInv /\ [Next]_vars => KeysInv'
PROOF
<1> SUFFICES ASSUME NullInv, TypeOK, KeysInv, [Next]_vars PROVE KeysInv'
    OBVIOUS
<1>1. UNCHANGED graph /\ graph \in Graphs
    BY DEF Next, Step, vars, Convert, ResolveConflict, ResolveToNull, SkipConflict, EndPass,
           FoldFirst, FoldNext, FoldEnd, Send, NullInv, Shape
<1>2. ASSUME NEW n \in Mergers, phase'[n] = phase[n], info'[n] = info[n], acc'[n] = acc[n],
             next'[n] = next[n], changed'[n] = changed[n]
      PROVE  KeysOf(n)'
    <2>1. Passed(n)'
        BY <1>1, <1>2 DEF KeysInv, KeysOf, Passed
    <2> QED
        BY <1>1, <1>2, <2>1, KeysQuiet DEF KeysInv, KeysOf, Nodes
<1>3. ASSUME NEW m \in Mergers, Step(m) PROVE KeysInv'
    <2>1. \A n \in Mergers \ {m} :
             /\ phase'[n] = phase[n] /\ info'[n] = info[n] /\ acc'[n] = acc[n]
             /\ next'[n] = next[n] /\ changed'[n] = changed[n]
        BY <1>3, OthersKept
    <2>2. KeysOf(m) /\ Len(graph.conflicts) \in Nat /\ next[m] \in 1 .. Len(graph.conflicts) + 1
        <3>1. graph.conflicts \in Seq(Items(Nodes))
            BY <1>1, GraphAssumption DEF IsGraph, Nodes
        <3> QED
            BY <3>1 DEF KeysInv, TypeOK
    <2>3. ASSUME Convert(m) PROVE KeysOf(m)'
        BY <2>3, KeysConvert
    <2>4. ASSUME ResolveConflict(m) PROVE KeysOf(m)'
        <3>1. PICK c \in Range(graph.conflicts) :
                 /\ Members(c) \subseteq DOMAIN info[m]
                 /\ ~IsNull(info[m][c.major], info[m][c.minor])
                 /\ info'[m] = MapInsert(MapErase(info[m], Members(c)), c.parent,
                                         WithParent(Resolved(info[m][c.major], info[m][c.minor]),
                                                    c.parent))
            BY <2>4, ItemResolved
        <3>2. PICK p, q : p = info[m][c.major] /\ q = info[m][c.minor]
            OBVIOUS
        <3>3. PICK w : w = WithParent(Resolved(p, q), c.parent)
            OBVIOUS
        <3>4. phase[m] = "conflicts" /\ phase'[m] = "conflicts" /\ changed'[m] = TRUE
            BY <2>4 DEF ResolveConflict, AtItem, TypeOK
        <3>5. ASSUME OncePerKey(graph), NEW D \in SUBSET Nodes, KeysUsed(m, D)
              PROVE  \E E \in SUBSET Nodes : KeysUsed(m, E)'
            <4>1. KeysUsed(m, D \cup Members(c))'
                BY <2>4, <3>1, <3>2, <3>3, <3>5, KeysResolve
            <4>2. D \cup Members(c) \in SUBSET Nodes
                BY <1>1, GraphFacts DEF Members
            <4> QED
                BY <4>1, <4>2
        <3> QED
            BY <1>1, <2>2, <3>4, <3>5 DEF KeysOf, Passed, Nodes
    <2>5. ASSUME SkipConflict(m) PROVE KeysOf(m)'
        <3>1. /\ UNCHANGED <<phase, info, acc, changed>> /\ phase[m] = "conflicts"
              /\ next'[m] = next[m] + 1
              /\ ~(Members(graph.conflicts[next[m]]) \subseteq DOMAIN info[m])
            BY <2>5 DEF SkipConflict, AtItem, Available, Item, Members, TypeOK
        <3>2. Passed(m)'
            <4> SUFFICES ASSUME ~changed[m], NEW i \in 1 .. next[m]
                         PROVE  ~(Members(graph.conflicts[i]) \subseteq DOMAIN info[m])
                BY <1>1, <2>2, <3>1 DEF Passed
            <4>1. i = next[m] \/ i \in 1 .. next[m] - 1
                BY <2>2
            <4> QED
                BY <2>2, <3>1, <4>1 DEF KeysOf, Passed
        <3> QED
            BY <1>1, <2>2, <3>1, <3>2, KeysQuiet DEF KeysOf, Nodes
    <2>6. ASSUME EndPass(m) PROVE KeysOf(m)'
        <3>1. /\ UNCHANGED <<info, acc>>
              /\ phase[m] = "conflicts" /\ next'[m] = 1 /\ phase'[m] # "convert"
            BY <2>6 DEF EndPass, TypeOK
        <3> QED
            BY <1>1, <2>2, <3>1, KeysQuiet DEF KeysOf, Passed, Nodes
    <2>7. ASSUME \/ ResolveToNull(m) \/ FoldEnd(m) \/ Send(m)
                 \/ \E k \in DOMAIN info[m] : FoldFirst(m, k) \/ FoldNext(m, k)
          PROVE  KeysOf(m)'
        <3>1. phase'[m] \in {"fold", "send", "sent"}
            BY <2>7 DEF ResolveToNull, FoldFirst, FoldNext, FoldEnd, Send, TypeOK
        <3> QED
            BY <3>1 DEF KeysOf, Passed
    <2> QED
        BY <1>2, <1>3, <2>1, <2>3, <2>4, <2>5, <2>6, <2>7 DEF Step, KeysInv
<1>4. CASE UNCHANGED vars
    BY <1>2, <1>4 DEF vars, KeysInv
<1> QED
    BY <1>3, <1>4 DEF Next

(***************************************************************************)
(* The inductive invariant on the keys of the partial results, for every   *)
(* list that inserts a key at most once, and on what a pass over the list  *)
(* has left behind.                                                        *)
(***************************************************************************)
THEOREM KeysInvariance == Spec => []KeysInv
<1> QED
    BY KeysInit, KeysStep, NullInvariance, TypeCorrect, PTL DEF Spec

\* With such a list a resolution takes two packets out of the map and puts one in.
LEMMA ItemMerged ==
    ASSUME NullInv, TypeOK, KeysInv, OncePerKey(graph), NEW m \in Mergers, ResolveConflict(m)
    PROVE  \E c \in Range(graph.conflicts) :
              /\ Members(c) \subseteq DOMAIN info[m]
              /\ ~IsNull(info[m][c.major], info[m][c.minor])
              /\ WriteThrough(info[m][c.major], info[m][c.minor])
              /\ DOMAIN info'[m] = (DOMAIN info[m] \ Members(c)) \cup {c.parent}
              /\ info'[m][c.parent] =
                    WithParent(Resolved(info[m][c.major], info[m][c.minor]), c.parent)
              /\ \A k \in DOMAIN info[m] \ Members(c) : info'[m][k] = info[m][k]
PROOF
<1>1. PICK c \in Range(graph.conflicts) :
         /\ Members(c) \subseteq DOMAIN info[m]
         /\ ~IsNull(info[m][c.major], info[m][c.minor])
         /\ WriteThrough(info[m][c.major], info[m][c.minor])
         /\ info'[m] = MapInsert(MapErase(info[m], Members(c)), c.parent,
                                 WithParent(Resolved(info[m][c.major], info[m][c.minor]),
                                            c.parent))
    BY ItemResolved
<1>2. PICK p, q : p = info[m][c.major] /\ q = info[m][c.minor]
    OBVIOUS
<1>3. PICK w : w = WithParent(Resolved(p, q), c.parent)
    OBVIOUS
<1>4. PICK D \in SUBSET Nodes : KeysUsed(m, D)
    BY DEF ResolveConflict, AtItem, KeysInv, KeysOf
<1>5. c.parent \notin DOMAIN info[m]
    BY <1>1, <1>2, <1>3, <1>4, KeysResolve
<1>6. PICK map, map2 : map = info[m] /\ map2 = info'[m]
    OBVIOUS
<1>7. /\ DOMAIN map2 = (DOMAIN map \ Members(c)) \cup {c.parent}
      /\ map2[c.parent] = w
      /\ \A k \in DOMAIN map \ Members(c) : map2[k] = map[k]
    BY <1>1, <1>2, <1>3, <1>5, <1>6 DEF MapInsert, MapErase, Restrict
<1> QED
    BY <1>1, <1>2, <1>3, <1>6, <1>7
-----------------------------------------------------------------------------
(***************************************************************************)
(* The changes are merged.  A field counts as one of a partial result if   *)
(* every leaf's copy has it changed or written_fields says so; then the    *)
(* bytes have it changed.                                                  *)
(***************************************************************************)
Changed(p, f) == Everywhere(graph, f) \/ f \in p.fields

Holds(p) == \A f \in Fields : Changed(p, f) => Bytes(p).val[f] # AsSent

LeavesHold ==
    \A l \in graph.leaves : \A f \in Fields :
        Everywhere(graph, f) \/ f \in Writes(graph, l) => leafBuf[l].val[f] # AsSent

\* What some leaf's function wrote is in a packet that merge m has yet to merge.
Covered(m) ==
    \A l \in graph.leaves : \A f \in Writes(graph, l) : \E p \in Parts(m) : f \in p.fields

Full(r) ==
    \A f \in Fields : (\E l \in graph.leaves : Arrived(graph, l, f) # AsSent) => r.val[f] # AsSent

MergeChanges(m) ==
    /\ \A p \in Parts(m) : Holds(p)
    /\ phase[m] \in {"conflicts", "fold", "send"} => Covered(m)
    /\ phase[m] = "send" => DOMAIN info[m] = {}
    /\ \A r \in result[m] : Full(r)

ChangesInv ==
    Mergeable(graph) /\ ~AnyDrop => LeavesHold /\ \A m \in Mergers : MergeChanges(m)
-----------------------------------------------------------------------------
\* A resolution undoes no change, and its result has those of both.
LEMMA ResolveHolds ==
    ASSUME Shape, LeafNulls, LeavesHold, NEW p, NEW q, IsPartial(p), IsPartial(q),
           Holds(p), Holds(q), ~IsNull(p, q),
           WriteThrough(p, q), UNCHANGED graph, NEW r, r = Resolved(p, q)
    PROVE  /\ LeavesHold' /\ Holds(r)'
           /\ \A x : IsPartial(x) /\ Holds(x) => Holds(x)'
PROOF
<1>1. \A f : Everywhere(graph, f)' <=> Everywhere(graph, f)
    BY DEF Everywhere, Arrived, WritersOf, Writes
<1>2. ASSUME NEW l \in graph.leaves, NEW f \in Fields, leafBuf[l].val[f] # AsSent
      PROVE  leafBuf'[l].val[f] # AsSent
    <2>1. CASE l # p.home
        BY <1>2, <2>1, ResolvedValues
    <2>2. CASE l = p.home
        <3>1. leafBuf'[l] = Headers(p, q)
            BY <2>2, ResolvedValues
        <3>2. Bytes(p) = leafBuf[l]
            BY <2>2, OwnIsNoLeaf DEF Bytes, Shape
        <3>3. f \in q.fields => Bytes(q).val[f] # AsSent
            BY DEF Holds, Changed
        <3> QED
            BY <1>2, <3>1, <3>2, <3>3 DEF Headers
    <2> QED
        BY <2>1, <2>2
<1>3. LeavesHold'
    BY <1>1, <1>2 DEF LeavesHold, Writes
<1>4. Holds(r)'
    <2> SUFFICES ASSUME NEW f \in Fields, Everywhere(graph, f) \/ f \in r.fields
                 PROVE  Bytes(r)'.val[f] # AsSent
        BY <1>1 DEF Holds, Changed
    <2>1. /\ r.fields = p.fields \cup q.fields
          /\ Bytes(r)'.val[f] = IF f \in q.fields \ p.fields
                                THEN Bytes(q).val[f] ELSE Bytes(p).val[f]
        BY ResolvedValues
    <2> QED
        BY <2>1 DEF Holds, Changed
<1>5. ASSUME NEW x, IsPartial(x), Holds(x) PROVE Holds(x)'
    <2> SUFFICES ASSUME NEW f \in Fields, Changed(x, f) PROVE Bytes(x)'.val[f] # AsSent
        BY <1>1 DEF Holds, Changed
    <2>1. Bytes(x).val[f] # AsSent
        BY <1>5 DEF Holds
    <2>2. CASE x.home = Own
        BY <2>1, <2>2 DEF Bytes
    <2>3. CASE x.home # Own
        <3>1. x.home \in graph.leaves
            BY <1>5, <2>3 DEF IsPartial
        <3> QED
            BY <1>2, <2>1, <2>3, <3>1 DEF Bytes
    <2> QED
        BY <2>2, <2>3
<1> QED
    BY <1>3, <1>4, <1>5

LEMMA QuietHolds ==
    ASSUME UNCHANGED <<graph, leafBuf>>
    PROVE  /\ LeavesHold => LeavesHold'
           /\ \A x : Holds(x)' <=> Holds(x)
PROOF
<1>1. \A f : Everywhere(graph, f)' <=> Everywhere(graph, f)
    BY DEF Everywhere, Arrived, WritersOf, Writes
<1>2. ASSUME NEW x PROVE Bytes(x)' = Bytes(x)
    BY DEF Bytes
<1> QED
    BY <1>1, <1>2 DEF LeavesHold, Holds, Changed, Writes

\* A step of merge m keeps ChangesInv if it undoes no change and keeps what
\* is said of m.
LEMMA ChangesOthers ==
    ASSUME NullInv, Mergeable(graph), ~AnyDrop, ChangesInv, UNCHANGED <<graph, dropped>>,
           LeavesHold', \A x : IsPartial(x) /\ Holds(x) => Holds(x)',
           NEW m \in Mergers, MergeChanges(m)',
           \A n \in Mergers \ {m} : /\ phase'[n] = phase[n] /\ info'[n] = info[n]
                                    /\ acc'[n] = acc[n] /\ result'[n] = result[n]
    PROVE  ChangesInv'
PROOF
<1>1. ASSUME NEW n \in Mergers \ {m} PROVE MergeChanges(n)'
    <2>1. MergeChanges(n) /\ \A x \in Parts(n) : IsPartial(x)
        BY DEF ChangesInv, NullInv, PartNulls, MergeNulls
    <2>2. Parts(n)' = Parts(n)
        BY DEF Parts
    <2>3. Covered(n) => Covered(n)'
        BY <2>2 DEF Covered, Writes
    <2>4. \A r : Full(r)' <=> Full(r)
        BY DEF Full, Arrived, WritersOf, Writes
    <2> QED
        BY <2>1, <2>2, <2>3, <2>4 DEF MergeChanges
<1> QED
    BY <1>1 DEF ChangesInv

LEMMA ChangesConvert ==
    ASSUME NullInv, Mergeable(graph), ~AnyDrop, ChangesInv, NEW m \in Mergers, Convert(m)
    PROVE  ChangesInv'
PROOF
<1> DEFINE part(l) == [home |-> l, own |-> leafBuf[l], fields |-> Writes(graph, l)]
<1>1. UNCHANGED <<graph, dropped, leafBuf, acc, result>> /\ graph \in Graphs /\ LeavesHold
    BY DEF Convert, NullInv, Shape, ChangesInv
<1>2. phase[m] = "convert" /\ phase'[m] = "conflicts"
    BY DEF Convert, NullInv, Shape
<1>3. info'[m] = [l \in graph.leaves |-> part(l)] /\ acc[m] = {} /\ result[m] = {}
    BY <1>2 DEF Convert, NullInv, Shape, PartNulls, Tidy, Parts
<1>4. Parts(m)' = {part(l) : l \in graph.leaves} /\ DOMAIN info'[m] = graph.leaves
    <2> HIDE DEF part
    <2> QED
        BY <1>1, <1>3 DEF Parts
<1>5. ASSUME NEW l \in graph.leaves PROVE Holds(part(l)) /\ part(l).fields = Writes(graph, l)
    <2>1. Bytes(part(l)) = leafBuf[l]
        BY DEF Bytes
    <2> QED
        BY <1>1, <2>1 DEF Holds, Changed, LeavesHold
<1> HIDE DEF part
<1>7. Covered(m)'
    BY <1>1, <1>4, <1>5 DEF Covered, Writes
<1>8. MergeChanges(m)'
    BY <1>1, <1>2, <1>3, <1>4, <1>5, <1>7, QuietHolds DEF MergeChanges
<1>9. \A n \in Mergers \ {m} : phase'[n] = phase[n] /\ info'[n] = info[n]
    BY DEF Convert, NullInv, Shape
<1> QED
    BY <1>1, <1>8, <1>9, QuietHolds, ChangesOthers

LEMMA ChangesSkip ==
    ASSUME NullInv, Mergeable(graph), ~AnyDrop, ChangesInv, NEW m \in Mergers,
           SkipConflict(m) \/ EndPass(m)
    PROVE  ChangesInv'
PROOF
<1>1. UNCHANGED <<graph, dropped, leafBuf, info, acc, result>> /\ LeavesHold
    BY DEF SkipConflict, EndPass, ChangesInv
<1>2. phase[m] = "conflicts" /\ phase'[m] \in {"conflicts", "fold"}
    BY DEF SkipConflict, EndPass, AtItem, NullInv, Shape
<1>3. MergeChanges(m) /\ result[m] = {}
    BY <1>2 DEF ChangesInv, NullInv, PartNulls, Tidy
<1>4. Parts(m)' = Parts(m) /\ Covered(m)' = Covered(m)
    BY <1>1 DEF Parts, Covered, Writes
<1>5. MergeChanges(m)'
    BY <1>1, <1>2, <1>3, <1>4, QuietHolds DEF MergeChanges
<1>6. \A n \in Mergers \ {m} : phase'[n] = phase[n]
    BY DEF SkipConflict, EndPass, NullInv, Shape
<1> QED
    BY <1>1, <1>5, <1>6, QuietHolds, ChangesOthers

LEMMA ChangesFoldFirst ==
    ASSUME NullInv, Mergeable(graph), ~AnyDrop, ChangesInv, NEW m \in Mergers, NEW k,
           FoldFirst(m, k)
    PROVE  ChangesInv'
PROOF
<1>1. UNCHANGED <<graph, dropped, leafBuf, phase, result>> /\ LeavesHold
    BY DEF FoldFirst, ChangesInv
<1>2. phase[m] = "fold" /\ acc[m] = {} /\ k \in DOMAIN info[m] /\ acc'[m] = {info[m][k]}
    BY DEF FoldFirst, FirstKey, NullInv, Shape
<1>3. info'[m] = [j \in DOMAIN info[m] \ {k} |-> info[m][j]]
    <2>1. info'[m] = Restrict(info[m], DOMAIN info[m] \ {k})
        BY DEF FoldFirst, NullInv, Shape, MapErase
    <2> QED
        BY <2>1 DEF Restrict
<1>4. Parts(m)' = Parts(m)
    BY <1>2, <1>3 DEF Parts
<1>5. MergeChanges(m) /\ result[m] = {}
    BY <1>2 DEF ChangesInv, NullInv, PartNulls, Tidy
<1>6. Covered(m)' = Covered(m)
    BY <1>1, <1>4 DEF Covered, Writes
<1>7. MergeChanges(m)'
    BY <1>1, <1>2, <1>4, <1>5, <1>6, QuietHolds DEF MergeChanges
<1>8. \A n \in Mergers \ {m} : info'[n] = info[n] /\ acc'[n] = acc[n]
    BY DEF FoldFirst, NullInv, Shape
<1> QED
    BY <1>1, <1>7, <1>8, QuietHolds, ChangesOthers

LEMMA ChangesFoldEnd ==
    ASSUME NullInv, Mergeable(graph), ~AnyDrop, ChangesInv, NEW m \in Mergers, FoldEnd(m)
    PROVE  ChangesInv'
PROOF
<1>1. UNCHANGED <<graph, dropped, leafBuf, info, acc, result>> /\ LeavesHold
    BY DEF FoldEnd, ChangesInv
<1>2. phase[m] = "fold" /\ phase'[m] = "send" /\ DOMAIN info[m] = {}
    BY DEF FoldEnd, NullInv, Shape
<1>3. MergeChanges(m) /\ result[m] = {}
    BY <1>2 DEF ChangesInv, NullInv, PartNulls, Tidy
<1>4. Parts(m)' = Parts(m) /\ Covered(m)' = Covered(m)
    BY <1>1 DEF Parts, Covered, Writes
<1>5. MergeChanges(m)'
    BY <1>1, <1>2, <1>3, <1>4, QuietHolds DEF MergeChanges
<1>6. \A n \in Mergers \ {m} : phase'[n] = phase[n]
    BY DEF FoldEnd, NullInv, Shape
<1> QED
    BY <1>1, <1>5, <1>6, QuietHolds, ChangesOthers

LEMMA ChangesSend ==
    ASSUME NullInv, Mergeable(graph), ~AnyDrop, ChangesInv, NEW m \in Mergers, Send(m)
    PROVE  ChangesInv'
PROOF
<1>1. UNCHANGED <<graph, dropped, leafBuf, info, acc>> /\ LeavesHold /\ graph \in Graphs
    BY DEF Send, ChangesInv, NullInv, Shape
<1>2. /\ phase[m] = "send" /\ phase'[m] = "sent"
      /\ result'[m] = {Bytes(p) : p \in acc[m]}
    BY DEF Send, NullInv, Shape
<1>3. MergeChanges(m) /\ \A x, y \in acc[m] : x = y
    BY DEF ChangesInv, NullInv, PartNulls, Tidy
<1>4. Parts(m) = acc[m] /\ Parts(m)' = Parts(m)
    BY <1>1, <1>2, <1>3 DEF Parts, MergeChanges
<1>5. ASSUME NEW r \in result'[m] PROVE Full(r)
    <2>1. PICK p \in acc[m] : r = Bytes(p)
        BY <1>2
    <2>2. Holds(p)
        BY <1>3, <1>4 DEF MergeChanges
    <2> SUFFICES ASSUME NEW f \in Fields, NEW l \in graph.leaves, Arrived(graph, l, f) # AsSent
                 PROVE  r.val[f] # AsSent
        BY DEF Full
    <2>3. CASE Everywhere(graph, f)
        BY <2>1, <2>2, <2>3 DEF Holds, Changed
    <2>4. CASE Recorded(graph, f)
        <3>1. f \in Writes(graph, l)
            BY <2>4 DEF Recorded
        <3>2. PICK x \in Parts(m) : f \in x.fields
            BY <1>2, <1>3, <3>1 DEF MergeChanges, Covered
        <3>3. x = p
            BY <1>3, <1>4
        <3> QED
            BY <2>1, <2>2, <3>2, <3>3 DEF Holds, Changed
    <2> QED
        BY <2>3, <2>4 DEF Mergeable
<1>6. \A r : Full(r)' <=> Full(r)
    BY <1>1 DEF Full, Arrived, WritersOf, Writes
<1>7. MergeChanges(m)'
    BY <1>1, <1>2, <1>3, <1>4, <1>5, <1>6, QuietHolds DEF MergeChanges
<1>8. \A n \in Mergers \ {m} : phase'[n] = phase[n] /\ result'[n] = result[n]
    BY DEF Send, NullInv, Shape
<1> QED
    BY <1>1, <1>7, <1>8, QuietHolds, ChangesOthers

\* No packet is null if no leaf's copy was dropped.
LEMMA NoNulls ==
    ASSUME NullInv, ~AnyDrop, NEW m \in Mergers, NEW p \in Parts(m), NEW q \in Parts(m)
    PROVE  IsPartial(p) /\ IsPartial(q) /\ ~IsNull(p, q)
BY DEF NullInv, PartNulls, MergeNulls, IsPartial, IsNull

LEMMA ChangesFoldNext ==
    ASSUME NullInv, Mergeable(graph), ~AnyDrop, ChangesInv, NEW m \in Mergers, NEW k,
           FoldNext(m, k)
    PROVE  ChangesInv'
PROOF
<1>0. UNCHANGED <<graph, dropped, phase, result>> /\ LeavesHold
    BY DEF FoldNext, ChangesInv
<1>1. PICK p \in acc[m] : /\ WriteThrough(p, info[m][k])
                          /\ acc' = [acc EXCEPT ![m] = {Resolved(p, info[m][k])}]
    BY DEF FoldNext
<1>2. PICK q : q = info[m][k]
    OBVIOUS
<1>3. PICK r : r = Resolved(p, q)
    OBVIOUS
<1>4. p \in Parts(m) /\ q \in Parts(m) /\ WriteThrough(p, q)
    BY <1>1, <1>2 DEF FoldNext, FirstKey, Parts
<1>5. phase[m] = "fold" /\ acc'[m] = {r}
    BY <1>1, <1>2, <1>3 DEF FoldNext, NullInv, Shape
<1>6. info'[m] = [j \in DOMAIN info[m] \ {k} |-> info[m][j]]
    <2>1. info'[m] = Restrict(info[m], DOMAIN info[m] \ {k})
        BY DEF FoldNext, NullInv, Shape, MapErase
    <2> QED
        BY <2>1 DEF Restrict
<1>7. MergeChanges(m) /\ result[m] = {} /\ \A x, y \in acc[m] : x = y
    BY <1>5 DEF ChangesInv, NullInv, PartNulls, Tidy
<1>8. IsPartial(p) /\ IsPartial(q) /\ ~IsNull(p, q) /\ Holds(p) /\ Holds(q)
    BY <1>4, <1>7, NoNulls DEF MergeChanges
<1>9. /\ LeavesHold' /\ Holds(r)'
      /\ \A x : IsPartial(x) /\ Holds(x) => Holds(x)'
    BY <1>0, <1>3, <1>4, <1>8, ResolveHolds DEF NullInv
<1>10. r.fields = p.fields \cup q.fields
    BY <1>3, <1>8 DEF Resolved
<1>11. Parts(m)' = {info[m][j] : j \in DOMAIN info[m] \ {k}} \cup {r}
    BY <1>5, <1>6 DEF Parts
<1>12. \A x \in Parts(m) : x \in Parts(m)' \/ x = p \/ x = q
    BY <1>2, <1>7, <1>11 DEF Parts
<1>13. \A x \in Parts(m)' : x \in Parts(m) \/ x = r
    BY <1>11 DEF Parts
<1>14. Covered(m)'
    <2> SUFFICES ASSUME NEW l \in graph.leaves, NEW f \in Writes(graph, l)
                 PROVE  \E x \in Parts(m)' : f \in x.fields
        BY <1>0 DEF Covered, Writes
    <2>1. PICK x \in Parts(m) : f \in x.fields
        BY <1>5, <1>7 DEF MergeChanges, Covered
    <2>2. CASE x = p \/ x = q
        BY <1>10, <1>11, <2>1, <2>2
    <2> QED
        BY <1>12, <2>1, <2>2
<1>15. \A x \in Parts(m)' : Holds(x)'
    BY <1>7, <1>9, <1>13, NoNulls DEF MergeChanges
<1>16. MergeChanges(m)'
    BY <1>0, <1>5, <1>7, <1>14, <1>15 DEF MergeChanges
<1>17. \A n \in Mergers \ {m} : info'[n] = info[n] /\ acc'[n] = acc[n]
    BY <1>1 DEF FoldNext, NullInv, Shape
<1> QED
    BY <1>0, <1>9, <1>16, <1>17, ChangesOthers

LEMMA ChangesResolve ==
    ASSUME NullInv, TypeOK, KeysInv, Mergeable(graph), ~AnyDrop, ChangesInv, NEW m \in Mergers,
           ResolveConflict(m)
    PROVE  ChangesInv'
PROOF
<1>0. UNCHANGED <<graph, dropped, phase, acc, result>> /\ LeavesHold /\ graph \in Graphs
    BY DEF ResolveConflict, ChangesInv, NullInv, Shape
<1>1. PICK c \in Range(graph.conflicts) :
         /\ Members(c) \subseteq DOMAIN info[m]
         /\ WriteThrough(info[m][c.major], info[m][c.minor])
         /\ DOMAIN info'[m] = (DOMAIN info[m] \ Members(c)) \cup {c.parent}
         /\ info'[m][c.parent] = WithParent(Resolved(info[m][c.major], info[m][c.minor]), c.parent)
         /\ \A k \in DOMAIN info[m] \ Members(c) : info'[m][k] = info[m][k]
    BY ItemMerged DEF Mergeable
<1>2. phase[m] = "conflicts"
    BY DEF ResolveConflict, AtItem
<1>3. PICK p \in Parts(m), q \in Parts(m) : p = info[m][c.major] /\ q = info[m][c.minor]
    BY <1>1 DEF Parts, Members
<1>4. PICK r : r = Resolved(p, q)
    OBVIOUS
<1>5. PICK w : w = WithParent(r, c.parent)
    OBVIOUS
<1>6. WriteThrough(p, q) /\ w = info'[m][c.parent] /\ c.parent \in DOMAIN info'[m]
    BY <1>1, <1>3, <1>4, <1>5
<1>7. MergeChanges(m) /\ result[m] = {}
    BY <1>2 DEF ChangesInv, NullInv, PartNulls, Tidy, MergeChanges
<1>8. IsPartial(p) /\ IsPartial(q) /\ ~IsNull(p, q) /\ Holds(p) /\ Holds(q)
    BY <1>7, NoNulls DEF MergeChanges
<1>9. /\ LeavesHold' /\ Holds(r)'
      /\ \A x : IsPartial(x) /\ Holds(x) => Holds(x)'
    BY <1>0, <1>4, <1>6, <1>8, ResolveHolds DEF NullInv
<1>13. /\ r.fields = p.fields \cup q.fields
       /\ w = [home |-> r.home, own |-> r.own, fields |-> w.fields]
       /\ w.fields = r.fields \cup IF c.parent \in DOMAIN graph.nf
                                   THEN Writes(graph, c.parent) ELSE {}
    BY <1>4, <1>5, <1>8 DEF Resolved, WithParent
<1>14. Holds(w)'
    <2> SUFFICES ASSUME NEW f \in Fields, Changed(w, f)' PROVE Bytes(w)'.val[f] # AsSent
        BY DEF Holds
    <2>1. Bytes(w)' = Bytes(r)'
        BY <1>13 DEF Bytes
    <2>2. Everywhere(graph, f)' <=> Everywhere(graph, f)
        BY <1>0 DEF Everywhere, Arrived, WritersOf, Writes
    <2>3. Changed(r, f)'
        <3>1. CASE Everywhere(graph, f)
            BY <2>2, <3>1 DEF Changed
        <3>2. CASE Recorded(graph, f)
            BY <1>13, <3>2 DEF Changed, Recorded
        <3> QED
            BY <3>1, <3>2 DEF Mergeable
    <2> QED
        BY <1>9, <2>1, <2>3 DEF Holds
<1>15. \A x \in Parts(m)' : x \in Parts(m) \/ x = w
    BY <1>0, <1>1, <1>6 DEF Parts
<1>16. \A x \in Parts(m) : x \in Parts(m)' \/ x = p \/ x = q
    BY <1>0, <1>1, <1>3 DEF Parts, Members
<1>17. w \in Parts(m)'
    BY <1>6 DEF Parts
<1>18. Covered(m)'
    <2> SUFFICES ASSUME NEW l \in graph.leaves, NEW f \in Writes(graph, l)
                 PROVE  \E x \in Parts(m)' : f \in x.fields
        BY <1>0 DEF Covered, Writes
    <2>1. PICK x \in Parts(m) : f \in x.fields
        BY <1>2, <1>7 DEF MergeChanges, Covered
    <2>2. CASE x = p \/ x = q
        BY <1>13, <1>17, <2>1, <2>2
    <2> QED
        BY <1>16, <2>1, <2>2
<1>19. \A x \in Parts(m)' : Holds(x)'
    BY <1>7, <1>9, <1>14, <1>15, NoNulls DEF MergeChanges
<1>20. MergeChanges(m)'
    BY <1>0, <1>2, <1>7, <1>18, <1>19 DEF MergeChanges
<1>21. \A n \in Mergers \ {m} : info'[n] = info[n]
    BY DEF ResolveConflict, NullInv, Shape
<1> QED
    BY <1>0, <1>9, <1>20, <1>21, ChangesOthers

LEMMA ChangesInit == Init => ChangesInv
PROOF
<1> SUFFICES ASSUME Init PROVE ChangesInv
    OBVIOUS
<1>1. ASSUME NEW l \in graph.leaves, NEW f \in Fields,
             Everywhere(graph, f) \/ f \in Writes(graph, l)
      PROVE  leafBuf[l].val[f] # AsSent
    <2>1. leafBuf[l].val[f] = Arrived(graph, l, f)
        BY DEF Init, LeafPacket
    <2>2. CASE Everywhere(graph, f)
        BY <2>1, <2>2 DEF Everywhere
    <2>3. CASE f \in Writes(graph, l)
        BY <2>1, <2>3, LastWriter, GraphFacts DEF Init, AsSent
    <2> QED
        BY <1>1, <2>2, <2>3
<1>2. ASSUME NEW m \in Mergers PROVE MergeChanges(m)
    BY DEF Init, MergeChanges, Parts
<1> QED
    BY <1>1, <1>2 DEF ChangesInv, LeavesHold

LEMMA ChangesStep == NullInv /\ TypeOK /\ KeysInv /\ ChangesInv /\ [Next]_vars => ChangesInv'
PROOF
<1> SUFFICES ASSUME NullInv, TypeOK, KeysInv, ChangesInv, [Next]_vars PROVE ChangesInv'
    OBVIOUS
<1>1. UNCHANGED <<graph, dropped>>
    BY DEF Next, Step, vars, Convert, ResolveConflict, ResolveToNull, SkipConflict, EndPass,
           FoldFirst, FoldNext, FoldEnd, Send
<1>2. (Mergeable(graph) /\ ~AnyDrop)' => Mergeable(graph) /\ ~AnyDrop
    <2>1. Mergeable(graph)' <=> Mergeable(graph)
        BY <1>1
    <2>2. AnyDrop' <=> AnyDrop
        BY <1>1 DEF AnyDrop, DroppedLeaf
    <2> QED
        BY <2>1, <2>2
<1>3. CASE ~(Mergeable(graph) /\ ~AnyDrop)
    BY <1>2, <1>3 DEF ChangesInv
<1>4. CASE Mergeable(graph) /\ ~AnyDrop
    <2>1. ASSUME NEW m \in Mergers, Step(m) PROVE ChangesInv'
        <3>1. ~ResolveToNull(m)
            <4> SUFFICES ASSUME ResolveToNull(m) PROVE FALSE
                OBVIOUS
            <4>1. info[m][Item(m).major] \in Parts(m) /\ info[m][Item(m).minor] \in Parts(m)
                BY DEF ResolveToNull, Available, Parts
            <4> QED
                BY <1>4, <4>1, NoNulls DEF ResolveToNull
        <3> QED
            BY <1>4, <2>1, <3>1, ChangesConvert, ChangesResolve, ChangesSkip, ChangesFoldFirst,
               ChangesFoldNext, ChangesFoldEnd, ChangesSend DEF Step
    <2>2. CASE UNCHANGED vars
        <3>1. \A m \in Mergers : MergeChanges(m) => MergeChanges(m)'
            <4> SUFFICES ASSUME NEW m \in Mergers, MergeChanges(m) PROVE MergeChanges(m)'
                OBVIOUS
            <4>1. /\ Parts(m)' = Parts(m)
                  /\ Covered(m)' = Covered(m) /\ \A r : Full(r)' <=> Full(r)
                BY <2>2 DEF vars, Parts, Covered, Full, Arrived, WritersOf, Writes
            <4> QED
                BY <2>2, <4>1, QuietHolds DEF vars, MergeChanges
        <3> QED
            BY <1>4, <2>2, <3>1, QuietHolds DEF vars, ChangesInv
    <2> QED
        BY <2>1, <2>2 DEF Next
<1> QED
    BY <1>3, <1>4

(***************************************************************************)
(* The inductive invariant on the changes: what a partial result is said   *)
(* to have changed is changed in its bytes, and what a leaf's function     *)
(* wrote is in some packet that each merge has yet to merge.               *)
(***************************************************************************)
THEOREM ChangesInvariance == Spec => []ChangesInv
<1> QED
    BY ChangesInit, ChangesStep, NullInvariance, TypeCorrect, KeysInvariance, PTL DEF Spec

(***************************************************************************)
(* "Pointer to a packet with all changes merged": for every graph and list *)
(* that is Mergeable, and any number of merges that write into each        *)
(* other's packets, no field that some node changed is sent as it came in. *)
(***************************************************************************)
THEOREM ChangesAreMerged == Spec => [](Mergeable(graph) => AllChangesMerged)
<1>1. NullInv /\ ChangesInv => (Mergeable(graph) => AllChangesMerged)
    <2> SUFFICES ASSUME NullInv, ChangesInv, Mergeable(graph),
                        NEW m \in Mergers, NEW r \in result[m], ~r.null,
                        NEW f \in Fields, \E l \in graph.leaves : Arrived(graph, l, f) # AsSent
                 PROVE  r.val[f] # AsSent
        BY DEF AllChangesMerged
    <2>1. ~AnyDrop
        BY DEF NullInv, PartNulls, MergeNulls
    <2> QED
        BY <2>1 DEF ChangesInv, MergeChanges, Full
<1> QED
    BY <1>1, NullInvariance, ChangesInvariance, PTL
-----------------------------------------------------------------------------
(***************************************************************************)
(* Ranks.  f is a field that a, ranked above b, writes.  A packet is low   *)
(* if it has b's write of f.                                               *)
(***************************************************************************)
Low(p, f, b) == Bytes(p).val[f] = b

IsRank(a, b, f, C) ==
    /\ OncePerKey(graph)
    /\ Outranks(graph, a, b) /\ f \in Writes(graph, a)
    /\ Settled(graph, a, b, f, C)

\* No merge makes a leaf's packet low.
LeavesLow(f, b) ==
    \A l \in graph.leaves : leafBuf[l].val[f] = b => Arrived(graph, l, f) = b

\* While conflicts are resolved, low packets are under the keys of C, and b's
\* write is recorded under b only; once they all are, it is recorded nowhere,
\* and a's is.
RankKept(m, f, b, C) ==
    /\ phase[m] = "conflicts" => acc[m] = {}
    /\ phase[m] = "conflicts" =>
          \A k \in DOMAIN info[m] : Low(info[m][k], f, b) =>
             k \in C /\ (f \in info[m][k].fields => k = b)
    /\ phase[m] \in {"fold", "send"} =>
          /\ \A x \in Parts(m) : Low(x, f, b) => C # {} /\ f \notin x.fields
          /\ C # {} => \E x \in Parts(m) : f \in x.fields
    /\ phase[m] = "send" => DOMAIN info[m] = {}
    /\ \A r \in result[m] : r.val[f] # b

RanksKept(f, b, C) == LeavesLow(f, b) /\ \A m \in Mergers : RankKept(m, f, b, C)

RanksInv ==
    ~AnyDrop =>
        \A a, b \in Nodes, f \in Fields, C \in SUBSET Keys(graph) :
            IsRank(a, b, f, C) => RanksKept(f, b, C)
-----------------------------------------------------------------------------
LEMMA LowQuiet ==
    ASSUME UNCHANGED <<graph, leafBuf>>, NEW f, NEW b
    PROVE  /\ LeavesLow(f, b) => LeavesLow(f, b)'
           /\ \A x : Low(x, f, b)' <=> Low(x, f, b)
PROOF
<1>1. \A l : Arrived(graph, l, f)' = Arrived(graph, l, f)
    BY DEF Arrived, WritersOf, Writes
<1>2. ASSUME NEW x PROVE Bytes(x)' = Bytes(x)
    BY DEF Bytes
<1> QED
    BY <1>1, <1>2 DEF LeavesLow, Low

\* A resolution that does not copy b's write makes nothing low, and its result
\* is low only if the major is.
LEMMA ResolveLow ==
    ASSUME Shape, LeafNulls, NEW p, NEW q, IsPartial(p), IsPartial(q), ~IsNull(p, q),
           WriteThrough(p, q), UNCHANGED graph, NEW r, r = Resolved(p, q),
           NEW f \in Fields, NEW b, LeavesLow(f, b),
           Low(q, f, b) /\ f \in q.fields => f \in p.fields
    PROVE  /\ LeavesLow(f, b)'
           /\ Low(r, f, b)' => Low(p, f, b) /\ (f \in q.fields => f \in p.fields)
           /\ \A x : IsPartial(x) /\ Low(x, f, b)' => Low(x, f, b)
PROOF
<1>1. ASSUME NEW l \in graph.leaves, leafBuf'[l].val[f] = b
      PROVE  leafBuf[l].val[f] = b
    <2>1. CASE l # p.home
        BY <1>1, <2>1, ResolvedValues
    <2>2. CASE l = p.home
        <3>1. leafBuf'[l] = Headers(p, q)
            BY <2>2, ResolvedValues
        <3>2. Bytes(p) = leafBuf[l]
            BY <2>2, OwnIsNoLeaf DEF Bytes, Shape
        <3> QED
            BY <1>1, <3>1, <3>2 DEF Headers, Low
    <2> QED
        BY <2>1, <2>2
<1>2. LeavesLow(f, b)'
    <2>1. \A l : Arrived(graph, l, f)' = Arrived(graph, l, f)
        BY DEF Arrived, WritersOf, Writes
    <2> QED
        BY <1>1, <2>1 DEF LeavesLow
<1>3. Low(r, f, b)' => Low(p, f, b) /\ (f \in q.fields => f \in p.fields)
    <2>1. Bytes(r)'.val[f] = IF f \in q.fields \ p.fields
                             THEN Bytes(q).val[f] ELSE Bytes(p).val[f]
        BY ResolvedValues
    <2> QED
        BY <2>1 DEF Low
<1>4. ASSUME NEW x, IsPartial(x), Low(x, f, b)' PROVE Low(x, f, b)
    <2>1. CASE x.home = Own
        BY <1>4, <2>1 DEF Low, Bytes
    <2>2. CASE x.home # Own
        <3>1. x.home \in graph.leaves
            BY <1>4, <2>2 DEF IsPartial
        <3> QED
            BY <1>1, <1>4, <2>2, <3>1 DEF Low, Bytes
    <2> QED
        BY <2>1, <2>2
<1> QED
    BY <1>2, <1>3, <1>4

\* A rank whose lower packet can come to the merger is decided by one item.
LEMMA RankFacts ==
    ASSUME graph \in Graphs, NEW a \in Nodes, NEW b \in Nodes, NEW f \in Fields,
           NEW C \in SUBSET Keys(graph), IsRank(a, b, f, C)
    PROVE  /\ a # b /\ a \notin C
           /\ \A c \in Range(graph.conflicts) : Members(c) = {a, b} => c.major = a /\ c.minor = b
           /\ C # {} => /\ a \in Sure(graph)
                        /\ \A c \in Range(graph.conflicts) :
                              Members(c) \cap {a, b} # {} => Members(c) = {a, b}
PROOF
<1>1. a # b
    BY GraphFacts DEF IsRank, Outranks
<1>2. a # NoParent
    BY GraphFacts DEF NoParent
<1>3. a \notin C
    BY <1>1, <1>2 DEF IsRank, Settled, Carries
<1>4. ASSUME NEW c \in Range(graph.conflicts), Members(c) = {a, b}
      PROVE  c.major = a /\ c.minor = b
    <2>1. ~(c.major = b /\ c.minor = a)
        BY DEF IsRank, Outranks
    <2> QED
        BY <1>1, <1>4, <2>1, GraphFacts DEF Members
<1> QED
    BY <1>1, <1>3, <1>4 DEF IsRank, Settled, Decided

\* Resolving a conflict never copies b's write, and does not record it.
LEMMA ConflictLow ==
    ASSUME graph \in Graphs, NEW a \in Nodes, NEW b \in Nodes, NEW f \in Fields,
           NEW C \in SUBSET Keys(graph), IsRank(a, b, f, C),
           NEW m \in Mergers, phase[m] = "conflicts", RankKept(m, f, b, C), KeysInv,
           NEW c \in Range(graph.conflicts), Members(c) \subseteq DOMAIN info[m],
           NEW p, p = info[m][c.major], NEW q, q = info[m][c.minor]
    PROVE  /\ Low(q, f, b) /\ f \in q.fields => f \in p.fields
           /\ Low(p, f, b) => c.parent \in C /\ f \notin p.fields
           /\ c.parent \in C \cap Nodes /\ f \in Writes(graph, c.parent) => c.parent = b
PROOF
<1>1. c.major \in DOMAIN info[m] /\ c.minor \in DOMAIN info[m]
    BY DEF Members
<1>2. ASSUME Low(q, f, b), f \in q.fields PROVE f \in p.fields
    <2>1. c.minor \in C /\ c.minor = b
        BY <1>1, <1>2 DEF RankKept
    <2>2. c.major = a
        <3>1. b \in Members(c)
            BY <2>1 DEF Members
        <3>2. Members(c) \cap {a, b} # {} /\ C # {}
            BY <2>1, <3>1
        <3> QED
            BY <3>2, RankFacts
    <2>3. Writes(graph, a) \subseteq info[m][a].fields
        BY <1>1, <2>2 DEF KeysInv, KeysOf, KeysUsed, IsRank
    <2> QED
        BY <2>2, <2>3 DEF IsRank
<1>3. ASSUME Low(p, f, b) PROVE c.parent \in C /\ f \notin p.fields
    <2>1. c.major \in C /\ (f \in p.fields => c.major = b)
        BY <1>1, <1>3 DEF RankKept
    <2>2. c.major # a
        BY <2>1, RankFacts
    <2>3. Members(c) # {a, b}
        BY <2>2, RankFacts
    <2>4. c.parent \in C
        BY <2>1, <2>3 DEF IsRank, Settled, Carries, Members
    <2>5. c.major # b
        <3>1. Members(c) \cap {a, b} = {}
            BY <2>1, <2>3, RankFacts
        <3>2. c.major \in Members(c)
            BY DEF Members
        <3> QED
            BY <3>1, <3>2
    <2> QED
        BY <2>1, <2>4, <2>5
<1>4. ASSUME c.parent \in C \cap Nodes, f \in Writes(graph, c.parent) PROVE c.parent = b
    <2>1. c.parent # NoParent
        BY <1>4, GraphFacts DEF NoParent
    <2> QED
        BY <1>4, <2>1 DEF IsRank, Settled, Carries
<1> QED
    BY <1>2, <1>3, <1>4

\* Once a pass has changed nothing, whatever was sure to come has come.
LEMMA SureCame ==
    ASSUME NullInv, TypeOK, NEW m \in Mergers, NEW D \in SUBSET Nodes, KeysUsed(m, D),
           \A c \in Range(graph.conflicts) : ~(Members(c) \subseteq DOMAIN info[m])
    PROVE  Sure(graph) \subseteq D \cup DOMAIN info[m]
PROOF
<1> DEFINE S == D \cup DOMAIN info[m]
<1>1. S \in SUBSET Keys(graph)
    BY DEF TypeOK, Keys, Nodes
<1>2. graph.leaves \subseteq S
    BY DEF KeysUsed
<1>3. ASSUME NEW c \in Range(graph.conflicts), Inseparable(graph, c), Members(c) \subseteq S
      PROVE  c.parent \in S
    <2>1. PICK d \in Members(c) : d \in D
        BY <1>3
    <2>2. PICK e \in Range(graph.conflicts) : d \in Members(e) /\ e.parent \in S
        BY <2>1 DEF KeysUsed
    <2>3. e.parent = c.parent
        BY <1>3, <2>1, <2>2 DEF Inseparable
    <2> QED
        BY <2>2, <2>3
<1> HIDE DEF S
<1>4. Complete(graph, S)
    BY <1>2, <1>3 DEF Complete
<1>5. Sure(graph) \subseteq S
    BY <1>1, <1>4 DEF Sure
<1> QED
    BY <1>5 DEF S

\* A step of merge m keeps a rank if it makes nothing low and keeps what is
\* said of m.
LEMMA RankOthers ==
    ASSUME NullInv, TypeOK, NEW f, NEW b, NEW C, RanksKept(f, b, C), NEW m \in Mergers, Step(m),
           LeavesLow(f, b)', \A x : IsPartial(x) /\ Low(x, f, b)' => Low(x, f, b),
           RankKept(m, f, b, C)'
    PROVE  RanksKept(f, b, C)'
PROOF
<1>1. ASSUME NEW n \in Mergers, n # m PROVE RankKept(n, f, b, C)'
    <2>1. /\ phase'[n] = phase[n] /\ info'[n] = info[n] /\ acc'[n] = acc[n]
          /\ result'[n] = result[n]
        BY <1>1, OthersKept
    <2>2. \A x \in Parts(n) : IsPartial(x)
        BY DEF NullInv, PartNulls, MergeNulls
    <2>3. Parts(n)' = Parts(n) /\ \A k \in DOMAIN info[n] : info[n][k] \in Parts(n)
        BY <2>1 DEF Parts
    <2>4. RankKept(n, f, b, C)
        BY DEF RanksKept
    <2> QED
        BY <2>1, <2>2, <2>3, <2>4 DEF RankKept
<1> QED
    BY <1>1 DEF RanksKept

LEMMA RankConvert ==
    ASSUME NullInv, TypeOK, NEW a \in Nodes, NEW b \in Nodes, NEW f \in Fields,
           NEW C \in SUBSET Keys(graph), IsRank(a, b, f, C), RanksKept(f, b, C),
           NEW m \in Mergers, Convert(m)
    PROVE  RanksKept(f, b, C)'
PROOF
<1> DEFINE part(l) == [home |-> l, own |-> leafBuf[l], fields |-> Writes(graph, l)]
<1>1. UNCHANGED <<graph, leafBuf, acc, result>> /\ graph \in Graphs /\ phase[m] = "convert"
    BY DEF Convert, NullInv, Shape
<1>2. phase'[m] = "conflicts" /\ info'[m] = [l \in graph.leaves |-> part(l)]
    BY DEF Convert, NullInv, Shape
<1>3. acc[m] = {} /\ result[m] = {}
    BY <1>1 DEF NullInv, PartNulls, Tidy, Parts
<1>4. ASSUME NEW l \in graph.leaves, Low(part(l), f, b)
      PROVE  l \in C /\ (f \in Writes(graph, l) => l = b)
    <2>1. leafBuf[l].val[f] = b
        BY <1>4 DEF Low, Bytes
    <2>2. l \in C
        BY <2>1 DEF RanksKept, LeavesLow, IsRank, Settled, Carries
    <2>3. l # NoParent
        BY <1>1, GraphFacts DEF NoParent
    <2> QED
        BY <2>2, <2>3 DEF IsRank, Settled, Carries
<1>5. \A l \in graph.leaves : part(l).fields = Writes(graph, l)
    OBVIOUS
<1> HIDE DEF part
<1>6. LeavesLow(f, b)' /\ \A x : Low(x, f, b)' <=> Low(x, f, b)
    BY <1>1, LowQuiet DEF RanksKept
<1>7. \A k \in DOMAIN info'[m] : Low(info'[m][k], f, b) =>
         k \in C /\ (f \in info'[m][k].fields => k = b)
    BY <1>2, <1>4, <1>5
<1>8. RankKept(m, f, b, C)'
    BY <1>1, <1>2, <1>3, <1>6, <1>7 DEF RankKept
<1> QED
    BY <1>6, <1>8, RankOthers DEF Step

LEMMA RankResolve ==
    ASSUME NullInv, TypeOK, KeysInv, ~AnyDrop, NEW a \in Nodes, NEW b \in Nodes,
           NEW f \in Fields, NEW C \in SUBSET Keys(graph), IsRank(a, b, f, C),
           RanksKept(f, b, C), NEW m \in Mergers, ResolveConflict(m)
    PROVE  RanksKept(f, b, C)'
PROOF
<1>1. UNCHANGED <<graph, dropped, phase, acc, result>> /\ graph \in Graphs
      /\ phase[m] = "conflicts" /\ RankKept(m, f, b, C)
    BY DEF ResolveConflict, AtItem, NullInv, Shape, RanksKept
<1>2. PICK c \in Range(graph.conflicts) :
         /\ Members(c) \subseteq DOMAIN info[m]
         /\ ~IsNull(info[m][c.major], info[m][c.minor])
         /\ WriteThrough(info[m][c.major], info[m][c.minor])
         /\ DOMAIN info'[m] = (DOMAIN info[m] \ Members(c)) \cup {c.parent}
         /\ info'[m][c.parent] = WithParent(Resolved(info[m][c.major], info[m][c.minor]), c.parent)
         /\ \A k \in DOMAIN info[m] \ Members(c) : info'[m][k] = info[m][k]
    BY ItemMerged DEF IsRank
<1>3. PICK p, q : p = info[m][c.major] /\ q = info[m][c.minor]
    OBVIOUS
<1>4. PICK r : r = Resolved(p, q)
    OBVIOUS
<1>5. PICK w : w = WithParent(r, c.parent)
    OBVIOUS
<1>6. p \in Parts(m) /\ q \in Parts(m) /\ \A x \in Parts(m) : IsPartial(x)
    BY <1>2, <1>3 DEF Parts, Members, NullInv, PartNulls, MergeNulls
<1>7. /\ Low(q, f, b) /\ f \in q.fields => f \in p.fields
      /\ Low(p, f, b) => c.parent \in C /\ f \notin p.fields
      /\ c.parent \in C \cap Nodes /\ f \in Writes(graph, c.parent) => c.parent = b
    BY <1>1, <1>2, <1>3, ConflictLow
<1>8. /\ LeavesLow(f, b)'
      /\ Low(r, f, b)' => Low(p, f, b) /\ (f \in q.fields => f \in p.fields)
      /\ \A x : IsPartial(x) /\ Low(x, f, b)' => Low(x, f, b)
    BY <1>1, <1>2, <1>3, <1>4, <1>6, <1>7, ResolveLow DEF NullInv, RanksKept
<1>9. /\ w.home = r.home /\ w.own = r.own
      /\ w.fields = p.fields \cup q.fields
                    \cup IF c.parent \in Nodes THEN Writes(graph, c.parent) ELSE {}
    BY <1>2, <1>3, <1>4, <1>5, WithParentFacts DEF Nodes
<1>10. Low(w, f, b)' => c.parent \in C /\ (f \in w.fields => c.parent = b)
    <2>1. Low(w, f, b)' <=> Low(r, f, b)'
        BY <1>9 DEF Low, Bytes
    <2> QED
        BY <1>7, <1>8, <1>9, <2>1
<1>11. PICK map : map = info'[m]
    OBVIOUS
<1>12. ASSUME NEW k \in DOMAIN map, Low(map[k], f, b)'
       PROVE  k \in C /\ (f \in map[k].fields => k = b)
    <2>1. CASE k = c.parent
        <3>1. map[k] = w
            BY <1>2, <1>3, <1>4, <1>5, <1>11, <2>1
        <3> QED
            BY <1>10, <1>12, <2>1, <3>1
    <2>2. CASE k # c.parent
        <3>1. k \in DOMAIN info[m] /\ map[k] = info[m][k]
            BY <1>2, <1>11, <2>2
        <3>2. IsPartial(map[k])
            BY <1>6, <3>1 DEF Parts
        <3>3. Low(map[k], f, b)
            BY <1>8, <1>12, <3>2
        <3> QED
            BY <1>1, <3>1, <3>3 DEF RankKept
    <2> QED
        BY <2>1, <2>2
<1>13. RankKept(m, f, b, C)'
    <2>1. \A k \in DOMAIN info'[m] :
             (Low(info[m][k], f, b) => k \in C /\ (f \in info[m][k].fields => k = b))'
        BY <1>11, <1>12 DEF Low, Bytes
    <2> QED
        BY <1>1, <2>1 DEF RankKept
<1> QED
    BY <1>8, <1>13, RankOthers DEF Step

LEMMA RankEndPass ==
    ASSUME NullInv, TypeOK, KeysInv, NEW a \in Nodes, NEW b \in Nodes,
           NEW f \in Fields, NEW C \in SUBSET Keys(graph), IsRank(a, b, f, C),
           RanksKept(f, b, C), NEW m \in Mergers, EndPass(m)
    PROVE  RanksKept(f, b, C)'
PROOF
<1>1. UNCHANGED <<graph, leafBuf, info, acc, result>> /\ graph \in Graphs
      /\ phase[m] = "conflicts" /\ RankKept(m, f, b, C) /\ acc[m] = {}
    BY DEF EndPass, NullInv, Shape, RanksKept, RankKept
<1>2. phase'[m] = IF changed[m] THEN "conflicts" ELSE "fold"
    BY DEF EndPass, NullInv, Shape
<1>3. LeavesLow(f, b)' /\ \A x : Low(x, f, b)' <=> Low(x, f, b)
    BY <1>1, LowQuiet DEF RanksKept
<1>4. Parts(m)' = Parts(m) /\ Parts(m) = {info[m][k] : k \in DOMAIN info[m]}
    BY <1>1 DEF Parts
<1>5. CASE changed[m]
    <2>1. RankKept(m, f, b, C)'
        BY <1>1, <1>2, <1>3, <1>5 DEF RankKept
    <2> QED
        BY <1>3, <2>1, RankOthers DEF Step
<1>6. CASE ~changed[m]
    <2>1. \A c \in Range(graph.conflicts) : ~(Members(c) \subseteq DOMAIN info[m])
        <3>1. graph.conflicts \in Seq(Items(Nodes))
            BY <1>1, GraphAssumption DEF IsGraph, Nodes
        <3>2. next[m] \in Nat /\ next[m] > Len(graph.conflicts)
            BY DEF EndPass, TypeOK
        <3>3. \A i \in 1 .. next[m] - 1 : ~(Members(graph.conflicts[i]) \subseteq DOMAIN info[m])
            BY <1>1, <1>6 DEF KeysInv, KeysOf, Passed
        <3>4. \A i \in DOMAIN graph.conflicts : i \in 1 .. next[m] - 1
            BY <3>1, <3>2
        <3> QED
            BY <3>3, <3>4 DEF Range
    <2>2. PICK D \in SUBSET Nodes : KeysUsed(m, D)
        BY <1>1 DEF KeysInv, KeysOf, IsRank
    <2>3. C # {} => a \in D \cup DOMAIN info[m]
        BY <1>1, <2>1, <2>2, RankFacts, SureCame
    <2>4. ASSUME NEW x \in Parts(m), Low(x, f, b) PROVE C # {} /\ f \notin x.fields
        <3>1. PICK k \in DOMAIN info[m] : x = info[m][k]
            BY <1>4
        <3>2. k \in C /\ (f \in x.fields => k = b)
            BY <1>1, <2>4, <3>1 DEF RankKept
        <3>3. ASSUME b \in DOMAIN info[m] PROVE FALSE
            <4>1. /\ a # b
                  /\ \A c \in Range(graph.conflicts) :
                        Members(c) \cap {a, b} # {} => Members(c) = {a, b}
                BY <1>1, <3>2, RankFacts
            <4>2. PICK c \in Range(graph.conflicts) : c.major = a /\ c.minor = b
                BY DEF IsRank, Outranks
            <4>3. a \notin DOMAIN info[m]
                BY <2>1, <3>3, <4>2 DEF Members
            <4>4. a \in D
                BY <2>3, <3>2, <4>3
            <4>5. PICK e \in Range(graph.conflicts) : a \in Members(e) /\ Members(e) \subseteq D
                BY <2>2, <4>4 DEF KeysUsed
            <4>6. b \in D
                BY <4>1, <4>5
            <4> QED
                BY <2>2, <3>3, <4>6 DEF KeysUsed
        <3> QED
            BY <3>1, <3>2, <3>3
    <2>5. C # {} => \E x \in Parts(m) : f \in x.fields
        <3>1. CASE a \in D
            BY <2>2, <3>1 DEF KeysUsed, IsRank
        <3>2. CASE a \in DOMAIN info[m]
            BY <1>4, <2>2, <3>2 DEF KeysUsed, IsRank
        <3> QED
            BY <2>3, <3>1, <3>2
    <2>6. RankKept(m, f, b, C)'
        BY <1>1, <1>2, <1>3, <1>4, <1>6, <2>4, <2>5 DEF RankKept
    <2> QED
        BY <1>3, <2>6, RankOthers DEF Step
<1> QED
    BY <1>5, <1>6

\* The steps that write to no packet and leave a merge with the packets it had.
LEMMA RankQuiet ==
    ASSUME NullInv, TypeOK, NEW f, NEW b, NEW C, RanksKept(f, b, C), NEW m \in Mergers,
           NEW k, SkipConflict(m) \/ FoldFirst(m, k) \/ FoldEnd(m)
    PROVE  RanksKept(f, b, C)'
PROOF
<1>1. UNCHANGED <<graph, leafBuf, result>> /\ RankKept(m, f, b, C) /\ Step(m)
    BY DEF SkipConflict, FoldFirst, FirstKey, FoldEnd, Step, RanksKept
<1>2. LeavesLow(f, b)' /\ \A x : Low(x, f, b)' <=> Low(x, f, b)
    BY <1>1, LowQuiet DEF RanksKept
<1>3. CASE SkipConflict(m)
    <2>1. UNCHANGED <<phase, info, acc>>
        BY <1>3 DEF SkipConflict
    <2> QED
        BY <1>1, <1>2, <2>1, RankOthers DEF RankKept, Parts
<1>4. CASE FoldFirst(m, k)
    <2>1. phase' = phase /\ phase[m] = "fold" /\ acc[m] = {} /\ k \in DOMAIN info[m]
        BY <1>4 DEF FoldFirst, FirstKey
    <2>2. acc'[m] = {info[m][k]} /\ info'[m] = MapErase(info[m], {k})
        BY <1>4 DEF FoldFirst, NullInv, Shape
    <2>3. info'[m] = [j \in DOMAIN info[m] \ {k} |-> info[m][j]]
        BY <2>2 DEF MapErase, Restrict
    <2>4. Parts(m)' = Parts(m)
        BY <2>1, <2>2, <2>3 DEF Parts
    <2>5. RankKept(m, f, b, C)'
        BY <1>1, <1>2, <2>1, <2>4 DEF RankKept
    <2> QED
        BY <1>1, <1>2, <2>5, RankOthers
<1>5. CASE FoldEnd(m)
    <2>1. /\ UNCHANGED <<info, acc>> /\ phase[m] = "fold" /\ phase'[m] = "send"
          /\ DOMAIN info[m] = {}
        BY <1>5 DEF FoldEnd, NullInv, Shape
    <2>2. Parts(m)' = Parts(m)
        BY <2>1 DEF Parts
    <2>3. RankKept(m, f, b, C)'
        BY <1>1, <1>2, <2>1, <2>2 DEF RankKept
    <2> QED
        BY <1>1, <1>2, <2>3, RankOthers
<1> QED
    BY <1>3, <1>4, <1>5

LEMMA RankFoldNext ==
    ASSUME NullInv, TypeOK, ~AnyDrop, NEW f \in Fields, NEW b, NEW C, RanksKept(f, b, C),
           NEW m \in Mergers, NEW k \in DOMAIN info[m], FoldNext(m, k)
    PROVE  RanksKept(f, b, C)'
PROOF
<1>1. UNCHANGED <<graph, phase, result>> /\ phase[m] = "fold" /\ RankKept(m, f, b, C) /\ Step(m)
    BY DEF FoldNext, RanksKept, Step
<1>2. PICK p \in acc[m] : /\ WriteThrough(p, info[m][k])
                          /\ acc' = [acc EXCEPT ![m] = {Resolved(p, info[m][k])}]
    BY DEF FoldNext
<1>3. PICK q : q = info[m][k]
    OBVIOUS
<1>4. PICK r : r = Resolved(p, q)
    OBVIOUS
<1>5. /\ p \in Parts(m) /\ q \in Parts(m) /\ ~IsNull(p, q)
      /\ \A x \in Parts(m) : IsPartial(x)
    <2>1. p \in Parts(m) /\ q \in Parts(m)
        BY <1>3 DEF Parts
    <2> QED
        BY <2>1, NoNulls
<1>6. acc'[m] = {r} /\ \A x, y \in acc[m] : x = y
    BY <1>2, <1>3, <1>4 DEF NullInv, Shape, PartNulls, Tidy
<1>7. info'[m] = [j \in DOMAIN info[m] \ {k} |-> info[m][j]]
    <2>1. info'[m] = MapErase(info[m], {k})
        BY DEF FoldNext, NullInv, Shape
    <2> QED
        BY <2>1 DEF MapErase, Restrict
<1>8. \A x \in Parts(m) : Low(x, f, b) => C # {} /\ f \notin x.fields
    BY <1>1 DEF RankKept
<1>9. /\ LeavesLow(f, b)'
      /\ Low(r, f, b)' => Low(p, f, b) /\ (f \in q.fields => f \in p.fields)
      /\ \A x : IsPartial(x) /\ Low(x, f, b)' => Low(x, f, b)
    <2>1. Low(q, f, b) /\ f \in q.fields => f \in p.fields
        BY <1>5, <1>8
    <2> QED
        BY <1>1, <1>2, <1>3, <1>4, <1>5, <2>1, ResolveLow DEF NullInv, RanksKept
<1>10. r.fields = p.fields \cup q.fields
    BY <1>4, <1>5 DEF Resolved
<1>11. /\ Parts(m)' = {info[m][j] : j \in DOMAIN info[m] \ {k}} \cup {r}
       /\ \A x \in Parts(m)' : x \in Parts(m) \/ x = r
       /\ \A x \in Parts(m) : x \in Parts(m)' \/ x = p \/ x = q
    <2>1. Parts(m)' = {info[m][j] : j \in DOMAIN info[m] \ {k}} \cup {r}
        BY <1>6, <1>7 DEF Parts
    <2>2. \A x \in Parts(m)' : x \in Parts(m) \/ x = r
        BY <2>1 DEF Parts
    <2>3. \A x \in Parts(m) : x \in Parts(m)' \/ x = p \/ x = q
        BY <1>3, <1>6, <2>1 DEF Parts
    <2> QED
        BY <2>1, <2>2, <2>3
<1>12. PICK X : X = Parts(m)'
    OBVIOUS
<1>13. \A x \in X : Low(x, f, b)' => C # {} /\ f \notin x.fields
    <2> SUFFICES ASSUME NEW x \in X, Low(x, f, b)' PROVE C # {} /\ f \notin x.fields
        OBVIOUS
    <2>1. CASE x = r
        BY <1>5, <1>8, <1>9, <1>10, <2>1
    <2>2. CASE x \in Parts(m)
        BY <1>5, <1>8, <1>9, <2>2
    <2> QED
        BY <1>11, <1>12, <2>1, <2>2
<1>14. C # {} => \E x \in X : f \in x.fields
    <2> SUFFICES ASSUME C # {} PROVE \E x \in X : f \in x.fields
        OBVIOUS
    <2>1. PICK x \in Parts(m) : f \in x.fields
        BY <1>1 DEF RankKept
    <2> QED
        BY <1>10, <1>11, <1>12, <2>1
<1>15. RankKept(m, f, b, C)'
    <2>1. \A x \in Parts(m)' : (Low(x, f, b) => C # {} /\ f \notin x.fields)'
        BY <1>12, <1>13
    <2> QED
        BY <1>1, <1>12, <1>14, <2>1 DEF RankKept
<1> QED
    BY <1>1, <1>9, <1>15, RankOthers

LEMMA RankSend ==
    ASSUME NullInv, TypeOK, NEW f, NEW b, NEW C, RanksKept(f, b, C), NEW m \in Mergers, Send(m)
    PROVE  RanksKept(f, b, C)'
PROOF
<1>1. UNCHANGED <<graph, leafBuf, info, acc>> /\ RankKept(m, f, b, C) /\ Step(m)
    BY DEF Send, Step, RanksKept
<1>2. /\ phase[m] = "send" /\ phase'[m] = "sent"
      /\ result'[m] = {Bytes(p) : p \in acc[m]}
    BY DEF Send, NullInv, Shape
<1>3. LeavesLow(f, b)' /\ \A x : Low(x, f, b)' <=> Low(x, f, b)
    BY <1>1, LowQuiet DEF RanksKept
<1>4. Parts(m) = acc[m] /\ \A x, y \in acc[m] : x = y
    BY <1>1, <1>2 DEF Parts, RankKept, NullInv, PartNulls, Tidy
<1>5. ASSUME NEW p \in acc[m], Low(p, f, b) PROVE FALSE
    BY <1>1, <1>2, <1>4, <1>5 DEF RankKept
<1>6. \A r \in result'[m] : r.val[f] # b
    BY <1>2, <1>5 DEF Low
<1>7. RankKept(m, f, b, C)'
    BY <1>2, <1>6 DEF RankKept
<1> QED
    BY <1>1, <1>3, <1>7, RankOthers

LEMMA RanksInit == Init => RanksInv
PROOF
<1> SUFFICES ASSUME Init, NEW f \in Fields, NEW b, NEW C PROVE RanksKept(f, b, C)
    BY DEF RanksInv
<1>1. LeavesLow(f, b)
    BY DEF Init, LeavesLow, LeafPacket
<1>2. \A m \in Mergers : RankKept(m, f, b, C)
    BY DEF Init, RankKept
<1> QED
    BY <1>1, <1>2 DEF RanksKept

LEMMA RanksStep == NullInv /\ TypeOK /\ KeysInv /\ RanksInv /\ [Next]_vars => RanksInv'
PROOF
<1> SUFFICES ASSUME NullInv, TypeOK, KeysInv, RanksInv, [Next]_vars PROVE RanksInv'
    OBVIOUS
<1>1. UNCHANGED <<graph, dropped>> /\ (AnyDrop' <=> AnyDrop)
    <2>1. UNCHANGED <<graph, dropped>>
        BY DEF Next, Step, vars, Convert, ResolveConflict, ResolveToNull, SkipConflict, EndPass,
               FoldFirst, FoldNext, FoldEnd, Send
    <2> QED
        BY <2>1 DEF AnyDrop, DroppedLeaf
<1> SUFFICES ASSUME ~AnyDrop, NEW a \in Nodes, NEW b \in Nodes, NEW f \in Fields,
                    NEW C \in SUBSET Keys(graph), IsRank(a, b, f, C)
             PROVE  RanksKept(f, b, C)'
    BY <1>1 DEF RanksInv, Nodes, IsRank
<1>2. RanksKept(f, b, C)
    BY DEF RanksInv
<1>3. ASSUME NEW m \in Mergers, Step(m) PROVE RanksKept(f, b, C)'
    <2>1. ~ResolveToNull(m)
        <3> SUFFICES ASSUME ResolveToNull(m) PROVE FALSE
            OBVIOUS
        <3>1. info[m][Item(m).major] \in Parts(m) /\ info[m][Item(m).minor] \in Parts(m)
            BY DEF ResolveToNull, Available, Parts
        <3> QED
            BY <3>1, NoNulls DEF ResolveToNull
    <2> QED
        BY <1>2, <1>3, <2>1, RankConvert, RankResolve, RankEndPass, RankQuiet, RankFoldNext,
           RankSend DEF Step
<1>4. CASE UNCHANGED vars
    <2>1. LeavesLow(f, b)' /\ \A x : Low(x, f, b)' <=> Low(x, f, b)
        BY <1>2, <1>4, LowQuiet DEF vars, RanksKept
    <2>2. ASSUME NEW m \in Mergers PROVE RankKept(m, f, b, C)'
        <3>1. RankKept(m, f, b, C) /\ Parts(m)' = Parts(m)
            BY <1>2, <1>4 DEF vars, RanksKept, Parts
        <3> QED
            BY <1>4, <2>1, <3>1 DEF vars, RankKept
    <2> QED
        BY <2>1, <2>2 DEF RanksKept
<1> QED
    BY <1>3, <1>4 DEF Next

(***************************************************************************)
(* The inductive invariant on the ranks: until a ranked pair is resolved   *)
(* the lower write is recorded under its own key only, and once a merge    *)
(* comes to its fold it is recorded nowhere while the higher one is.       *)
(***************************************************************************)
THEOREM RanksInvariance == Spec => []RanksInv
<1> QED
    BY RanksInit, RanksStep, NullInvariance, TypeCorrect, KeysInvariance, PTL DEF Spec

(***************************************************************************)
(* "The packet with precedence" has it: for every graph whose conflict     *)
(* list settles its ranks, and any number of merges that write into each   *)
(* other's packets, the write of the function that the list ranks lower is *)
(* not what is sent.                                                       *)
(***************************************************************************)
THEOREM RanksAreKept == Spec => [](Settles(graph) => MajorWins)
<1>1. NullInv /\ RanksInv => (Settles(graph) => MajorWins)
    <2> SUFFICES ASSUME NullInv, RanksInv, Settles(graph), NEW m \in Mergers,
                        NEW r \in result[m], ~r.null, NEW f \in Fields, NEW a \in Nodes,
                        NEW b \in Nodes, Outranks(graph, a, b), f \in Writes(graph, a)
                 PROVE  r.val[f] # b
        BY DEF MajorWins
    <2>1. ~AnyDrop
        BY DEF NullInv, PartNulls, MergeNulls
    <2>2. PICK C \in SUBSET Keys(graph) : Settled(graph, a, b, f, C)
        BY DEF Settles, Nodes
    <2>3. IsRank(a, b, f, C)
        BY <2>2 DEF IsRank, Settles
    <2> QED
        BY <2>1, <2>3 DEF RanksInv, RanksKept, RankKept
<1> QED
    BY <1>1, NullInvariance, RanksInvariance, PTL
=============================================================================
