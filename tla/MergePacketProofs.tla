------------------------- MODULE MergePacketProofs -------------------------
(***************************************************************************)
(* Theorems about merge_packet, for every service graph and conflict list  *)
(* and any number of merges of one id at a time.                           *)
(***************************************************************************)
EXTENDS MergePacket, FiniteSetTheorems, TLAPS

AnyDrop == \E l \in graph.leaves : DroppedLeaf(l)

IsBuffer(b) == b = [null |-> b.null, val |-> b.val] /\ b.null \in BOOLEAN

\* A partial result of some merge; it is null only if some leaf's copy was.
IsPartial(p) ==
    /\ p = [home |-> p.home, own |-> p.own, fields |-> p.fields]
    /\ p.home \in graph.leaves \cup {Own}
    /\ IsBuffer(p.own)
    /\ Bytes(p).null => AnyDrop

Parts(m) == {info[m][k] : k \in DOMAIN info[m]} \cup acc[m]

Shape ==
    /\ graph \in Graphs
    /\ leafBuf = [l \in graph.leaves |-> leafBuf[l]]
    /\ phase \in [Mergers -> Phases]
    /\ info = [m \in Mergers |-> info[m]]
    /\ acc = [m \in Mergers |-> acc[m]]
    /\ result = [m \in Mergers |-> result[m]]

\* The leaves' packets: every dropped one is null, and none is unless some is.
LeafNulls ==
    \A l \in graph.leaves :
       /\ IsBuffer(leafBuf[l])
       /\ leafBuf[l].null => AnyDrop
       /\ DroppedLeaf(l) => leafBuf[l].null

\* If a leaf's copy was dropped, merge m still has a null packet to merge, and
\* what it is about to send, or has sent, is null; if none was, it is not.
MergeNulls(m) ==
    /\ \A p \in Parts(m) : IsPartial(p)
    /\ phase[m] \in {"conflicts", "fold"} /\ AnyDrop => \E p \in Parts(m) : Bytes(p).null
    /\ phase[m] = "send" => \A p \in acc[m] : AnyDrop => Bytes(p).null
    /\ \A r \in result[m] : r.null <=> AnyDrop

\* Merge m has at most one merged_packet, and none of its own before it starts.
Tidy(m) ==
    /\ \A p, q \in acc[m] : p = q
    /\ phase[m] = "convert" => Parts(m) = {}
    /\ phase[m] # "sent" => result[m] = {}

PartNulls == \A m \in Mergers : MergeNulls(m) /\ Tidy(m)

NullInv == Shape /\ LeafNulls /\ PartNulls
-----------------------------------------------------------------------------
LEMMA OwnIsNoLeaf == ASSUME graph \in Graphs PROVE Own \notin graph.leaves
BY GraphAssumption DEF IsGraph, Own

\* The bytes of a partial result are a packet.
LEMMA BytesBuffer ==
    ASSUME Shape, LeafNulls, NEW p, IsPartial(p)
    PROVE  IsBuffer(Bytes(p))
BY DEF IsPartial, LeafNulls, Bytes

\* Copying header fields changes no null mark.
LEMMA HeadersNull ==
    ASSUME NEW p, NEW q, IsBuffer(Bytes(p))
    PROVE  IsBuffer(Headers(p, q)) /\ Headers(p, q).null = Bytes(p).null
BY DEF Headers, IsBuffer

LEMMA NullifiedNull ==
    ASSUME NEW b PROVE IsBuffer(Nullified(b)) /\ Nullified(b).null
BY DEF Nullified, IsBuffer

LEMMA WithPayloadNull ==
    ASSUME NEW b, NEW c, IsBuffer(b)
    PROVE  IsBuffer(WithPayload(b, c)) /\ WithPayload(b, c).null = b.null
BY DEF WithPayload, IsBuffer

\* What a resolution of p and q does: it leaves every leaf's packet as null
\* as it was, or more so, and gives a partial result that is null if p or q is.
LEMMA ResolveFacts ==
    ASSUME Shape, LeafNulls, NEW p, NEW q, IsPartial(p), IsPartial(q),
           WriteThrough(p, q), UNCHANGED <<graph, dropped>>,
           NEW r, r = Resolved(p, q)
    PROVE  /\ leafBuf' = [l \in graph.leaves |-> leafBuf'[l]]
           /\ \A l \in graph.leaves : leafBuf[l].null => leafBuf'[l].null
           /\ LeafNulls'
           /\ IsPartial(r)'
           /\ IsNull(p, q) => Bytes(r)'.null
PROOF
<1> DEFINE b == Bytes(p)
<1>1. IsBuffer(b) /\ IsBuffer(Bytes(q))
    BY BytesBuffer
<1>2. IsBuffer(Headers(p, q)) /\ Headers(p, q).null = b.null
    BY <1>1, HeadersNull
<1>3. AnyDrop' <=> AnyDrop
    BY DEF AnyDrop, DroppedLeaf
<1>4. IsNull(p, q) => AnyDrop
    BY DEF IsNull, IsPartial
<1>5. p.home \in graph.leaves \/ p.home = Own
    BY DEF IsPartial
<1>6. ASSUME NEW l \in graph.leaves
      PROVE  /\ IsBuffer(leafBuf'[l])
             /\ leafBuf[l].null => leafBuf'[l].null
             /\ leafBuf'[l].null => AnyDrop
    <2>1. CASE l # p.home
        <3>1. leafBuf'[l] = leafBuf[l]
            BY <2>1 DEF WriteThrough, Shape
        <3> QED
            BY <3>1 DEF LeafNulls
    <2>2. CASE l = p.home /\ IsNull(p, q)
        <3>1. leafBuf'[l] = Nullified(leafBuf[l])
            BY <2>2, OwnIsNoLeaf DEF WriteThrough, Shape
        <3> QED
            BY <2>2, <3>1, <1>4, NullifiedNull
    <2>3. CASE l = p.home /\ ~IsNull(p, q)
        <3>1. leafBuf'[l] = Headers(p, q)
            BY <2>3, OwnIsNoLeaf DEF WriteThrough, Shape
        <3>2. b = leafBuf[l]
            BY <2>3, OwnIsNoLeaf DEF Bytes, Shape
        <3> QED
            BY <1>2, <3>1, <3>2 DEF LeafNulls
    <2> QED
        BY <2>1, <2>2, <2>3
<1>7. leafBuf' = [l \in graph.leaves |-> leafBuf'[l]]
    <2>1. CASE p.home = Own
        BY <2>1 DEF WriteThrough, Shape
    <2>2. CASE p.home # Own
        BY <2>2 DEF WriteThrough, Shape
    <2> QED
        BY <2>1, <2>2
<1>8. LeafNulls'
    BY <1>3, <1>6 DEF LeafNulls, DroppedLeaf
<1>9. /\ r = [home |-> r.home, own |-> r.own, fields |-> r.fields]
      /\ r.home \in {p.home, Own}
      /\ IsBuffer(r.own)
      /\ r.own.null <=> IsNull(p, q)
    <2>1. CASE IsNull(p, q)
        <3>1. r = [home |-> p.home, own |-> Nullified(b), fields |-> {}]
            BY <2>1 DEF Resolved
        <3>2. IsBuffer(Nullified(b)) /\ Nullified(b).null
            BY NullifiedNull
        <3> QED
            BY <2>1, <3>1, <3>2
    <2>2. CASE ~IsNull(p, q)
        <3> DEFINE h == Headers(p, q)
                   o == IF CopiesPayload(p, q) THEN WithPayload(h, Bytes(q)) ELSE h
        <3>1. r = [home |-> IF CopiesPayload(p, q) THEN Own ELSE p.home,
                   own |-> o, fields |-> p.fields \cup q.fields]
            BY <2>2 DEF Resolved
        <3>2. h.null = FALSE
            BY <1>1, <1>2, <2>2 DEF IsNull, IsBuffer
        <3>3. IsBuffer(o) /\ o.null = FALSE
            BY <1>2, <3>2, WithPayloadNull
        <3> HIDE DEF o
        <3> QED
            BY <2>2, <3>1, <3>3
    <2> QED
        BY <2>1, <2>2
<1>10. Bytes(r)' = IF r.home = Own THEN r.own ELSE leafBuf'[r.home]
    BY DEF Bytes
<1>11. IsNull(p, q) => Bytes(r)'.null
    <2> SUFFICES ASSUME IsNull(p, q) PROVE Bytes(r)'.null
        OBVIOUS
    <2>1. CASE r.home = Own
        BY <1>9, <1>10, <2>1
    <2>2. CASE r.home # Own
        <3>1. r.home = p.home /\ p.home \in graph.leaves
            BY <1>5, <1>9, <2>2
        <3>2. leafBuf'[p.home] = Nullified(leafBuf[p.home])
            BY <3>1, <2>2 DEF WriteThrough, Shape
        <3>3. leafBuf'[p.home].null
            BY <3>2, NullifiedNull
        <3> QED
            BY <1>10, <2>2, <3>1, <3>3
    <2> QED
        BY <2>1, <2>2
<1>12. IsPartial(r)'
    <2>1. r.home \in graph'.leaves \cup {Own}
        BY <1>5, <1>9
    <2>2. Bytes(r)'.null => AnyDrop
        BY <1>4, <1>5, <1>6, <1>9, <1>10
    <2> QED
        BY <1>3, <1>9, <2>1, <2>2 DEF IsPartial
<1> QED
    BY <1>6, <1>7, <1>8, <1>11, <1>12

\* A partial result of any merge stays one, and stays null if it is.
LEMMA PartialKept ==
    ASSUME Shape, NEW p, IsPartial(p), UNCHANGED <<graph, dropped>>,
           LeafNulls', \A l \in graph.leaves : leafBuf[l].null => leafBuf'[l].null
    PROVE  IsPartial(p)' /\ (Bytes(p).null => Bytes(p)'.null)
PROOF
<1>1. AnyDrop' <=> AnyDrop
    BY DEF AnyDrop, DroppedLeaf
<1>2. CASE p.home = Own
    BY <1>1, <1>2 DEF IsPartial, Bytes
<1>3. CASE p.home \in graph.leaves /\ p.home # Own
    BY <1>1, <1>3 DEF IsPartial, Bytes, LeafNulls
<1> QED
    BY <1>2, <1>3 DEF IsPartial

\* What one merge does to the leaves' packets does not harm another merge.
LEMMA UntouchedMerge ==
    ASSUME NullInv, UNCHANGED <<graph, dropped>>, LeafNulls',
           \A l \in graph.leaves : leafBuf[l].null => leafBuf'[l].null,
           NEW n \in Mergers, phase'[n] = phase[n], info'[n] = info[n],
           acc'[n] = acc[n], result'[n] = result[n]
    PROVE  MergeNulls(n)' /\ Tidy(n)'
PROOF
<1>1. AnyDrop' <=> AnyDrop
    BY DEF AnyDrop, DroppedLeaf
<1>2. Parts(n)' = Parts(n)
    BY DEF Parts
<1>3. ASSUME NEW p \in Parts(n)
      PROVE  IsPartial(p)' /\ (Bytes(p).null => Bytes(p)'.null)
    <2>1. IsPartial(p)
        BY DEF NullInv, PartNulls, MergeNulls
    <2> QED
        BY <2>1, PartialKept DEF NullInv
<1>4. acc[n] \subseteq Parts(n)
    BY DEF Parts
<1>5. MergeNulls(n) /\ Tidy(n)
    BY DEF NullInv, PartNulls
<1>6. MergeNulls(n)'
    BY <1>1, <1>2, <1>3, <1>4, <1>5 DEF MergeNulls
<1> QED
    BY <1>2, <1>5, <1>6 DEF Tidy

LEMMA QuietLeaves ==
    ASSUME NullInv, UNCHANGED <<graph, dropped, leafBuf>>
    PROVE  /\ LeafNulls'
           /\ \A l \in graph.leaves : leafBuf[l].null => leafBuf'[l].null
           /\ AnyDrop' <=> AnyDrop
           /\ \A p : IsPartial(p)' <=> IsPartial(p)
           /\ \A p : Bytes(p)' = Bytes(p)
PROOF
<1>1. AnyDrop' <=> AnyDrop
    BY DEF AnyDrop, DroppedLeaf
<1>2. ASSUME NEW p PROVE Bytes(p)' = Bytes(p)
    BY DEF Bytes
<1>3. ASSUME NEW p PROVE IsPartial(p)' <=> IsPartial(p)
    BY <1>1, <1>2 DEF IsPartial
<1> QED
    BY <1>1, <1>2, <1>3 DEF NullInv, LeafNulls, DroppedLeaf
-----------------------------------------------------------------------------
LEMMA SkipConflictStep ==
    ASSUME NullInv, NEW m \in Mergers, SkipConflict(m)
    PROVE  NullInv'
PROOF
<1>1. UNCHANGED <<graph, dropped>>
    BY DEF SkipConflict
<1>2. Shape'
    BY DEF SkipConflict, NullInv, Shape, Phases
<1>3. /\ LeafNulls'
      /\ \A l \in graph.leaves : leafBuf[l].null => leafBuf'[l].null
    BY QuietLeaves DEF SkipConflict
<1>4. ASSUME NEW n \in Mergers, n # m PROVE MergeNulls(n)' /\ Tidy(n)'
    BY <1>1, <1>3, <1>4, UntouchedMerge DEF SkipConflict, NullInv, Shape
<1>5. MergeNulls(m)'
    BY QuietLeaves DEF SkipConflict, NullInv, PartNulls, MergeNulls, Parts
<1>6. Tidy(m)'
    <2>1. Parts(m)' = Parts(m)
        BY DEF SkipConflict, Parts
    <2> QED
        BY <2>1 DEF SkipConflict, NullInv, PartNulls, Tidy
<1> QED
    BY <1>2, <1>3, <1>4, <1>5, <1>6 DEF NullInv, PartNulls

LEMMA EndPassStep ==
    ASSUME NullInv, NEW m \in Mergers, EndPass(m)
    PROVE  NullInv'
PROOF
<1>1. UNCHANGED <<graph, dropped>>
    BY DEF EndPass
<1>2. Shape'
    BY DEF EndPass, NullInv, Shape, Phases
<1>3. /\ LeafNulls'
      /\ \A l \in graph.leaves : leafBuf[l].null => leafBuf'[l].null
    BY QuietLeaves DEF EndPass
<1>4. ASSUME NEW n \in Mergers, n # m PROVE MergeNulls(n)' /\ Tidy(n)'
    BY <1>1, <1>3, <1>4, UntouchedMerge DEF EndPass, NullInv, Shape
<1>5. MergeNulls(m)'
    <2>1. phase[m] = "conflicts" /\ phase'[m] \in {"conflicts", "fold"}
        BY DEF EndPass, NullInv, Shape
    <2> QED
        BY <2>1, QuietLeaves DEF EndPass, NullInv, PartNulls, MergeNulls, Parts
<1>6. Tidy(m)'
    BY DEF EndPass, NullInv, Shape, PartNulls, Tidy, Parts
<1> QED
    BY <1>2, <1>3, <1>4, <1>5, <1>6 DEF NullInv, PartNulls

LEMMA FoldEndStep ==
    ASSUME NullInv, NEW m \in Mergers, FoldEnd(m)
    PROVE  NullInv'
PROOF
<1>1. UNCHANGED <<graph, dropped>>
    BY DEF FoldEnd
<1>2. Shape'
    BY DEF FoldEnd, NullInv, Shape, Phases
<1>3. /\ LeafNulls'
      /\ \A l \in graph.leaves : leafBuf[l].null => leafBuf'[l].null
    BY QuietLeaves DEF FoldEnd
<1>4. ASSUME NEW n \in Mergers, n # m PROVE MergeNulls(n)' /\ Tidy(n)'
    BY <1>1, <1>3, <1>4, UntouchedMerge DEF FoldEnd, NullInv, Shape
<1>5. MergeNulls(m)'
    <2>1. phase[m] = "fold" /\ phase'[m] = "send"
        BY DEF FoldEnd, NullInv, Shape
    <2>2. Parts(m) = acc[m] /\ Parts(m)' = acc[m]
        BY DEF FoldEnd, Parts
    <2>3. \A p, q \in acc[m] : p = q
        BY DEF NullInv, PartNulls, Tidy
    <2>4. MergeNulls(m)
        BY DEF NullInv, PartNulls
    <2> QED
        BY <2>1, <2>2, <2>3, <2>4, QuietLeaves DEF FoldEnd, MergeNulls
<1>6. Tidy(m)'
    BY DEF FoldEnd, NullInv, Shape, PartNulls, Tidy, Parts
<1> QED
    BY <1>2, <1>3, <1>4, <1>5, <1>6 DEF NullInv, PartNulls

LEMMA SendStep ==
    ASSUME NullInv, NEW m \in Mergers, Send(m)
    PROVE  NullInv'
PROOF
<1>1. UNCHANGED <<graph, dropped>>
    BY DEF Send
<1>2. Shape'
    BY DEF Send, NullInv, Shape, Phases
<1>3. /\ LeafNulls'
      /\ \A l \in graph.leaves : leafBuf[l].null => leafBuf'[l].null
    BY QuietLeaves DEF Send
<1>4. ASSUME NEW n \in Mergers, n # m PROVE MergeNulls(n)' /\ Tidy(n)'
    BY <1>1, <1>3, <1>4, UntouchedMerge DEF Send, NullInv, Shape
<1>5. MergeNulls(m)'
    <2>1. phase[m] = "send" /\ phase'[m] = "sent"
        BY DEF Send, NullInv, Shape
    <2>2. result'[m] = {Bytes(p) : p \in acc[m]} /\ Parts(m)' = Parts(m)
        BY DEF Send, NullInv, Shape, Parts
    <2>3. MergeNulls(m) /\ acc[m] \subseteq Parts(m)
        BY DEF NullInv, PartNulls, Parts
    <2>4. ASSUME NEW r \in result'[m] PROVE r.null <=> AnyDrop
        <3>1. PICK p \in acc[m] : r = Bytes(p)
            BY <2>2
        <3> QED
            BY <2>1, <2>3, <3>1 DEF MergeNulls, IsPartial
    <2> QED
        BY <2>1, <2>2, <2>3, <2>4, QuietLeaves DEF Send, MergeNulls
<1>6. Tidy(m)'
    BY DEF Send, NullInv, Shape, PartNulls, Tidy, Parts
<1> QED
    BY <1>2, <1>3, <1>4, <1>5, <1>6 DEF NullInv, PartNulls

LEMMA ConvertStep ==
    ASSUME NullInv, NEW m \in Mergers, Convert(m)
    PROVE  NullInv'
PROOF
<1>1. UNCHANGED <<graph, dropped>>
    BY DEF Convert
<1>2. Shape'
    BY DEF Convert, NullInv, Shape, Phases
<1>3. /\ LeafNulls'
      /\ \A l \in graph.leaves : leafBuf[l].null => leafBuf'[l].null
    BY QuietLeaves DEF Convert
<1>4. ASSUME NEW n \in Mergers, n # m PROVE MergeNulls(n)' /\ Tidy(n)'
    BY <1>1, <1>3, <1>4, UntouchedMerge DEF Convert, NullInv, Shape
<1>5. MergeNulls(m)'
    <2> DEFINE part(l) == [home |-> l, own |-> leafBuf[l], fields |-> Writes(graph, l)]
    <2>1. phase[m] = "convert" /\ phase'[m] = "conflicts" /\ result'[m] = {}
        BY DEF Convert, NullInv, Shape, PartNulls, Tidy
    <2>2. Parts(m)' = {part(l) : l \in graph.leaves}
        <3>1. acc'[m] = {}
            BY <2>1 DEF Convert, NullInv, PartNulls, Tidy, Parts
        <3>2. info'[m] = [l \in graph.leaves |-> part(l)]
            BY DEF Convert, NullInv, Shape
        <3> HIDE DEF part
        <3> QED
            BY <3>1, <3>2 DEF Parts
    <2>3. ASSUME NEW l \in graph.leaves
          PROVE  IsPartial(part(l)) /\ Bytes(part(l)) = leafBuf[l]
        <3>1. Bytes(part(l)) = leafBuf[l]
            BY DEF Bytes
        <3> QED
            BY <3>1 DEF IsPartial, NullInv, LeafNulls
    <2> HIDE DEF part
    <2>4. AnyDrop => \E l \in graph.leaves : leafBuf[l].null
        BY DEF AnyDrop, NullInv, LeafNulls
    <2> QED
        BY <2>1, <2>2, <2>3, <2>4, QuietLeaves DEF Convert, MergeNulls
<1>6. Tidy(m)'
    <2>1. phase[m] = "convert" /\ phase'[m] = "conflicts"
        BY DEF Convert, NullInv, Shape
    <2> QED
        BY <2>1 DEF Convert, NullInv, PartNulls, Tidy
<1> QED
    BY <1>2, <1>3, <1>4, <1>5, <1>6 DEF NullInv, PartNulls

LEMMA FoldFirstStep ==
    ASSUME NullInv, NEW m \in Mergers, NEW k, FoldFirst(m, k)
    PROVE  NullInv'
PROOF
<1>1. UNCHANGED <<graph, dropped>>
    BY DEF FoldFirst
<1>2. Shape'
    BY DEF FoldFirst, NullInv, Shape, Phases
<1>3. /\ LeafNulls'
      /\ \A l \in graph.leaves : leafBuf[l].null => leafBuf'[l].null
    BY QuietLeaves DEF FoldFirst
<1>4. ASSUME NEW n \in Mergers, n # m PROVE MergeNulls(n)' /\ Tidy(n)'
    BY <1>1, <1>3, <1>4, UntouchedMerge DEF FoldFirst, NullInv, Shape
<1>5. MergeNulls(m)'
    <2>1. k \in DOMAIN info[m] /\ acc'[m] = {info[m][k]} /\ phase'[m] = phase[m]
        BY DEF FoldFirst, FirstKey, NullInv, Shape
    <2>2. info'[m] = Restrict(info[m], DOMAIN info[m] \ {k})
        BY DEF FoldFirst, NullInv, Shape, MapErase
    <2>3. Parts(m)' = Parts(m)
        <3>1. acc[m] = {}
            BY DEF FoldFirst
        <3>2. {info'[m][j] : j \in DOMAIN info'[m]} = {info[m][j] : j \in DOMAIN info[m] \ {k}}
            BY <2>2 DEF Restrict
        <3> QED
            BY <2>1, <3>1, <3>2 DEF Parts
    <2>4. MergeNulls(m) /\ phase[m] = "fold"
        BY DEF FoldFirst, NullInv, PartNulls
    <2> QED
        BY <2>1, <2>3, <2>4, QuietLeaves DEF FoldFirst, MergeNulls
<1>6. Tidy(m)'
    <2>1. acc'[m] = {info[m][k]} /\ phase[m] = "fold"
        BY DEF FoldFirst, NullInv, Shape
    <2> QED
        BY <2>1 DEF FoldFirst, NullInv, PartNulls, Tidy
<1> QED
    BY <1>2, <1>3, <1>4, <1>5, <1>6 DEF NullInv, PartNulls

\* std::map's erase and insert: what is left of a map, and what is added.
LEMMA MapFacts ==
    ASSUME NEW map, NEW keys, NEW key, NEW w,
           NEW map2, map2 = MapInsert(MapErase(map, keys), key, w)
    PROVE  /\ \A k \in DOMAIN map \ keys : k \in DOMAIN map2 /\ map2[k] = map[k]
           /\ \A k \in DOMAIN map2 :
                 map2[k] = w \/ (k \in DOMAIN map /\ map2[k] = map[k])
PROOF
<1> DEFINE left == MapErase(map, keys)
<1>1. /\ DOMAIN left = DOMAIN map \ keys
      /\ \A k \in DOMAIN left : left[k] = map[k]
    BY DEF MapErase, Restrict
<1>2. map2 = MapInsert(left, key, w)
    OBVIOUS
<1> HIDE DEF left
<1>3. /\ DOMAIN map2 = DOMAIN left \cup {key}
      /\ \A k \in DOMAIN map2 : map2[k] = IF k \in DOMAIN left THEN left[k] ELSE w
    BY <1>2 DEF MapInsert
<1>4. ASSUME NEW k \in DOMAIN map \ keys
      PROVE  k \in DOMAIN map2 /\ map2[k] = map[k]
    <2>1. k \in DOMAIN left /\ left[k] = map[k]
        BY <1>1
    <2> QED
        BY <1>3, <2>1
<1>5. ASSUME NEW k \in DOMAIN map2
      PROVE  map2[k] = w \/ (k \in DOMAIN map /\ map2[k] = map[k])
    <2>1. k \in DOMAIN left => k \in DOMAIN map /\ left[k] = map[k]
        BY <1>1
    <2> QED
        BY <1>3, <2>1
<1> QED
    BY <1>4, <1>5

\* What a step that resolves p and q means for the rest of the proof.
LEMMA ResolveStep ==
    ASSUME NullInv, UNCHANGED <<graph, dropped>>, NEW m \in Mergers,
           NEW p \in Parts(m), NEW q \in Parts(m), WriteThrough(p, q),
           NEW r, r = Resolved(p, q)
    PROVE  /\ leafBuf' = [l \in graph.leaves |-> leafBuf'[l]]
           /\ LeafNulls'
           /\ \A l \in graph.leaves : leafBuf[l].null => leafBuf'[l].null
           /\ AnyDrop' <=> AnyDrop
           /\ IsPartial(r)'
           /\ IsNull(p, q) => Bytes(r)'.null
           /\ \A x \in Parts(m) : IsPartial(x)' /\ (Bytes(x).null => Bytes(x)'.null)
PROOF
<1>1. \A x \in Parts(m) : IsPartial(x)
    BY DEF NullInv, PartNulls, MergeNulls
<1>2. /\ leafBuf' = [l \in graph.leaves |-> leafBuf'[l]]
      /\ LeafNulls'
      /\ \A l \in graph.leaves : leafBuf[l].null => leafBuf'[l].null
      /\ IsPartial(r)'
      /\ IsNull(p, q) => Bytes(r)'.null
    BY <1>1, ResolveFacts DEF NullInv
<1>3. AnyDrop' <=> AnyDrop
    BY DEF AnyDrop, DroppedLeaf
<1>4. ASSUME NEW x \in Parts(m)
      PROVE  IsPartial(x)' /\ (Bytes(x).null => Bytes(x)'.null)
    BY <1>1, <1>2, PartialKept DEF NullInv
<1> QED
    BY <1>2, <1>3, <1>4

LEMMA ResolveConflictStep ==
    ASSUME NullInv, NEW m \in Mergers, ResolveConflict(m)
    PROVE  NullInv'
PROOF
<1> DEFINE c == Item(m)
           major == info[m][c.major]
           minor == info[m][c.minor]
<1>0. UNCHANGED <<graph, dropped>>
    BY DEF ResolveConflict
<1>1. PICK p \in Parts(m), q \in Parts(m) : p = major /\ q = minor
    BY DEF ResolveConflict, Available, Parts
<1>2. PICK r : r = Resolved(p, q)
    OBVIOUS
<1>3. PICK w : w = WithParent(r, c.parent)
    OBVIOUS
<1>4. /\ ~IsNull(p, q)
      /\ WriteThrough(p, q)
      /\ info'[m] = MapInsert(MapErase(info[m], {c.major, c.minor}), c.parent, w)
      /\ phase[m] = "conflicts" /\ phase' = phase /\ acc' = acc /\ result' = result
    BY <1>1, <1>2, <1>3 DEF ResolveConflict, AtItem, NullInv, Shape
<1>5. /\ leafBuf' = [l \in graph.leaves |-> leafBuf'[l]]
      /\ LeafNulls'
      /\ \A l \in graph.leaves : leafBuf[l].null => leafBuf'[l].null
      /\ AnyDrop' <=> AnyDrop
      /\ IsPartial(r)'
      /\ \A x \in Parts(m) : IsPartial(x)' /\ (Bytes(x).null => Bytes(x)'.null)
    BY <1>0, <1>2, <1>4, ResolveStep
<1>6. IsPartial(w)'
    <2>1. w = [r EXCEPT !.fields = @ \cup IF c.parent \in DOMAIN graph.nf
                                         THEN Writes(graph, c.parent) ELSE {}]
        BY <1>3 DEF WithParent
    <2>2. /\ w = [home |-> w.home, own |-> w.own, fields |-> w.fields]
          /\ w.home = r.home /\ w.own = r.own
        BY <1>5, <2>1 DEF IsPartial
    <2> QED
        BY <1>5, <2>2 DEF IsPartial, Bytes
<1>7. Shape'
    BY <1>0, <1>4, <1>5 DEF ResolveConflict, NullInv, Shape
<1>8. ASSUME NEW n \in Mergers, n # m PROVE MergeNulls(n)' /\ Tidy(n)'
    <2>1. info'[n] = info[n]
        BY <1>8 DEF ResolveConflict, NullInv, Shape
    <2> QED
        BY <1>0, <1>4, <1>5, <2>1, UntouchedMerge
<1>9. MergeNulls(m)'
    <2>1. \A x \in Parts(m)' : x = w \/ x \in Parts(m)
        BY <1>4, MapFacts DEF Parts
    <2>2. AnyDrop => \E x \in Parts(m)' : Bytes(x)'.null
        <3> SUFFICES ASSUME AnyDrop PROVE \E x \in Parts(m)' : Bytes(x)'.null
            OBVIOUS
        <3>1. PICK x \in Parts(m) : Bytes(x).null
            BY <1>4 DEF NullInv, PartNulls, MergeNulls
        <3>2. x # p /\ x # q
            BY <1>4, <3>1 DEF IsNull
        <3>3. x \in Parts(m)'
            BY <1>1, <1>4, <3>2, MapFacts DEF Parts
        <3> QED
            BY <1>5, <3>1, <3>3
    <2>3. result'[m] = {}
        BY <1>4 DEF NullInv, PartNulls, Tidy
    <2> QED
        BY <1>4, <1>5, <1>6, <2>1, <2>2, <2>3 DEF MergeNulls
<1>10. Tidy(m)'
    BY <1>4 DEF NullInv, PartNulls, Tidy
<1> QED
    BY <1>5, <1>7, <1>8, <1>9, <1>10 DEF NullInv, PartNulls

LEMMA ResolveToNullStep ==
    ASSUME NullInv, NEW m \in Mergers, ResolveToNull(m)
    PROVE  NullInv'
PROOF
<1> DEFINE major == info[m][Item(m).major]
           minor == info[m][Item(m).minor]
<1>0. UNCHANGED <<graph, dropped>>
    BY DEF ResolveToNull
<1>1. PICK p \in Parts(m), q \in Parts(m) : p = major /\ q = minor
    BY DEF ResolveToNull, Available, Parts
<1>2. PICK r : r = Resolved(p, q)
    OBVIOUS
<1>3. /\ IsNull(p, q)
      /\ WriteThrough(p, q)
      /\ acc'[m] = {r}
      /\ phase[m] = "conflicts" /\ phase'[m] = "send" /\ info' = info /\ result' = result
    BY <1>1, <1>2 DEF ResolveToNull, AtItem, NullInv, Shape
<1>4. /\ leafBuf' = [l \in graph.leaves |-> leafBuf'[l]]
      /\ LeafNulls'
      /\ \A l \in graph.leaves : leafBuf[l].null => leafBuf'[l].null
      /\ AnyDrop' <=> AnyDrop
      /\ IsPartial(r)'
      /\ Bytes(r)'.null
      /\ \A x \in Parts(m) : IsPartial(x)'
    BY <1>0, <1>2, <1>3, ResolveStep
<1>5. Shape'
    BY <1>0, <1>3, <1>4 DEF ResolveToNull, NullInv, Shape, Phases
<1>6. ASSUME NEW n \in Mergers, n # m PROVE MergeNulls(n)' /\ Tidy(n)'
    <2>1. phase'[n] = phase[n] /\ acc'[n] = acc[n]
        BY <1>6 DEF ResolveToNull, NullInv, Shape
    <2> QED
        BY <1>0, <1>3, <1>4, <2>1, UntouchedMerge
<1>7. MergeNulls(m)'
    <2>1. \A x \in Parts(m)' : x = r \/ x \in Parts(m)
        BY <1>3 DEF Parts
    <2>2. result'[m] = {}
        BY <1>3 DEF NullInv, PartNulls, Tidy
    <2> QED
        BY <1>3, <1>4, <2>1, <2>2 DEF MergeNulls
<1>8. Tidy(m)'
    BY <1>3 DEF NullInv, PartNulls, Tidy
<1> QED
    BY <1>4, <1>5, <1>6, <1>7, <1>8 DEF NullInv, PartNulls

LEMMA FoldNextStep ==
    ASSUME NullInv, NEW m \in Mergers, NEW k, FoldNext(m, k)
    PROVE  NullInv'
PROOF
<1>0. UNCHANGED <<graph, dropped>>
    BY DEF FoldNext
<1>1. PICK p \in acc[m] : /\ WriteThrough(p, info[m][k])
                          /\ acc' = [acc EXCEPT ![m] = {Resolved(p, info[m][k])}]
    BY DEF FoldNext
<1>2. PICK q : q = info[m][k]
    OBVIOUS
<1>3. PICK r : r = Resolved(p, q)
    OBVIOUS
<1>4. p \in Parts(m) /\ q \in Parts(m) /\ WriteThrough(p, q)
    BY <1>1, <1>2 DEF FoldNext, FirstKey, Parts
<1>5. /\ acc'[m] = {r}
      /\ info'[m] = [j \in DOMAIN info[m] \ {k} |-> info[m][j]]
      /\ phase[m] = "fold" /\ phase' = phase /\ result' = result
    <2>1. info'[m] = Restrict(info[m], DOMAIN info[m] \ (DOMAIN info[m] \cap {k}))
        BY DEF FoldNext, FirstKey, NullInv, Shape, MapErase, Restrict
    <2> QED
        BY <1>1, <1>2, <1>3, <2>1 DEF FoldNext, NullInv, Shape, Restrict
<1>6. /\ leafBuf' = [l \in graph.leaves |-> leafBuf'[l]]
      /\ LeafNulls'
      /\ \A l \in graph.leaves : leafBuf[l].null => leafBuf'[l].null
      /\ AnyDrop' <=> AnyDrop
      /\ IsPartial(r)'
      /\ IsNull(p, q) => Bytes(r)'.null
      /\ \A x \in Parts(m) : IsPartial(x)' /\ (Bytes(x).null => Bytes(x)'.null)
    BY <1>0, <1>3, <1>4, ResolveStep
<1>7. Shape'
    BY <1>0, <1>5, <1>6 DEF FoldNext, NullInv, Shape
<1>8. ASSUME NEW n \in Mergers, n # m PROVE MergeNulls(n)' /\ Tidy(n)'
    <2>1. info'[n] = info[n] /\ acc'[n] = acc[n]
        BY <1>1, <1>8 DEF FoldNext, NullInv, Shape
    <2> QED
        BY <1>0, <1>5, <1>6, <2>1, UntouchedMerge
<1>9. MergeNulls(m)'
    <2>1. Parts(m)' = {info[m][j] : j \in DOMAIN info[m] \ {k}} \cup {r}
        BY <1>5 DEF Parts
    <2>2. \A x \in Parts(m)' : x = r \/ x \in Parts(m)
        BY <2>1 DEF Parts
    <2>3. AnyDrop => \E x \in Parts(m)' : Bytes(x)'.null
        <3> SUFFICES ASSUME AnyDrop PROVE \E x \in Parts(m)' : Bytes(x)'.null
            OBVIOUS
        <3>1. PICK x \in Parts(m) : Bytes(x).null
            BY <1>5 DEF NullInv, PartNulls, MergeNulls
        <3>2. CASE x = p \/ x = q
            BY <1>6, <2>1, <3>1, <3>2 DEF IsNull
        <3>3. CASE x # p /\ x # q
            <4>1. x \in {info[m][j] : j \in DOMAIN info[m] \ {k}}
                BY <1>2, <3>3 DEF Parts, NullInv, PartNulls, Tidy
            <4> QED
                BY <1>6, <2>1, <3>1, <4>1
        <3> QED
            BY <3>2, <3>3
    <2>4. result'[m] = {}
        BY <1>5 DEF NullInv, PartNulls, Tidy
    <2> QED
        BY <1>5, <1>6, <2>2, <2>3, <2>4 DEF MergeNulls
<1>10. Tidy(m)'
    BY <1>5 DEF NullInv, PartNulls, Tidy
<1> QED
    BY <1>6, <1>7, <1>8, <1>9, <1>10 DEF NullInv, PartNulls
-----------------------------------------------------------------------------
LEMMA InitNull == Init => NullInv
PROOF
<1> SUFFICES ASSUME Init PROVE NullInv
    OBVIOUS
<1>1. Shape
    BY DEF Init, Shape, Phases
<1>2. ASSUME NEW l \in graph.leaves
      PROVE  IsBuffer(leafBuf[l]) /\ (leafBuf[l].null <=> DroppedLeaf(l))
    BY DEF Init, LeafPacket, IsBuffer, DroppedLeaf
<1>3. LeafNulls
    BY <1>2 DEF LeafNulls, AnyDrop
<1>4. ASSUME NEW m \in Mergers PROVE MergeNulls(m) /\ Tidy(m)
    <2>1. Parts(m) = {} /\ phase[m] = "convert" /\ acc[m] = {} /\ result[m] = {}
        BY DEF Init, Parts
    <2> QED
        BY <2>1 DEF MergeNulls, Tidy
<1> QED
    BY <1>1, <1>3, <1>4 DEF NullInv, PartNulls

LEMMA NullStep == NullInv /\ [Next]_vars => NullInv'
PROOF
<1> SUFFICES ASSUME NullInv, [Next]_vars PROVE NullInv'
    OBVIOUS
<1>1. ASSUME NEW m \in Mergers, Step(m) PROVE NullInv'
    BY <1>1, ConvertStep, ResolveConflictStep, ResolveToNullStep, SkipConflictStep,
       EndPassStep, FoldFirstStep, FoldNextStep, FoldEndStep, SendStep DEF Step
<1>2. CASE UNCHANGED vars
    <2>1. \A m \in Mergers : Parts(m)' = Parts(m)
        BY <1>2 DEF vars, Parts
    <2>2. Shape'
        BY <1>2 DEF vars, NullInv, Shape
    <2>3. LeafNulls'
        BY <1>2, QuietLeaves DEF vars
    <2>4. ASSUME NEW m \in Mergers PROVE MergeNulls(m)' /\ Tidy(m)'
        BY <1>2, <2>1, QuietLeaves DEF vars, NullInv, PartNulls, MergeNulls, Tidy
    <2> QED
        BY <2>2, <2>3, <2>4 DEF NullInv, PartNulls
<1> QED
    BY <1>1, <1>2 DEF Next

(***************************************************************************)
(* NullInv is inductive: as long as a merge runs, some packet it has yet   *)
(* to merge is null if some leaf's copy was dropped, and none is if none   *)
(* was.                                                                    *)
(***************************************************************************)
THEOREM NullInvariance == Spec => []NullInv
<1> QED
    BY InitNull, NullStep, PTL DEF Spec

(***************************************************************************)
(* For every graph, every conflict list, every set of dropping nodes and   *)
(* any number of overlapping merges: what merge_packet returns is null     *)
(* exactly if some leaf's copy was dropped.                                *)
(***************************************************************************)
THEOREM DropsAreMerged == Spec => []NullDominates
<1>1. NullInv => NullDominates
    BY DEF NullInv, PartNulls, MergeNulls, NullDominates, AnyDrop
<1> QED
    BY <1>1, NullInvariance, PTL
-----------------------------------------------------------------------------
(***************************************************************************)
(* What the leaves' own functions wrote.  A merge that may still write     *)
(* into a leaf's packet knows all the fields its function wrote, or the    *)
(* packet is null, and then only its mark is written.                      *)
(***************************************************************************)
Kept(p) ==
    p.home \in graph.leaves => Writes(graph, p.home) \subseteq p.fields \/ leafBuf[p.home].null

KeptInv == LeafWritesKept /\ \A m \in Mergers : \A p \in Parts(m) : Kept(p)

LEMMA WritesFields ==
    ASSUME graph \in Graphs, NEW n \in DOMAIN graph.nf
    PROVE  Writes(graph, n) \subseteq Fields
BY GraphAssumption DEF IsGraph, Writes, WriteFields, Fields

\* A leaf is the last on the path of its copy.
LEMMA LastWriter ==
    ASSUME graph \in Graphs, NEW l \in graph.leaves, NEW f \in Writes(graph, l)
    PROVE  Arrived(graph, l, f) = l
PROOF
<1> DEFINE W == WritersOf(graph, l, f)
           n == Len(graph.path[l])
<1>1. n \in Nat \ {0} /\ DOMAIN graph.path[l] = 1 .. n /\ graph.path[l][n] = l
    BY GraphAssumption DEF IsGraph
<1>2. n \in W /\ \A i \in W : i \in 1 .. n
    BY <1>1 DEF WritersOf
<1>3. Max(W) = n
    <2> HIDE DEF W, n
    <2>1. \A x \in W : (\A y \in W : x >= y) <=> x = n
        BY <1>1, <1>2
    <2>2. (CHOOSE x \in W : \A y \in W : x >= y) = n
        BY <1>2, <2>1
    <2> QED
        BY <2>2 DEF Max
<1> HIDE DEF n
<1> QED
    BY <1>1, <1>2, <1>3 DEF Arrived

\* A resolution of p and q overwrites nothing that a leaf's function wrote.
LEMMA KeepsWrites ==
    ASSUME Shape, LeafNulls, LeafWritesKept, UNCHANGED <<graph, dropped>>,
           NEW p, NEW q, IsPartial(p), Kept(p), WriteThrough(p, q),
           NEW r, r = Resolved(p, q)
    PROVE  LeafWritesKept' /\ Kept(r)'
PROOF
<1>1. p.home \in graph.leaves =>
         p.home # Own /\ Bytes(p) = leafBuf[p.home] /\ Writes(graph, p.home) \subseteq Fields
    BY OwnIsNoLeaf, WritesFields, GraphAssumption DEF Shape, Bytes, IsGraph
<1>2. LeafWritesKept'
    <2> SUFFICES ASSUME NEW l \in graph.leaves, NEW f \in Writes(graph, l)
                 PROVE  leafBuf'[l].val[f] = l
        BY DEF LeafWritesKept
    <2>1. leafBuf[l].val[f] = l
        BY DEF LeafWritesKept
    <2>2. CASE l # p.home
        BY <2>1, <2>2 DEF WriteThrough, Shape
    <2>3. CASE l = p.home /\ IsNull(p, q)
        BY <1>1, <2>1, <2>3 DEF WriteThrough, Shape, Nullified
    <2>4. CASE l = p.home /\ ~IsNull(p, q)
        <3>1. leafBuf'[l] = Headers(p, q)
            BY <1>1, <2>4 DEF WriteThrough, Shape
        <3>2. f \in Fields /\ f \in p.fields /\ Bytes(p) = leafBuf[l]
            BY <1>1, <2>4 DEF Kept, IsNull
        <3> QED
            BY <2>1, <3>1, <3>2 DEF Headers
    <2> QED
        BY <2>2, <2>3, <2>4
<1>3. Kept(r)'
    <2> SUFFICES ASSUME r.home \in graph.leaves
                 PROVE  Writes(graph, r.home) \subseteq r.fields \/ leafBuf'[r.home].null
        BY DEF Kept
    <2>1. CASE IsNull(p, q)
        <3>1. r.home = p.home
            BY <2>1 DEF Resolved
        <3> QED
            BY <1>1, <2>1, <3>1 DEF WriteThrough, Shape, Nullified
    <2>2. CASE ~IsNull(p, q)
        <3>1. r.home \in {p.home, Own} /\ p.fields \subseteq r.fields
            BY <2>2 DEF Resolved
        <3>2. r.home = p.home
            BY <3>1, OwnIsNoLeaf DEF Shape
        <3> QED
            BY <1>1, <2>2, <3>1, <3>2 DEF Kept, IsNull
    <2> QED
        BY <2>1, <2>2
<1> QED
    BY <1>2, <1>3

\* A step of merge m keeps KeptInv if it does so for m's own partial results.
LEMMA KeptStep ==
    ASSUME NullInv, KeptInv, UNCHANGED <<graph, dropped>>, LeafWritesKept',
           \A l \in graph.leaves : leafBuf[l].null => leafBuf'[l].null,
           NEW m \in Mergers,
           \A n \in Mergers \ {m} : info'[n] = info[n] /\ acc'[n] = acc[n],
           \A p \in Parts(m)' : p \in Parts(m) \/ Kept(p)'
    PROVE  KeptInv'
PROOF
<1>1. ASSUME NEW n \in Mergers, NEW p \in Parts(n) PROVE Kept(p)'
    BY DEF KeptInv, Kept
<1>2. \A n \in Mergers \ {m} : Parts(n)' = Parts(n)
    BY DEF Parts
<1> QED
    BY <1>1, <1>2 DEF KeptInv

LEMMA KeptQuiet ==
    ASSUME NullInv, KeptInv, NEW m \in Mergers,
           \/ SkipConflict(m) \/ EndPass(m) \/ FoldEnd(m) \/ Send(m)
    PROVE  KeptInv'
PROOF
<1>1. UNCHANGED <<graph, dropped, leafBuf, info, acc>>
    BY DEF SkipConflict, EndPass, FoldEnd, Send
<1> QED
    BY <1>1, KeptStep DEF KeptInv, LeafWritesKept, Parts

LEMMA KeptConvert ==
    ASSUME NullInv, KeptInv, NEW m \in Mergers, Convert(m)
    PROVE  KeptInv'
PROOF
<1>1. UNCHANGED <<graph, dropped, leafBuf, acc>>
    BY DEF Convert
<1>2. ASSUME NEW p \in Parts(m)' PROVE p \in Parts(m) \/ Kept(p)'
    <2>1. \A l \in graph.leaves : info'[m][l].home = l /\ info'[m][l].fields = Writes(graph, l)
        BY DEF Convert, NullInv, Shape
    <2>2. DOMAIN info'[m] = graph.leaves
        BY DEF Convert, NullInv, Shape
    <2> QED
        BY <1>1, <2>1, <2>2 DEF Parts, Kept
<1>3. \A n \in Mergers \ {m} : info'[n] = info[n]
    BY DEF Convert, NullInv, Shape
<1> QED
    BY <1>1, <1>2, <1>3, KeptStep DEF KeptInv, LeafWritesKept

LEMMA KeptResolveConflict ==
    ASSUME NullInv, KeptInv, NEW m \in Mergers, ResolveConflict(m)
    PROVE  KeptInv'
PROOF
<1> DEFINE c == Item(m)
<1>1. UNCHANGED <<graph, dropped, acc>>
    BY DEF ResolveConflict
<1>2. PICK p \in Parts(m), q \in Parts(m) : p = info[m][c.major] /\ q = info[m][c.minor]
    BY DEF ResolveConflict, Available, Parts
<1>3. PICK r : r = Resolved(p, q)
    OBVIOUS
<1>4. PICK w : w = WithParent(r, c.parent)
    OBVIOUS
<1>5. /\ WriteThrough(p, q)
      /\ info'[m] = MapInsert(MapErase(info[m], {c.major, c.minor}), c.parent, w)
    BY <1>2, <1>3, <1>4 DEF ResolveConflict, NullInv, Shape
<1>6. /\ \A l \in graph.leaves : leafBuf[l].null => leafBuf'[l].null
      /\ IsPartial(r)'
    BY <1>1, <1>3, <1>5, ResolveStep
<1>7. LeafWritesKept' /\ Kept(r)'
    BY <1>1, <1>3, <1>5, KeepsWrites DEF NullInv, PartNulls, MergeNulls, KeptInv
<1>8. Kept(w)'
    <2>1. w.home = r.home /\ r.fields \subseteq w.fields
        BY <1>4, <1>6 DEF WithParent, IsPartial
    <2> QED
        BY <1>7, <2>1 DEF Kept
<1>9. \A x \in Parts(m)' : x \in Parts(m) \/ Kept(x)'
    BY <1>1, <1>5, <1>8, MapFacts DEF Parts
<1>10. \A n \in Mergers \ {m} : info'[n] = info[n] /\ acc'[n] = acc[n]
    BY <1>1 DEF ResolveConflict, NullInv, Shape
<1> QED
    BY <1>1, <1>6, <1>7, <1>9, <1>10, KeptStep

LEMMA KeptResolveToNull ==
    ASSUME NullInv, KeptInv, NEW m \in Mergers, ResolveToNull(m)
    PROVE  KeptInv'
PROOF
<1>1. UNCHANGED <<graph, dropped, info>>
    BY DEF ResolveToNull
<1>2. PICK p \in Parts(m), q \in Parts(m) :
         p = info[m][Item(m).major] /\ q = info[m][Item(m).minor]
    BY DEF ResolveToNull, Available, Parts
<1>3. PICK r : r = Resolved(p, q)
    OBVIOUS
<1>4. /\ WriteThrough(p, q) /\ acc'[m] = {r}
      /\ \A n \in Mergers \ {m} : acc'[n] = acc[n]
    BY <1>2, <1>3 DEF ResolveToNull, NullInv, Shape
<1>5. \A l \in graph.leaves : leafBuf[l].null => leafBuf'[l].null
    BY <1>1, <1>3, <1>4, ResolveStep
<1>6. LeafWritesKept' /\ Kept(r)'
    BY <1>1, <1>3, <1>4, KeepsWrites DEF NullInv, PartNulls, MergeNulls, KeptInv
<1>7. \A x \in Parts(m)' : x \in Parts(m) \/ Kept(x)'
    BY <1>1, <1>4, <1>6 DEF Parts
<1> QED
    BY <1>1, <1>4, <1>5, <1>6, <1>7, KeptStep

LEMMA KeptFoldFirst ==
    ASSUME NullInv, KeptInv, NEW m \in Mergers, NEW k, FoldFirst(m, k)
    PROVE  KeptInv'
PROOF
<1>1. UNCHANGED <<graph, dropped, leafBuf>>
    BY DEF FoldFirst
<1>2. k \in DOMAIN info[m] /\ acc'[m] = {info[m][k]}
    BY DEF FoldFirst, FirstKey, NullInv, Shape
<1>3. info'[m] = Restrict(info[m], DOMAIN info[m] \ {k})
    BY DEF FoldFirst, NullInv, Shape, MapErase
<1>4. \A x \in Parts(m)' : x \in Parts(m)
    BY <1>2, <1>3 DEF Parts, Restrict
<1>5. \A n \in Mergers \ {m} : info'[n] = info[n] /\ acc'[n] = acc[n]
    BY DEF FoldFirst, NullInv, Shape
<1> QED
    BY <1>1, <1>4, <1>5, KeptStep DEF KeptInv, LeafWritesKept

LEMMA KeptFoldNext ==
    ASSUME NullInv, KeptInv, NEW m \in Mergers, NEW k, FoldNext(m, k)
    PROVE  KeptInv'
PROOF
<1>1. UNCHANGED <<graph, dropped>>
    BY DEF FoldNext
<1>2. PICK p \in acc[m] : /\ WriteThrough(p, info[m][k])
                          /\ acc' = [acc EXCEPT ![m] = {Resolved(p, info[m][k])}]
    BY DEF FoldNext
<1>3. PICK q : q = info[m][k]
    OBVIOUS
<1>4. PICK r : r = Resolved(p, q)
    OBVIOUS
<1>5. p \in Parts(m) /\ q \in Parts(m) /\ WriteThrough(p, q)
    BY <1>2, <1>3 DEF FoldNext, FirstKey, Parts
<1>6. /\ acc'[m] = {r}
      /\ \A n \in Mergers \ {m} : info'[n] = info[n] /\ acc'[n] = acc[n]
    BY <1>2, <1>3, <1>4 DEF FoldNext, NullInv, Shape
<1>7. info'[m] = Restrict(info[m], DOMAIN info[m] \ {k})
    BY DEF FoldNext, NullInv, Shape, MapErase
<1>8. \A l \in graph.leaves : leafBuf[l].null => leafBuf'[l].null
    BY <1>1, <1>4, <1>5, ResolveStep
<1>9. LeafWritesKept' /\ Kept(r)'
    BY <1>1, <1>4, <1>5, KeepsWrites DEF NullInv, PartNulls, MergeNulls, KeptInv
<1>10. \A x \in Parts(m)' : x \in Parts(m) \/ Kept(x)'
    BY <1>6, <1>7, <1>9 DEF Parts, Restrict
<1> QED
    BY <1>1, <1>6, <1>8, <1>9, <1>10, KeptStep

(***************************************************************************)
(* No merge overwrites, in a leaf's packet, a field the leaf's own         *)
(* function wrote, although the packets are aliased by all merges: for     *)
(* every graph and conflict list and any number of merges at once.         *)
(***************************************************************************)
THEOREM LeavesAreKept == Spec => []LeafWritesKept
<1>1. Init => KeptInv
    <2> SUFFICES ASSUME Init PROVE KeptInv
        OBVIOUS
    <2>1. LeafWritesKept
        <3> SUFFICES ASSUME NEW l \in graph.leaves, NEW f \in Writes(graph, l)
                     PROVE  leafBuf[l].val[f] = l
            BY DEF LeafWritesKept
        <3>1. f \in Fields
            BY WritesFields, GraphAssumption DEF Init, IsGraph
        <3> QED
            BY <3>1, LastWriter DEF Init, LeafPacket
    <2>2. \A m \in Mergers : Parts(m) = {}
        BY DEF Init, Parts
    <2> QED
        BY <2>1, <2>2 DEF KeptInv
<1>2. NullInv /\ KeptInv /\ [Next]_vars => KeptInv'
    <2> SUFFICES ASSUME NullInv, KeptInv, [Next]_vars PROVE KeptInv'
        OBVIOUS
    <2>1. ASSUME NEW m \in Mergers, Step(m) PROVE KeptInv'
        BY <2>1, KeptConvert, KeptResolveConflict, KeptResolveToNull, KeptFoldFirst,
           KeptFoldNext, KeptQuiet DEF Step
    <2>2. CASE UNCHANGED vars
        BY <2>2 DEF vars, KeptInv, LeafWritesKept, Kept, Parts
    <2> QED
        BY <2>1, <2>2 DEF Next
<1>3. KeptInv => LeafWritesKept
    BY DEF KeptInv
<1> QED
    BY <1>1, <1>2, <1>3, NullInvariance, PTL DEF Spec
-----------------------------------------------------------------------------
(***************************************************************************)
(* Types.                                                                  *)
(***************************************************************************)
LEMMA GreatestIndex ==
    ASSUME NEW n \in Nat, NEW W, W \subseteq 1 .. n, W # {}
    PROVE  Max(W) \in W
PROOF
<1> DEFINE T == {n - i : i \in W}
<1>1. T \subseteq Nat /\ T # {}
    <2>1. \A i \in W : n - i \in Nat
        OBVIOUS
    <2> QED
        BY <2>1
<1>2. PICK d \in T : \A y \in T : ~(<<y, d>> \in OpToRel(<, Nat))
    <2> HIDE DEF T
    <2> QED
        BY <1>1, NatLessThanWellFounded, WFMin
<1>3. \A y \in T : ~(y < d)
    <2> HIDE DEF T
    <2> QED
        BY <1>1, <1>2 DEF OpToRel
<1>4. PICK i \in W : d = n - i
    OBVIOUS
<1>5. \A j \in W : i >= j
    <2> SUFFICES ASSUME NEW j \in W PROVE i >= j
        OBVIOUS
    <2>1. n - j \in T
        OBVIOUS
    <2>2. i \in 1 .. n /\ j \in 1 .. n
        OBVIOUS
    <2> QED
        BY <1>3, <1>4, <2>1, <2>2
<1> QED
    BY <1>5 DEF Max

LEMMA ArrivedType ==
    ASSUME graph \in Graphs, NEW l \in graph.leaves, NEW f
    PROVE  Arrived(graph, l, f) \in Nodes \cup {AsSent}
PROOF
<1> DEFINE W == WritersOf(graph, l, f)
           n == Len(graph.path[l])
<1>1. /\ n \in Nat /\ DOMAIN graph.path[l] = 1 .. n
      /\ \A i \in 1 .. n : graph.path[l][i] \in Nodes
    BY GraphAssumption DEF IsGraph, Nodes
<1>2. W \subseteq 1 .. n
    BY <1>1 DEF WritersOf
<1>3. W # {} => Max(W) \in W
    <2> HIDE DEF W, n
    <2> QED
        BY <1>1, <1>2, GreatestIndex
<1> HIDE DEF n
<1> QED
    BY <1>1, <1>2, <1>3 DEF Arrived

LEMMA BytesType == ASSUME TypeOK, NEW p \in Partials PROVE Bytes(p) \in Packets
BY DEF TypeOK, Bytes, Partials

\* A resolution gives a partial result, and leaves packets to the leaves.
LEMMA ResolvedType ==
    ASSUME TypeOK, NEW p \in Partials, NEW q \in Partials
    PROVE  /\ Resolved(p, q) \in Partials
           /\ \A n \in Nodes \cup {NoParent} : WithParent(Resolved(p, q), n) \in Partials
           /\ WriteThrough(p, q) => leafBuf' \in [graph.leaves -> Packets]
PROOF
<1>1. Bytes(p) \in Packets /\ Bytes(q) \in Packets
    BY BytesType
<1>2. Headers(p, q) \in Packets
    BY <1>1 DEF Headers, Packets
<1>3. \A b \in Packets : Nullified(b) \in Packets
    BY DEF Nullified, Packets
<1>4. \A b, c \in Packets : WithPayload(b, c) \in Packets
    BY DEF WithPayload, Packets, Fields
<1>5. Resolved(p, q) \in Partials
    <2>1. CASE IsNull(p, q)
        BY <1>1, <1>3, <2>1 DEF Resolved, Partials
    <2>2. CASE ~IsNull(p, q)
        <3> DEFINE own == IF CopiesPayload(p, q) THEN WithPayload(Headers(p, q), Bytes(q))
                          ELSE Headers(p, q)
        <3>1. own \in Packets
            BY <1>1, <1>2, <1>4
        <3>2. Resolved(p, q) = [home |-> IF CopiesPayload(p, q) THEN Own ELSE p.home,
                                own |-> own, fields |-> p.fields \cup q.fields]
            BY <2>2 DEF Resolved
        <3> HIDE DEF own
        <3> QED
            BY <3>1, <3>2 DEF Partials
    <2> QED
        BY <2>1, <2>2
<1>6. ASSUME NEW n \in Nodes \cup {NoParent} PROVE WithParent(Resolved(p, q), n) \in Partials
    <2>1. n \in DOMAIN graph.nf => Writes(graph, n) \subseteq Fields
        BY WritesFields DEF TypeOK
    <2> QED
        BY <1>5, <2>1 DEF WithParent, Partials
<1>7. WriteThrough(p, q) => leafBuf' \in [graph.leaves -> Packets]
    <2> DEFINE b == IF IsNull(p, q) THEN Nullified(leafBuf[p.home]) ELSE Headers(p, q)
    <2>1. p.home \in graph.leaves \cup {Own} /\ leafBuf \in [graph.leaves -> Packets]
        BY DEF Partials, TypeOK
    <2>2. p.home # Own => b \in Packets
        BY <1>2, <1>3, <2>1
    <2>3. WriteThrough(p, q) => leafBuf' = IF p.home = Own THEN leafBuf
                                           ELSE [leafBuf EXCEPT ![p.home] = b]
        BY DEF WriteThrough
    <2> HIDE DEF b
    <2> QED
        BY <2>1, <2>2, <2>3
<1> QED
    BY <1>5, <1>6, <1>7

\* The item a merge is at.
LEMMA ItemType ==
    ASSUME TypeOK, NEW m \in Mergers, AtItem(m)
    PROVE  /\ Item(m).parent \in Nodes \cup {NoParent}
           /\ Len(graph.conflicts) \in Nat
           /\ next[m] \in 1 .. Len(graph.conflicts) /\ next[m] + 1 \in 1 .. Len(graph.conflicts) + 1
PROOF
<1>1. graph.conflicts \in Seq(Items(Nodes)) /\ Len(graph.conflicts) \in Nat
    BY GraphAssumption DEF TypeOK, IsGraph, Nodes
<1>2. next[m] \in 1 .. Len(graph.conflicts)
    BY <1>1 DEF TypeOK, AtItem
<1>3. Item(m) \in Items(Nodes)
    BY <1>1, <1>2 DEF Item
<1> QED
    BY <1>1, <1>2, <1>3 DEF Items

LEMMA TypeStep == TypeOK /\ [Next]_vars => TypeOK'
PROOF
<1> SUFFICES ASSUME TypeOK, [Next]_vars PROVE TypeOK'
    OBVIOUS
<1> DEFINE InfoType == \A m \in Mergers : /\ DOMAIN info[m] \subseteq Nodes \cup {NoParent}
                                          /\ \A k \in DOMAIN info[m] : info[m][k] \in Partials
<1>0. InfoType
    BY DEF TypeOK
<1>1. ASSUME NEW m \in Mergers, Convert(m) PROVE TypeOK'
    <2> DEFINE part(l) == [home |-> l, own |-> leafBuf[l], fields |-> Writes(graph, l)]
    <2>1. \A l \in graph.leaves : part(l) \in Partials
        <3> SUFFICES ASSUME NEW l \in graph.leaves PROVE part(l) \in Partials
            OBVIOUS
        <3>1. Writes(graph, l) \subseteq Fields
            BY WritesFields, GraphAssumption DEF TypeOK, IsGraph
        <3>2. leafBuf[l] \in Packets
            BY DEF TypeOK
        <3> QED
            BY <3>1, <3>2 DEF Partials
    <2>2. graph.leaves \subseteq Nodes
        BY GraphAssumption DEF TypeOK, IsGraph, Nodes
    <2>3. info' = [info EXCEPT ![m] = [l \in graph.leaves |-> part(l)]]
        BY <1>1 DEF Convert
    <2> HIDE DEF part
    <2>4. DOMAIN info' = Mergers /\ InfoType'
        <3>1. UNCHANGED graph
            BY <1>1 DEF Convert
        <3> QED
            BY <2>1, <2>2, <2>3, <3>1 DEF TypeOK, Partials, Packets, Nodes
    <2> QED
        BY <1>1, <2>4 DEF Convert, TypeOK, Phases, Partials, Packets, Nodes
<1>2. ASSUME NEW m \in Mergers, ResolveConflict(m) PROVE TypeOK'
    <2> DEFINE c == Item(m)
               p == info[m][c.major]
               q == info[m][c.minor]
               w == WithParent(Resolved(p, q), c.parent)
    <2>1. p \in Partials /\ q \in Partials /\ AtItem(m) /\ WriteThrough(p, q) /\ UNCHANGED graph
        BY <1>0, <1>2 DEF ResolveConflict, Available
    <2>2. w \in Partials /\ leafBuf' \in [graph.leaves -> Packets]
        BY <2>1, ItemType, ResolvedType
    <2>3. c.parent \in Nodes \cup {NoParent}
        BY <2>1, ItemType
    <2>4. info' = [info EXCEPT ![m] = MapInsert(MapErase(info[m], {c.major, c.minor}), c.parent, w)]
        BY <1>2 DEF ResolveConflict
    <2> HIDE DEF w
    <2>5. DOMAIN info' = Mergers /\ InfoType'
        <3> DEFINE map2 == MapInsert(MapErase(info[m], {c.major, c.minor}), c.parent, w)
        <3>1. DOMAIN map2 \subseteq DOMAIN info[m] \cup {c.parent}
            BY DEF MapInsert, MapErase, Restrict
        <3>2. \A k \in DOMAIN map2 : map2[k] \in Partials
            <4>1. \A k \in DOMAIN map2 :
                     map2[k] = w \/ (k \in DOMAIN info[m] /\ map2[k] = info[m][k])
                BY MapFacts
            <4> HIDE DEF map2
            <4> QED
                BY <1>0, <2>2, <4>1
        <3> HIDE DEF map2
        <3>3. info' = [info EXCEPT ![m] = map2]
            BY <2>4 DEF map2
        <3> QED
            BY <1>0, <2>1, <2>3, <3>1, <3>2, <3>3 DEF TypeOK, Partials, Packets, Nodes
    <2>6. next' \in [Mergers -> 1 .. Len(graph.conflicts) + 1]
        BY <1>2, <2>1, ItemType DEF ResolveConflict, TypeOK
    <2> QED
        BY <1>2, <2>1, <2>2, <2>5, <2>6 DEF ResolveConflict, TypeOK, Partials, Packets, Nodes
<1>3. ASSUME NEW m \in Mergers, ResolveToNull(m) PROVE TypeOK'
    <2> DEFINE p == info[m][Item(m).major]
               q == info[m][Item(m).minor]
    <2>1. p \in Partials /\ q \in Partials /\ WriteThrough(p, q)
        BY <1>0, <1>3 DEF ResolveToNull, Available
    <2>2. Resolved(p, q) \in Partials /\ leafBuf' \in [graph.leaves -> Packets]
        BY <2>1, ResolvedType
    <2>3. acc' \in [Mergers -> SUBSET Partials]
        BY <1>3, <2>2 DEF ResolveToNull, TypeOK
    <2> QED
        BY <1>3, <2>2, <2>3 DEF ResolveToNull, TypeOK, Phases, Partials, Packets, Nodes
<1>4. ASSUME NEW m \in Mergers, SkipConflict(m) PROVE TypeOK'
    <2>1. next' \in [Mergers -> 1 .. Len(graph.conflicts) + 1]
        BY <1>4, ItemType DEF SkipConflict, TypeOK
    <2> QED
        BY <1>4, <2>1 DEF SkipConflict, TypeOK, Partials, Packets, Nodes
<1>5. ASSUME NEW m \in Mergers, EndPass(m) PROVE TypeOK'
    <2>1. Len(graph.conflicts) \in Nat
        BY GraphAssumption DEF TypeOK, IsGraph
    <2> QED
        BY <1>5, <2>1 DEF EndPass, TypeOK, Phases, Partials, Packets, Nodes
<1>6. ASSUME NEW m \in Mergers, NEW k \in DOMAIN info[m], FoldFirst(m, k) PROVE TypeOK'
    <2>1. DOMAIN info' = Mergers /\ InfoType'
        BY <1>0, <1>6 DEF FoldFirst, MapErase, Restrict, TypeOK, Partials, Packets, Nodes
    <2>2. acc' \in [Mergers -> SUBSET Partials]
        BY <1>0, <1>6 DEF FoldFirst, TypeOK
    <2> QED
        BY <1>6, <2>1, <2>2 DEF FoldFirst, TypeOK, Partials, Packets, Nodes
<1>7. ASSUME NEW m \in Mergers, NEW k \in DOMAIN info[m], FoldNext(m, k) PROVE TypeOK'
    <2>1. PICK p \in acc[m] : /\ WriteThrough(p, info[m][k])
                              /\ acc' = [acc EXCEPT ![m] = {Resolved(p, info[m][k])}]
        BY <1>7 DEF FoldNext
    <2>2. p \in Partials /\ info[m][k] \in Partials
        BY <1>0, <2>1 DEF TypeOK
    <2>3. Resolved(p, info[m][k]) \in Partials /\ leafBuf' \in [graph.leaves -> Packets]
        BY <2>1, <2>2, ResolvedType
    <2>4. DOMAIN info' = Mergers /\ InfoType'
        BY <1>0, <1>7 DEF FoldNext, MapErase, Restrict, TypeOK, Partials, Packets, Nodes
    <2>5. acc' \in [Mergers -> SUBSET Partials]
        BY <2>1, <2>3 DEF TypeOK
    <2> QED
        BY <1>7, <2>3, <2>4, <2>5 DEF FoldNext, TypeOK, Partials, Packets, Nodes
<1>8. ASSUME NEW m \in Mergers, FoldEnd(m) PROVE TypeOK'
    BY <1>8 DEF FoldEnd, TypeOK, Phases, Partials, Packets, Nodes
<1>9. ASSUME NEW m \in Mergers, Send(m) PROVE TypeOK'
    <2>1. \A p \in acc[m] : Bytes(p) \in Packets
        BY BytesType DEF TypeOK
    <2>2. result' \in [Mergers -> SUBSET Packets]
        BY <1>9, <2>1 DEF Send, TypeOK
    <2> QED
        BY <1>9, <2>2 DEF Send, TypeOK, Phases, Partials, Packets, Nodes
<1>10. CASE UNCHANGED vars
    BY <1>10 DEF vars, TypeOK, Partials, Packets, Nodes
<1> QED
    BY <1>1, <1>2, <1>3, <1>4, <1>5, <1>6, <1>7, <1>8, <1>9, <1>10 DEF Next, Step

(***************************************************************************)
(* The types of a merge's locals and of the shared packets: a partial      *)
(* result is made of a leaf's bytes or its own, and every field in it was  *)
(* written by a node of the graph or is as it was sent.                    *)
(***************************************************************************)
THEOREM TypeCorrect == Spec => []TypeOK
<1>1. Init => TypeOK
    <2> SUFFICES ASSUME Init PROVE TypeOK
        OBVIOUS
    <2>1. leafBuf \in [graph.leaves -> Packets]
        BY ArrivedType DEF Init, LeafPacket, Packets
    <2>2. Len(graph.conflicts) \in Nat
        BY GraphAssumption DEF Init, IsGraph
    <2> QED
        BY <2>1, <2>2 DEF Init, TypeOK, Phases, Nodes
<1> QED
    BY <1>1, TypeStep, PTL DEF Spec
-----------------------------------------------------------------------------
(* Every step of a merge leaves it less to do, and it always has a step.   *)

LEMMA LessTuple ==
    ASSUME NEW a1 \in Nat, NEW a2 \in Nat, NEW a3 \in Nat, NEW a4 \in Nat,
           NEW b1 \in Nat, NEW b2 \in Nat, NEW b3 \in Nat, NEW b4 \in Nat,
           \/ a1 < b1
           \/ a1 = b1 /\ a2 < b2
           \/ a1 = b1 /\ a2 = b2 /\ a3 < b3
           \/ a1 = b1 /\ a2 = b2 /\ a3 = b3 /\ a4 < b4
    PROVE  Less(<<a1, a2, a3, a4>>, <<b1, b2, b3, b4>>)
PROOF
<1> DEFINE s == <<a1, a2, a3, a4>>
           t == <<b1, b2, b3, b4>>
<1>1. DOMAIN t = 1 .. 4
    OBVIOUS
<1>2. /\ s[1] = a1 /\ s[2] = a2 /\ s[3] = a3 /\ s[4] = a4
      /\ t[1] = b1 /\ t[2] = b2 /\ t[3] = b3 /\ t[4] = b4
    OBVIOUS
<1> HIDE DEF s, t
<1>3. PICK i \in 1 .. 4 : s[i] < t[i] /\ \A j \in 1 .. i - 1 : s[j] = t[j]
    <2>1. CASE a1 < b1
        <3>1. s[1] < t[1] /\ \A j \in 1 .. 1 - 1 : s[j] = t[j]
            BY <1>2, <2>1
        <3> QED
            BY <3>1
    <2>2. CASE a1 = b1 /\ a2 < b2
        <3>1. s[2] < t[2] /\ \A j \in 1 .. 2 - 1 : s[j] = t[j]
            BY <1>2, <2>2
        <3> QED
            BY <3>1
    <2>3. CASE a1 = b1 /\ a2 = b2 /\ a3 < b3
        <3>1. s[3] < t[3] /\ \A j \in 1 .. 3 - 1 : s[j] = t[j]
            BY <1>2, <2>3
        <3> QED
            BY <3>1
    <2>4. CASE a1 = b1 /\ a2 = b2 /\ a3 = b3 /\ a4 < b4
        <3>1. s[4] < t[4] /\ \A j \in 1 .. 4 - 1 : s[j] = t[j]
            BY <1>2, <2>4
        <3> QED
            BY <3>1
    <2> QED
        BY <2>1, <2>2, <2>3, <2>4
<1>4. Less(s, t)
    BY <1>1, <1>3 DEF Less
<1> QED
    BY <1>4 DEF s, t

\* The keys of a merge's map are finitely many.
LEMMA FewKeys ==
    ASSUME NEW g, IsGraph(g), NEW D, D \subseteq DOMAIN g.nf \cup {NoParent}
    PROVE  IsFiniteSet(D) /\ Cardinality(D) \in Nat
PROOF
<1>1. IsFiniteSet(DOMAIN g.nf \cup {NoParent})
    BY FS_AddElement DEF IsGraph
<1> QED
    BY <1>1, FS_Subset, FS_CardinalityType

LEMMA LessToDo ==
    ASSUME TypeOK, TypeOK', UNCHANGED graph, NEW m \in Mergers,
           \/ Stage[phase'[m]] < Stage[phase[m]]
           \/ /\ phase'[m] = phase[m]
              /\ Cardinality(DOMAIN info'[m]) < Cardinality(DOMAIN info[m])
           \/ /\ phase'[m] = phase[m] /\ info'[m] = info[m]
              /\ changed[m] /\ ~changed'[m]
           \/ /\ phase'[m] = phase[m] /\ info'[m] = info[m] /\ changed'[m] = changed[m]
              /\ next'[m] = next[m] + 1
    PROVE  Less(Left(m)', Left(m))
PROOF
<1>1. IsGraph(graph) /\ Len(graph.conflicts) \in Nat
    <2>1. IsGraph(graph)
        BY GraphAssumption DEF TypeOK
    <2>2. Len(graph.conflicts) \in Nat
        BY <2>1 DEF IsGraph
    <2> QED
        BY <2>1, <2>2
<1>2. /\ Cardinality(DOMAIN info[m]) \in Nat
      /\ Cardinality(DOMAIN info'[m]) \in Nat
    <2>1. /\ DOMAIN info[m] \subseteq DOMAIN graph.nf \cup {NoParent}
          /\ DOMAIN info'[m] \subseteq DOMAIN graph.nf \cup {NoParent}
        BY DEF TypeOK, Nodes
    <2> QED
        BY <1>1, <2>1, FewKeys
<1>3. Stage[phase[m]] \in Nat /\ Stage[phase'[m]] \in Nat
    <2>1. phase[m] \in Phases /\ phase'[m] \in Phases
        BY DEF TypeOK
    <2> QED
        BY <2>1 DEF Phases, Stage
<1>4. /\ next[m] \in 1 .. Len(graph.conflicts) + 1
      /\ next'[m] \in 1 .. Len(graph.conflicts) + 1
      /\ changed[m] \in BOOLEAN /\ changed'[m] \in BOOLEAN
    BY DEF TypeOK
<1>5. PICK a1, a2, a3, a4 : /\ a1 = Stage[phase'[m]]
                            /\ a2 = Cardinality(DOMAIN info'[m])
                            /\ a3 = IF changed'[m] THEN 1 ELSE 0
                            /\ a4 = Len(graph.conflicts) + 1 - next'[m]
    OBVIOUS
<1>6. PICK b1, b2, b3, b4 : /\ b1 = Stage[phase[m]]
                            /\ b2 = Cardinality(DOMAIN info[m])
                            /\ b3 = IF changed[m] THEN 1 ELSE 0
                            /\ b4 = Len(graph.conflicts) + 1 - next[m]
    OBVIOUS
<1>7. /\ a1 \in Nat /\ a2 \in Nat /\ a3 \in Nat /\ a4 \in Nat
      /\ b1 \in Nat /\ b2 \in Nat /\ b3 \in Nat /\ b4 \in Nat
    <2>1. a1 \in Nat /\ a2 \in Nat /\ b1 \in Nat /\ b2 \in Nat
        BY <1>2, <1>3, <1>5, <1>6
    <2>2. a3 \in Nat /\ b3 \in Nat
        BY <1>5, <1>6
    <2>3. a4 \in Nat /\ b4 \in Nat
        BY <1>1, <1>4, <1>5, <1>6
    <2> QED
        BY <2>1, <2>2, <2>3
<1>8. \/ a1 < b1
      \/ a1 = b1 /\ a2 < b2
      \/ a1 = b1 /\ a2 = b2 /\ a3 < b3
      \/ a1 = b1 /\ a2 = b2 /\ a3 = b3 /\ a4 < b4
    <2>1. CASE Stage[phase'[m]] < Stage[phase[m]]
        BY <2>1, <1>5, <1>6
    <2>2. CASE /\ phase'[m] = phase[m]
               /\ Cardinality(DOMAIN info'[m]) < Cardinality(DOMAIN info[m])
        BY <2>2, <1>5, <1>6
    <2>3. CASE /\ phase'[m] = phase[m] /\ info'[m] = info[m]
               /\ changed[m] /\ ~changed'[m]
        <3>1. a1 = b1 /\ a2 = b2 /\ a3 = 0 /\ b3 = 1
            BY <2>3, <1>5, <1>6
        <3> QED
            BY <3>1
    <2>4. CASE /\ phase'[m] = phase[m] /\ info'[m] = info[m] /\ changed'[m] = changed[m]
               /\ next'[m] = next[m] + 1
        <3>1. a1 = b1 /\ a2 = b2 /\ a3 = b3
            BY <2>4, <1>5, <1>6
        <3>2. a4 < b4
            BY <2>4, <1>1, <1>4, <1>5, <1>6
        <3> QED
            BY <3>1, <3>2
    <2> QED
        BY <2>1, <2>2, <2>3, <2>4
<1>9. Less(<<a1, a2, a3, a4>>, <<b1, b2, b3, b4>>)
    BY <1>7, <1>8, LessTuple
<1> QED
    BY <1>5, <1>6, <1>9 DEF Left

\* Of two packets a resolution makes one, whose key may be one of theirs.
LEMMA OneOfTwo ==
    ASSUME NEW D, IsFiniteSet(D), NEW a \in D, NEW b \in D, a # b, NEW c
    PROVE  Cardinality((D \ {a, b}) \cup {c}) < Cardinality(D)
PROOF
<1>1. IsFiniteSet(D \ {a}) /\ Cardinality(D \ {a}) = Cardinality(D) - 1
    BY FS_RemoveElement
<1>2. b \in D \ {a} /\ (D \ {a}) \ {b} = D \ {a, b}
    OBVIOUS
<1>3. /\ IsFiniteSet(D \ {a, b})
      /\ Cardinality(D \ {a, b}) = Cardinality(D \ {a}) - 1
    BY <1>1, <1>2, FS_RemoveElement
<1>4. \/ Cardinality((D \ {a, b}) \cup {c}) = Cardinality(D \ {a, b})
      \/ Cardinality((D \ {a, b}) \cup {c}) = Cardinality(D \ {a, b}) + 1
    BY <1>3, FS_AddElement
<1>5. Cardinality(D) \in Nat
    BY FS_CardinalityType
<1> QED
    BY <1>1, <1>3, <1>4, <1>5

LEMMA StepLess ==
    ASSUME TypeOK, TypeOK', NEW m \in Mergers, Step(m)
    PROVE  Less(Left(m)', Left(m))
PROOF
<1>1. /\ phase \in [Mergers -> Phases] /\ DOMAIN info = Mergers
      /\ changed \in [Mergers -> BOOLEAN] /\ DOMAIN next = Mergers
    BY DEF TypeOK
<1>2. IsGraph(graph)
    BY GraphAssumption DEF TypeOK
<1>3. IsFiniteSet(DOMAIN info[m]) /\ Cardinality(DOMAIN info[m]) \in Nat
    BY <1>2, FewKeys DEF TypeOK, Nodes
<1>4. /\ Stage["convert"] = 4 /\ Stage["conflicts"] = 3 /\ Stage["fold"] = 2
      /\ Stage["send"] = 1 /\ Stage["sent"] = 0
    BY DEF Stage
<1>5. ASSUME NEW k \in DOMAIN info[m], info'[m] = MapErase(info[m], {k})
      PROVE  Cardinality(DOMAIN info'[m]) < Cardinality(DOMAIN info[m])
    <2>1. DOMAIN info'[m] = DOMAIN info[m] \ {k}
        BY <1>5 DEF MapErase, Restrict
    <2>2. Cardinality(DOMAIN info[m] \ {k}) = Cardinality(DOMAIN info[m]) - 1
        BY <1>3, FS_RemoveElement
    <2> QED
        BY <1>3, <2>1, <2>2
<1>6. CASE Convert(m)
    <2>1. phase[m] = "convert" /\ phase'[m] = "conflicts" /\ UNCHANGED graph
        BY <1>1, <1>6 DEF Convert
    <2> QED
        BY <1>4, <2>1, LessToDo
<1>7. CASE ResolveConflict(m)
    <2> DEFINE c == Item(m)
               p == WithParent(Resolved(info[m][c.major], info[m][c.minor]), c.parent)
    <2>1. /\ AtItem(m) /\ Available(m) /\ UNCHANGED <<graph, phase>>
          /\ info'[m] = MapInsert(MapErase(info[m], {c.major, c.minor}), c.parent, p)
        BY <1>1, <1>7 DEF ResolveConflict
    <2>2. c.major \in DOMAIN info[m] /\ c.minor \in DOMAIN info[m] /\ c.major # c.minor
        <3>1. c \in Range(graph.conflicts)
            BY <1>2, <2>1 DEF AtItem, Item, Range, IsGraph, TypeOK
        <3> QED
            BY <1>2, <2>1, <3>1 DEF Available, IsGraph
    <2>3. DOMAIN info'[m] = (DOMAIN info[m] \ {c.major, c.minor}) \cup {c.parent}
        BY <2>1 DEF MapInsert, MapErase, Restrict
    <2>4. Cardinality(DOMAIN info'[m]) < Cardinality(DOMAIN info[m])
        <3> HIDE DEF c
        <3> QED
            BY <1>3, <2>2, <2>3, OneOfTwo
    <2> QED
        BY <2>1, <2>4, LessToDo
<1>8. CASE ResolveToNull(m)
    <2>1. phase[m] = "conflicts" /\ phase'[m] = "send" /\ UNCHANGED graph
        BY <1>1, <1>8 DEF ResolveToNull, AtItem
    <2> QED
        BY <1>4, <2>1, LessToDo
<1>9. CASE SkipConflict(m)
    <2>1. next'[m] = next[m] + 1 /\ UNCHANGED <<graph, phase, info, changed>>
        BY <1>1, <1>9 DEF SkipConflict
    <2> QED
        BY <2>1, LessToDo
<1>10. CASE EndPass(m)
    <2>1. /\ phase[m] = "conflicts" /\ UNCHANGED <<graph, info>> /\ ~changed'[m]
          /\ phase'[m] = IF changed[m] THEN "conflicts" ELSE "fold"
        BY <1>1, <1>10 DEF EndPass
    <2> QED
        BY <1>1, <1>4, <2>1, LessToDo
<1>11. ASSUME NEW k \in DOMAIN info[m], FoldFirst(m, k) \/ FoldNext(m, k)
       PROVE  Less(Left(m)', Left(m))
    <2>1. info'[m] = MapErase(info[m], {k}) /\ UNCHANGED <<graph, phase>>
        BY <1>1, <1>11 DEF FoldFirst, FoldNext
    <2> QED
        BY <1>5, <2>1, LessToDo
<1>12. CASE FoldEnd(m)
    <2>1. phase[m] = "fold" /\ phase'[m] = "send" /\ UNCHANGED graph
        BY <1>1, <1>12 DEF FoldEnd
    <2> QED
        BY <1>4, <2>1, LessToDo
<1>13. CASE Send(m)
    <2>1. phase[m] = "send" /\ phase'[m] = "sent" /\ UNCHANGED graph
        BY <1>1, <1>13 DEF Send
    <2> QED
        BY <1>4, <2>1, LessToDo
<1> QED
    BY <1>6, <1>7, <1>8, <1>9, <1>10, <1>11, <1>12, <1>13 DEF Step

\* A step is one merge's: the others have what they had.
LEMMA StepOthers ==
    ASSUME TypeOK, NEW m \in Mergers, Step(m), NEW n \in Mergers \ {m}
    PROVE  /\ UNCHANGED graph
           /\ phase'[n] = phase[n] /\ info'[n] = info[n] /\ acc'[n] = acc[n]
           /\ next'[n] = next[n] /\ changed'[n] = changed[n]
PROOF
<1>1. /\ DOMAIN phase = Mergers /\ DOMAIN info = Mergers /\ DOMAIN acc = Mergers
      /\ DOMAIN next = Mergers /\ DOMAIN changed = Mergers
    BY DEF TypeOK
<1>2. CASE Convert(m) \/ SkipConflict(m) \/ EndPass(m) \/ FoldEnd(m) \/ Send(m)
    BY <1>1, <1>2 DEF Convert, SkipConflict, EndPass, FoldEnd, Send
<1>3. CASE ResolveConflict(m)
    BY <1>1, <1>3 DEF ResolveConflict
<1>4. CASE ResolveToNull(m)
    BY <1>1, <1>4 DEF ResolveToNull
<1>5. ASSUME NEW k \in DOMAIN info[m], FoldFirst(m, k) \/ FoldNext(m, k)
      PROVE  /\ UNCHANGED <<graph, phase, next, changed>>
             /\ info'[n] = info[n] /\ acc'[n] = acc[n]
    BY <1>1, <1>5 DEF FoldFirst, FoldNext
<1> QED
    BY <1>2, <1>3, <1>4, <1>5 DEF Step

(***************************************************************************)
(* Merges come to an end, whatever the conflict list and however they are  *)
(* scheduled: each step leaves one of them less to do, and the others as   *)
(* much as they had.                                                       *)
(***************************************************************************)
THEOREM MergesAdvance == Spec => Advances
<1>1. ASSUME TypeOK, TypeOK', Next
      PROVE  \E m \in Mergers : /\ Less(Left(m)', Left(m))
                                /\ \A n \in Mergers \ {m} : Left(n)' = Left(n)
    <2>1. PICK m \in Mergers : Step(m)
        BY <1>1 DEF Next
    <2>2. Less(Left(m)', Left(m))
        BY <1>1, <2>1, StepLess
    <2>3. \A n \in Mergers \ {m} : Left(n)' = Left(n)
        BY <1>1, <2>1, StepOthers DEF Left
    <2> QED
        BY <2>2, <2>3
<1>2. TypeOK /\ TypeOK' /\ [Next]_vars
      => [\E m \in Mergers : /\ Less(Left(m)', Left(m))
                             /\ \A n \in Mergers \ {m} : Left(n)' = Left(n)]_vars
    BY <1>1
<1> QED
    BY <1>2, TypeCorrect, PTL DEF Spec, Advances

\* The guard of some step of merge m holds.
Ready(m) ==
    \/ phase[m] = "convert"
    \/ AtItem(m)
    \/ phase[m] = "conflicts" /\ next[m] > Len(graph.conflicts)
    \/ phase[m] = "fold" /\ \E k \in DOMAIN info[m] : FirstKey(m, k)
    \/ phase[m] = "fold" /\ DOMAIN info[m] = {} /\ acc[m] # {}
    \/ phase[m] = "send"

\* Merge m has a packet, from its conversion until it has sent one.
Holding(m) ==
    /\ phase[m] \in {"conflicts", "fold"} => Parts(m) # {}
    /\ phase[m] = "send" => acc[m] # {}
    /\ phase[m] = "sent" => result[m] # {}

HoldInv == \A m \in Mergers : Holding(m)

LEMMA HoldStep ==
    ASSUME TypeOK, NEW m \in Mergers, Holding(m), Step(m)
    PROVE  Holding(m)'
PROOF
<1>1. /\ DOMAIN phase = Mergers /\ DOMAIN info = Mergers /\ DOMAIN acc = Mergers
      /\ DOMAIN result = Mergers
    BY DEF TypeOK
<1>2. CASE Convert(m)
    <2>1. /\ phase'[m] = "conflicts" /\ DOMAIN info'[m] = graph.leaves
        BY <1>1, <1>2 DEF Convert
    <2>2. graph.leaves # {}
        BY GraphAssumption DEF TypeOK, IsGraph
    <2> QED
        BY <2>1, <2>2 DEF Holding, Parts
<1>3. CASE ResolveConflict(m)
    <2> DEFINE c == Item(m)
               p == WithParent(Resolved(info[m][c.major], info[m][c.minor]), c.parent)
    <2>1. /\ phase[m] = "conflicts" /\ UNCHANGED phase
          /\ info'[m] = MapInsert(MapErase(info[m], {c.major, c.minor}), c.parent, p)
        BY <1>1, <1>3 DEF ResolveConflict, AtItem
    <2>2. c.parent \in DOMAIN info'[m]
        BY <2>1 DEF MapInsert
    <2> QED
        BY <2>1, <2>2 DEF Holding, Parts
<1>4. CASE ResolveToNull(m)
    <2>1. phase'[m] = "send" /\ acc'[m] # {}
        BY <1>1, <1>4 DEF ResolveToNull
    <2> QED
        BY <2>1 DEF Holding
<1>5. CASE SkipConflict(m)
    BY <1>5 DEF SkipConflict, Holding, Parts
<1>6. CASE EndPass(m)
    <2>1. /\ phase[m] = "conflicts" /\ phase'[m] \in {"conflicts", "fold"}
          /\ UNCHANGED <<info, acc>>
        BY <1>1, <1>6 DEF EndPass
    <2> QED
        BY <2>1 DEF Holding, Parts
<1>7. ASSUME NEW k \in DOMAIN info[m], FoldFirst(m, k) \/ FoldNext(m, k)
      PROVE  Holding(m)'
    <2>1. phase[m] = "fold" /\ UNCHANGED phase /\ acc'[m] # {}
        BY <1>1, <1>7 DEF FoldFirst, FoldNext
    <2> QED
        BY <2>1 DEF Holding, Parts
<1>8. CASE FoldEnd(m)
    <2>1. phase'[m] = "send" /\ acc'[m] # {}
        BY <1>1, <1>8 DEF FoldEnd
    <2> QED
        BY <2>1 DEF Holding
<1>9. CASE Send(m)
    <2>1. /\ phase[m] = "send" /\ phase'[m] = "sent"
          /\ result'[m] = {Bytes(p) : p \in acc[m]}
        BY <1>1, <1>9 DEF Send
    <2>2. acc[m] # {}
        BY <2>1 DEF Holding
    <2> QED
        BY <2>1, <2>2 DEF Holding
<1> QED
    BY <1>2, <1>3, <1>4, <1>5, <1>6, <1>7, <1>8, <1>9 DEF Step

LEMMA HoldInvStep == TypeOK /\ HoldInv /\ [Next]_vars => HoldInv'
PROOF
<1> SUFFICES ASSUME TypeOK, HoldInv, [Next]_vars, NEW n \in Mergers PROVE Holding(n)'
    BY DEF HoldInv
<1>1. Holding(n)
    BY DEF HoldInv
<1>2. CASE UNCHANGED vars
    BY <1>1, <1>2 DEF vars, Holding, Parts
<1>3. ASSUME NEW m \in Mergers, Step(m) PROVE Holding(n)'
    <2>1. CASE n = m
        BY <1>1, <1>3, <2>1, HoldStep
    <2>2. CASE n # m
        <3>1. /\ phase'[n] = phase[n] /\ info'[n] = info[n] /\ acc'[n] = acc[n]
            BY <1>3, <2>2, StepOthers
        <3>2. result'[n] = result[n]
            BY <1>3, <2>2 DEF Step, Convert, ResolveConflict, ResolveToNull, SkipConflict,
                              EndPass, FoldFirst, FoldNext, FoldEnd, Send, TypeOK
        <3> QED
            BY <1>1, <3>1, <3>2 DEF Holding, Parts
    <2> QED
        BY <2>1, <2>2
<1> QED
    BY <1>2, <1>3 DEF Next

\* A map that is not empty has a first key.
LEMMA HasFirstKey ==
    ASSUME TypeOK, NEW m \in Mergers, DOMAIN info[m] # {}
    PROVE  \E k \in DOMAIN info[m] : FirstKey(m, k)
PROOF
<1> DEFINE T == {n \in Nat : n - 1 \in DOMAIN info[m]}
<1>1. \A k \in DOMAIN info[m] : k \in Int /\ k >= -1
    <2>1. IsGraph(graph)
        BY GraphAssumption DEF TypeOK
    <2> QED
        BY <2>1 DEF TypeOK, Nodes, NoParent, IsGraph
<1>2. \A k \in DOMAIN info[m] : k + 1 \in T
    <2> SUFFICES ASSUME NEW k \in DOMAIN info[m] PROVE k + 1 \in T
        OBVIOUS
    <2>1. k \in Int /\ k + 1 \in Nat /\ (k + 1) - 1 = k
        BY <1>1
    <2> QED
        BY <2>1
<1>3. T # {} /\ T \subseteq Nat
    BY <1>2
<1>4. PICK n \in T : \A j \in T : ~(<<j, n>> \in OpToRel(<, Nat))
    BY <1>3, NatLessThanWellFounded, WFMin
<1>5. \A j \in T : n <= j
    <2> HIDE DEF T
    <2>1. \A j \in T : ~(j < n)
        BY <1>3, <1>4 DEF OpToRel
    <2> QED
        BY <1>3, <2>1
<1>6. n - 1 \in DOMAIN info[m] /\ n \in Nat
    OBVIOUS
<1>7. \A k \in DOMAIN info[m] : n - 1 <= k
    BY <1>1, <1>2, <1>5, <1>6
<1> QED
    BY <1>6, <1>7 DEF FirstKey

(***************************************************************************)
(* A merge never comes to the end of an empty map ("No packets in          *)
(* packet_map to merge", after which merge_packet exits): until it has     *)
(* sent a packet, the guard of one of its steps holds.                     *)
(***************************************************************************)
THEOREM MergesGoOn ==
    Spec => [](\A m \in Mergers : IF phase[m] = "sent" THEN result[m] # {} ELSE Ready(m))
<1>1. Init => HoldInv
    BY DEF Init, HoldInv, Holding
<1>2. ASSUME TypeOK, HoldInv, NEW m \in Mergers
      PROVE  IF phase[m] = "sent" THEN result[m] # {} ELSE Ready(m)
    <2>1. Holding(m) /\ phase[m] \in Phases
        BY <1>2 DEF HoldInv, TypeOK
    <2>2. CASE phase[m] = "conflicts"
        <3>1. Len(graph.conflicts) \in Nat /\ next[m] \in Int
            BY <1>2, GraphAssumption DEF TypeOK, IsGraph
        <3> QED
            BY <2>2, <3>1 DEF Ready, AtItem
    <2>3. CASE phase[m] = "fold" /\ DOMAIN info[m] # {}
        BY <1>2, <2>3, HasFirstKey DEF Ready
    <2>4. CASE phase[m] = "fold" /\ DOMAIN info[m] = {}
        BY <2>1, <2>4 DEF Ready, Holding, Parts
    <2>5. CASE phase[m] \in {"convert", "send", "sent"}
        BY <2>1, <2>5 DEF Ready, Holding
    <2> QED
        BY <2>1, <2>2, <2>3, <2>4, <2>5 DEF Phases
<1>3. TypeOK /\ HoldInv
      => \A m \in Mergers : IF phase[m] = "sent" THEN result[m] # {} ELSE Ready(m)
    BY <1>2
<1> QED
    BY <1>1, <1>3, HoldInvStep, TypeCorrect, PTL DEF Spec
=============================================================================
