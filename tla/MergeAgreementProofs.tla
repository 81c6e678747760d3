------------------------ MODULE MergeAgreementProofs ------------------------
(***************************************************************************)
(* Two merges of one id send the same packet, for every service graph and  *)
(* conflict list, every set of dropping nodes and any number of merges at  *)
(* a time, although they write into each other's packets.                  *)
(*                                                                         *)
(* The proof compares all merges with one that is alone: they follow it,   *)
(* each at its own pace, and the leaves' packets are as the one that has   *)
(* come farthest has left them.  What it has written there before the      *)
(* others read it is what they write again, or never read.                 *)
(***************************************************************************)
EXTENDS MergePacketProofs

(***************************************************************************)
(* A merge alone, without null marks: its state is a view, its packets are *)
(* its own.  It stops, in the phase "null", at the first packet to resolve *)
(* that is made of the bytes of a leaf in z, those that were dropped.      *)
(***************************************************************************)
View(p, i, n, c, a, b) ==
    [phase |-> p, info |-> i, next |-> n, changed |-> c, acc |-> a, buf |-> b]

Value(b, p) == IF p.home = Own THEN p.own ELSE b[p.home]

NullAlone(z, p, q) == p.home \in z \/ q.home \in z

HeadersAlone(b, p, q) ==
    [f \in Fields |-> IF f \in (q.fields \ p.fields) \ {"PAYLOAD"}
                      THEN Value(b, q)[f] ELSE Value(b, p)[f]]

BufAlone(b, p, q) == [l \in DOMAIN b |-> IF l = p.home THEN HeadersAlone(b, p, q) ELSE b[l]]

Melded(b, p, q, more) ==
    [home   |-> IF CopiesPayload(p, q) THEN Own ELSE p.home,
     own    |-> [f \in Fields |-> IF f \in q.fields \ p.fields
                                  THEN Value(b, q)[f] ELSE Value(b, p)[f]],
     fields |-> p.fields \cup q.fields \cup more]

ParentWrites(g, c) == IF c.parent \in DOMAIN g.nf THEN Writes(g, c.parent) ELSE {}

StartAlone(g) ==
    LET sent == [l \in g.leaves |-> [f \in Fields |-> Arrived(g, l, f)]]
    IN View("conflicts",
            [l \in g.leaves |-> [home |-> l, own |-> sent[l], fields |-> Writes(g, l)]],
            1, FALSE, {}, sent)

\* Where a merge alone has a conflict whose packets are both there.
Faces(g, v, c, p, q) ==
    /\ v.phase = "conflicts" /\ v.next <= Len(g.conflicts) /\ c = g.conflicts[v.next]
    /\ c.major \in DOMAIN v.info /\ c.minor \in DOMAIN v.info
    /\ p = v.info[c.major] /\ q = v.info[c.minor]

AfterResolve(g, v, c, p, q) ==
    View("conflicts",
         MapInsert(MapErase(v.info, {c.major, c.minor}), c.parent,
                   Melded(v.buf, p, q, ParentWrites(g, c))),
         v.next + 1, TRUE, v.acc, BufAlone(v.buf, p, q))

AfterFold(v, k, p) ==
    View("fold", MapErase(v.info, {k}), v.next, v.changed,
         {Melded(v.buf, p, v.info[k], {})}, BufAlone(v.buf, p, v.info[k]))

AfterNull(v, p) == View("null", <<>>, v.next, v.changed, {p}, v.buf)

ResolveAlone(g, z, v, w) ==
    \E c, p, q : /\ Faces(g, v, c, p, q) /\ ~NullAlone(z, p, q)
                 /\ w = AfterResolve(g, v, c, p, q)

ResolveToNullAlone(g, z, v, w) ==
    \E c, p, q : Faces(g, v, c, p, q) /\ NullAlone(z, p, q) /\ w = AfterNull(v, p)

SkipAlone(g, v, w) ==
    /\ v.phase = "conflicts" /\ v.next <= Len(g.conflicts)
    /\ ~({g.conflicts[v.next].major, g.conflicts[v.next].minor} \subseteq DOMAIN v.info)
    /\ w = View(v.phase, v.info, v.next + 1, v.changed, v.acc, v.buf)

EndPassAlone(g, v, w) ==
    /\ v.phase = "conflicts" /\ v.next > Len(g.conflicts)
    /\ w = View(IF v.changed THEN "conflicts" ELSE "fold", v.info, 1, FALSE, v.acc, v.buf)

First(v, k) == k \in DOMAIN v.info /\ \A j \in DOMAIN v.info : k <= j

FoldFirstAlone(v, w) ==
    \E k : /\ v.phase = "fold" /\ v.acc = {} /\ First(v, k)
           /\ w = View("fold", MapErase(v.info, {k}), v.next, v.changed, {v.info[k]}, v.buf)

FoldNextAlone(z, v, w) ==
    \E k : \E p \in v.acc : /\ v.phase = "fold" /\ First(v, k) /\ ~NullAlone(z, p, v.info[k])
                            /\ w = AfterFold(v, k, p)

FoldToNullAlone(z, v, w) ==
    \E k : \E p \in v.acc : /\ v.phase = "fold" /\ First(v, k) /\ NullAlone(z, p, v.info[k])
                            /\ w = AfterNull(v, p)

FoldEndAlone(v, w) ==
    /\ v.phase = "fold" /\ DOMAIN v.info = {} /\ v.acc # {}
    /\ w = View("send", v.info, v.next, v.changed, v.acc, v.buf)

StepAlone(g, z, v, w) ==
    \/ ResolveAlone(g, z, v, w) \/ ResolveToNullAlone(g, z, v, w)
    \/ SkipAlone(g, v, w) \/ EndPassAlone(g, v, w)
    \/ FoldFirstAlone(v, w) \/ FoldNextAlone(z, v, w) \/ FoldToNullAlone(z, v, w)
    \/ FoldEndAlone(v, w)

Over(v) == v.phase \in {"send", "null"}
-----------------------------------------------------------------------------
(* What holds along the way of a merge alone                               *)

PartsOf(v) == {v.info[k] : k \in DOMAIN v.info} \cup v.acc

\* No two packets are made of one leaf's bytes.
Good(g, v) ==
    /\ v.next \in Nat \ {0}
    /\ DOMAIN v.info \subseteq Int
    /\ v.buf = [l \in g.leaves |-> v.buf[l]]
    /\ \A l \in g.leaves : v.buf[l] = [f \in Fields |-> v.buf[l][f]]
    /\ \A x \in PartsOf(v) : x.home \in g.leaves \cup {Own}
    /\ \A k, j \in DOMAIN v.info :
          v.info[k].home = v.info[j].home /\ v.info[k].home # Own => k = j
    /\ \A k \in DOMAIN v.info : \A a \in v.acc : v.info[k].home = a.home => a.home = Own
    /\ \A a, b \in v.acc : a = b

Alive(v, l) == \E x \in PartsOf(v) : x.home = l

\* View w comes after view v: packets that v has no use for are not written
\* to any more, nor is a field that v says was written, and a packet that is
\* still in use has all the fields it had.
Later(g, v, w) ==
    \A l \in g.leaves :
       /\ ~Alive(v, l) => ~Alive(w, l) /\ w.buf[l] = v.buf[l]
       /\ \A y \in PartsOf(v) : y.home = l =>
             /\ \A f \in y.fields \cap Fields : w.buf[l][f] = v.buf[l][f]
             /\ \A x \in PartsOf(w) : x.home = l => y.fields \subseteq x.fields

\* A step resolves p and q, or writes nothing.
Melds(v, w, p, q, more) ==
    /\ p \in PartsOf(v) /\ q \in PartsOf(v)
    /\ p.home = q.home => p.home = Own
    /\ w.buf = BufAlone(v.buf, p, q)
    /\ \A y \in PartsOf(w) :
          \/ y = Melded(v.buf, p, q, more)
          \/ y \in PartsOf(v) /\ (y.home # Own => y.home \notin {p.home, q.home})

Quiet(v, w) == w.buf = v.buf /\ PartsOf(w) \subseteq PartsOf(v)

Run(g, z, n, tr) ==
    /\ n \in Nat
    /\ tr[0] = StartAlone(g)
    /\ \A i \in 0 .. n : Good(g, tr[i])
    /\ \A i \in 0 .. n : i < n => StepAlone(g, z, tr[i], tr[i + 1])
    /\ \A i, j \in 0 .. n : i <= j => Later(g, tr[i], tr[j])
-----------------------------------------------------------------------------
(* How the merges follow it                                                *)

Nulled == {l \in graph.leaves : DroppedLeaf(l)}

Same(p, a) ==
    /\ p.home = a.home /\ p.fields = a.fields
    /\ p.home = Own => ~p.own.null /\ p.own.val = a.own

Abreast(m, v) ==
    /\ phase[m] = v.phase /\ next[m] = v.next /\ changed[m] = v.changed
    /\ DOMAIN info[m] = DOMAIN v.info
    /\ \A k \in DOMAIN info[m] : Same(info[m][k], v.info[k])
    /\ acc[m] = {} <=> v.acc = {}
    /\ \A p \in acc[m] : \A a \in v.acc : Same(p, a)

\* The merge has met a null packet: from then on it only writes null marks.
Doomed(m, t) ==
    /\ t.phase = "null"
    /\ phase[m] \in {"fold", "send"} /\ acc[m] # {}
    /\ \A p \in acc[m] : \E a \in t.acc :
          /\ p.home = a.home
          /\ IF p.home = Own THEN p.own.null /\ p.own.val = a.own ELSE leafBuf[p.home].null

Sent(m, t) ==
    /\ Over(t)
    /\ \A r \in result[m] : \E a \in t.acc : r.val = Value(t.buf, a)

LeavesAt(t) ==
    \A l \in graph.leaves :
       /\ leafBuf[l].val = t.buf[l]
       /\ leafBuf[l].null <=> l \in Nulled \/ (t.phase = "null" /\ \E a \in t.acc : a.home = l)

Follows(m, n, tr) ==
    /\ phase[m] \in {"conflicts", "fold", "send"} =>
          (\E i \in 0 .. n : Abreast(m, tr[i])) \/ Doomed(m, tr[n])
    /\ phase[m] = "sent" => Sent(m, tr[n])
    /\ phase[m] = "convert" => next[m] = 1 /\ changed[m] = FALSE /\ acc[m] = {}

Together(n, tr) ==
    /\ Run(graph, Nulled, n, tr)
    /\ LeavesAt(tr[n])
    /\ \A m \in Mergers : Follows(m, n, tr)

AgreeInv == \E n, tr : Together(n, tr)

OnlyMoves(m) ==
    /\ UNCHANGED <<graph, dropped>>
    /\ \A x \in Mergers \ {m} :
          /\ phase'[x] = phase[x] /\ info'[x] = info[x] /\ next'[x] = next[x]
          /\ changed'[x] = changed[x] /\ acc'[x] = acc[x] /\ result'[x] = result[x]
-----------------------------------------------------------------------------
LEMMA OwnNoLeaf == ASSUME NEW g, IsGraph(g) PROVE Own \notin g.leaves
BY DEF IsGraph, Own

LEMMA UniqueHome ==
    ASSUME NEW g, NEW v, Good(g, v), NEW x \in PartsOf(v), NEW y \in PartsOf(v),
           x.home = y.home, x.home # Own
    PROVE  x = y
PROOF
<1>1. CASE x \in v.acc /\ y \in v.acc
    BY <1>1 DEF Good
<1>2. CASE \E k \in DOMAIN v.info : x = v.info[k] /\ y \in v.acc
    BY <1>2 DEF Good
<1>3. CASE \E k \in DOMAIN v.info : y = v.info[k] /\ x \in v.acc
    BY <1>3 DEF Good
<1>4. CASE \E k, j \in DOMAIN v.info : x = v.info[k] /\ y = v.info[j]
    BY <1>4 DEF Good
<1> QED
    BY <1>1, <1>2, <1>3, <1>4 DEF PartsOf

LEMMA LaterSelf ==
    ASSUME NEW g, IsGraph(g), NEW v, Good(g, v)
    PROVE  Later(g, v, v)
BY UniqueHome, OwnNoLeaf DEF Later, Alive

\* Whatever a view is later than, its next ones are.
LEMMA LaterMeld ==
    ASSUME NEW g, IsGraph(g), NEW u, NEW v, NEW w, Good(g, v), Later(g, u, v),
           NEW p, NEW q, NEW more, Melds(v, w, p, q, more)
    PROVE  Later(g, u, w)
PROOF
<1> SUFFICES ASSUME NEW l \in g.leaves
             PROVE  /\ ~Alive(u, l) => ~Alive(w, l) /\ w.buf[l] = u.buf[l]
                    /\ \A y \in PartsOf(u) : y.home = l =>
                          /\ \A f \in y.fields \cap Fields : w.buf[l][f] = u.buf[l][f]
                          /\ \A x \in PartsOf(w) : x.home = l => y.fields \subseteq x.fields
    BY DEF Later
<1> DEFINE r == Melded(v.buf, p, q, more)
<1>1. r.home \in {p.home, Own} /\ p.fields \subseteq r.fields
    BY DEF Melded
<1>2. l # Own
    BY OwnNoLeaf
<1>3. p \in PartsOf(v) /\ \A x \in PartsOf(w) : x = r \/ x \in PartsOf(v)
    BY DEF Melds
<1>4. w.buf[l] = IF l = p.home THEN HeadersAlone(v.buf, p, q) ELSE v.buf[l]
    BY DEF Melds, BufAlone, Good
<1> HIDE DEF r
<1>5. Alive(w, l) => Alive(v, l)
    BY <1>1, <1>2, <1>3 DEF Alive
<1>6. ~Alive(u, l) => ~Alive(w, l) /\ w.buf[l] = u.buf[l]
    BY <1>3, <1>4, <1>5 DEF Later, Alive
<1>7. ASSUME NEW y \in PartsOf(u), y.home = l, NEW f \in y.fields \cap Fields
      PROVE  w.buf[l][f] = u.buf[l][f]
    <2>1. v.buf[l][f] = u.buf[l][f]
        BY <1>7 DEF Later
    <2>2. CASE l # p.home
        BY <1>4, <2>1, <2>2
    <2>3. CASE l = p.home
        <3>1. f \in p.fields
            BY <1>3, <1>7, <2>3 DEF Later
        <3>2. Value(v.buf, p) = v.buf[l]
            BY <1>2, <2>3 DEF Value
        <3> QED
            BY <1>4, <1>7, <2>1, <2>3, <3>1, <3>2 DEF HeadersAlone
    <2> QED
        BY <2>2, <2>3
<1>8. ASSUME NEW y \in PartsOf(u), y.home = l, NEW x \in PartsOf(w), x.home = l
      PROVE  y.fields \subseteq x.fields
    <2>1. CASE x \in PartsOf(v)
        BY <1>8, <2>1 DEF Later
    <2>2. CASE x = r
        <3>1. p.home = l
            BY <1>1, <1>2, <1>8, <2>2
        <3>2. y.fields \subseteq p.fields
            BY <1>3, <1>8, <3>1 DEF Later
        <3> QED
            BY <1>1, <2>2, <3>2
    <2> QED
        BY <1>3, <2>1, <2>2
<1> QED
    BY <1>6, <1>7, <1>8

LEMMA LaterQuiet ==
    ASSUME NEW g, NEW u, NEW v, NEW w, Later(g, u, v), Quiet(v, w)
    PROVE  Later(g, u, w)
BY DEF Later, Quiet, Alive
-----------------------------------------------------------------------------
LEMMA InsertFacts ==
    ASSUME NEW map, NEW keys, NEW key, NEW r,
           NEW k \in DOMAIN MapInsert(MapErase(map, keys), key, r)
    PROVE  \/ /\ k \in DOMAIN map \ keys
              /\ MapInsert(MapErase(map, keys), key, r)[k] = map[k]
           \/ /\ k = key /\ k \notin DOMAIN map \ keys
              /\ MapInsert(MapErase(map, keys), key, r)[k] = r
PROOF
<1> DEFINE left == MapErase(map, keys)
<1>1. /\ DOMAIN left = DOMAIN map \ keys
      /\ \A j \in DOMAIN left : left[j] = map[j]
    BY DEF MapErase, Restrict
<1> HIDE DEF left
<1>2. /\ k \in DOMAIN left \cup {key}
      /\ MapInsert(left, key, r)[k] = IF k \in DOMAIN left THEN left[k] ELSE r
    BY DEF MapInsert, left
<1> QED
    BY <1>1, <1>2 DEF left

LEMMA FacedItem ==
    ASSUME NEW g, IsGraph(g), NEW v, Good(g, v), NEW c, NEW p, NEW q, Faces(g, v, c, p, q)
    PROVE  /\ c.major # c.minor /\ c.parent \in Int
           /\ p \in PartsOf(v) /\ q \in PartsOf(v)
           /\ p.home = q.home => p.home = Own
PROOF
<1>1. c \in Items(DOMAIN g.nf) /\ c \in Range(g.conflicts)
    BY DEF IsGraph, Faces, Good, Range
<1>2. c.major # c.minor /\ c.parent \in Int
    BY <1>1 DEF IsGraph, Items, NoParent
<1> QED
    BY <1>2 DEF Faces, Good, PartsOf

\* The keys a resolution leaves: those that were there, and the parent's.
LEMMA ResolveMelds ==
    ASSUME NEW g, IsGraph(g), NEW v, Good(g, v), NEW c, NEW p, NEW q, Faces(g, v, c, p, q),
           NEW w, w = AfterResolve(g, v, c, p, q)
    PROVE  Good(g, w) /\ Melds(v, w, p, q, ParentWrites(g, c))
PROOF
<1> DEFINE more == ParentWrites(g, c)
           r == Melded(v.buf, p, q, more)
<1>2. /\ w.info = MapInsert(MapErase(v.info, {c.major, c.minor}), c.parent, r)
      /\ w.next = v.next + 1 /\ w.acc = v.acc /\ w.buf = BufAlone(v.buf, p, q)
    BY DEF AfterResolve, View
<1>3. r.home \in {p.home, Own}
    BY DEF Melded
<1> HIDE DEF r, more
<1>4. /\ c.major # c.minor /\ c.parent \in Int
      /\ p \in PartsOf(v) /\ q \in PartsOf(v)
      /\ p.home = q.home => p.home = Own
    BY FacedItem
<1>5. /\ c.major \in DOMAIN v.info /\ c.minor \in DOMAIN v.info
      /\ p = v.info[c.major] /\ q = v.info[c.minor]
    BY DEF Faces
<1>6. /\ DOMAIN w.info = (DOMAIN v.info \ {c.major, c.minor}) \cup {c.parent}
      /\ \A k \in DOMAIN w.info :
            \/ k \in DOMAIN v.info \ {c.major, c.minor} /\ w.info[k] = v.info[k]
            \/ k = c.parent /\ w.info[k] = r
    <2>1. DOMAIN w.info = (DOMAIN v.info \ {c.major, c.minor}) \cup {c.parent}
        BY <1>2 DEF MapInsert, MapErase, Restrict
    <2>2. ASSUME NEW k \in DOMAIN w.info
          PROVE  \/ k \in DOMAIN v.info \ {c.major, c.minor} /\ w.info[k] = v.info[k]
                 \/ k = c.parent /\ w.info[k] = r
        BY <1>2, <2>2, InsertFacts
    <2> QED
        BY <2>1, <2>2
<1>7. ASSUME NEW k \in DOMAIN v.info \ {c.major, c.minor}, v.info[k].home # Own
      PROVE  v.info[k].home \notin {p.home, q.home}
    BY <1>5, <1>7 DEF Good
<1>8. ASSUME NEW a \in v.acc, a.home # Own
      PROVE  a.home \notin {p.home, q.home}
    BY <1>5, <1>8 DEF Good
<1>9. w.buf = [l \in g.leaves |-> w.buf[l]]
      /\ \A l \in g.leaves : w.buf[l] = [f \in Fields |-> w.buf[l][f]]
    <2>1. DOMAIN v.buf = g.leaves /\ \A l \in g.leaves : v.buf[l] = [f \in Fields |-> v.buf[l][f]]
        BY DEF Good
    <2>2. HeadersAlone(v.buf, p, q) = [f \in Fields |-> HeadersAlone(v.buf, p, q)[f]]
        BY DEF HeadersAlone
    <2>3. w.buf = [l \in g.leaves |-> IF l = p.home THEN HeadersAlone(v.buf, p, q) ELSE v.buf[l]]
        BY <1>2, <2>1 DEF BufAlone
    <2> QED
        BY <2>1, <2>2, <2>3
<1>10. \A x \in PartsOf(w) : x = r \/ x \in PartsOf(v)
    BY <1>2, <1>6 DEF PartsOf
<1>11. \A x \in PartsOf(w) : x.home \in g.leaves \cup {Own}
    BY <1>3, <1>4, <1>10 DEF Good
<1>12. ASSUME NEW k \in DOMAIN w.info, NEW j \in DOMAIN w.info,
              w.info[k].home = w.info[j].home, w.info[k].home # Own
       PROVE  k = j
    <2>1. CASE k = c.parent /\ w.info[k] = r
        BY <1>3, <1>6, <1>7, <1>12, <2>1
    <2>2. CASE j = c.parent /\ w.info[j] = r
        BY <1>3, <1>6, <1>7, <1>12, <2>2
    <2>3. CASE /\ k \in DOMAIN v.info /\ w.info[k] = v.info[k]
               /\ j \in DOMAIN v.info /\ w.info[j] = v.info[j]
        BY <1>12, <2>3 DEF Good
    <2> QED
        BY <1>6, <2>1, <2>2, <2>3
<1>13. ASSUME NEW k \in DOMAIN w.info, NEW a \in w.acc, w.info[k].home = a.home
       PROVE  a.home = Own
    <2>1. CASE k \in DOMAIN v.info /\ w.info[k] = v.info[k]
        BY <1>2, <1>13, <2>1 DEF Good
    <2>2. CASE w.info[k] = r
        BY <1>2, <1>3, <1>8, <1>13, <2>2
    <2> QED
        BY <1>6, <2>1, <2>2
<1>14. Good(g, w)
    <2>1. w.next \in Nat \ {0} /\ DOMAIN w.info \subseteq Int /\ \A a, b \in w.acc : a = b
        BY <1>2, <1>4, <1>6 DEF Good
    <2> QED
        BY <1>9, <1>11, <1>12, <1>13, <2>1 DEF Good
<1>15. \A x \in PartsOf(w) :
          x = r \/ (x \in PartsOf(v) /\ (x.home # Own => x.home \notin {p.home, q.home}))
    <2> SUFFICES ASSUME NEW x \in PartsOf(w), x # r
                 PROVE  x \in PartsOf(v) /\ (x.home # Own => x.home \notin {p.home, q.home})
        OBVIOUS
    <2>1. CASE x \in w.acc
        BY <1>2, <1>8, <1>10, <2>1
    <2>2. CASE \E k \in DOMAIN w.info : x = w.info[k]
        BY <1>6, <1>7, <1>10, <2>2
    <2> QED
        BY <2>1, <2>2 DEF PartsOf
<1>16. Melds(v, w, p, q, more)
    BY <1>2, <1>4, <1>15 DEF Melds, r
<1> QED
    BY <1>14, <1>16 DEF more

LEMMA FoldFacts ==
    ASSUME NEW g, NEW v, Good(g, v), NEW k, First(v, k), NEW p \in v.acc
    PROVE  /\ p \in PartsOf(v) /\ v.info[k] \in PartsOf(v)
           /\ p.home = v.info[k].home => p.home = Own
BY DEF Good, PartsOf, First

LEMMA FoldMelds ==
    ASSUME NEW g, NEW v, Good(g, v), NEW k, First(v, k), NEW p \in v.acc,
           NEW w, w = AfterFold(v, k, p)
    PROVE  Good(g, w) /\ Melds(v, w, p, v.info[k], {})
PROOF
<1> DEFINE q == v.info[k]
           r == Melded(v.buf, p, q, {})
<1>3. r.home \in {p.home, Own}
    BY DEF Melded
<1>4. /\ w.info = MapErase(v.info, {k}) /\ w.next = v.next /\ w.acc = {r}
      /\ w.buf = BufAlone(v.buf, p, q)
    BY DEF AfterFold, View
<1> HIDE DEF r
<1>5. DOMAIN w.info = DOMAIN v.info \ {k} /\ \A j \in DOMAIN w.info : w.info[j] = v.info[j]
    BY <1>4 DEF MapErase, Restrict
<1>6. /\ p \in PartsOf(v) /\ q \in PartsOf(v) /\ k \in DOMAIN v.info
      /\ p.home = q.home => p.home = Own
    BY FoldFacts DEF First
<1>7. ASSUME NEW j \in DOMAIN w.info, w.info[j].home # Own
      PROVE  w.info[j].home \notin {p.home, q.home}
    BY <1>5, <1>6, <1>7 DEF Good
<1>8. w.buf = [l \in g.leaves |-> w.buf[l]]
      /\ \A l \in g.leaves : w.buf[l] = [f \in Fields |-> w.buf[l][f]]
    <2>1. DOMAIN v.buf = g.leaves /\ \A l \in g.leaves : v.buf[l] = [f \in Fields |-> v.buf[l][f]]
        BY DEF Good
    <2>2. HeadersAlone(v.buf, p, q) = [f \in Fields |-> HeadersAlone(v.buf, p, q)[f]]
        BY DEF HeadersAlone
    <2> QED
        BY <1>4, <2>1, <2>2 DEF BufAlone
<1>9. \A x \in PartsOf(w) : x = r \/ (x \in PartsOf(v) /\ \E j \in DOMAIN w.info : x = w.info[j])
    BY <1>4, <1>5 DEF PartsOf
<1>10. Good(g, w)
    <2>1. \A x \in PartsOf(w) : x.home \in g.leaves \cup {Own}
        BY <1>3, <1>6, <1>9 DEF Good
    <2>2. \A i, j \in DOMAIN w.info :
             w.info[i].home = w.info[j].home /\ w.info[i].home # Own => i = j
        BY <1>5 DEF Good
    <2>3. \A j \in DOMAIN w.info : \A a \in w.acc : w.info[j].home = a.home => a.home = Own
        BY <1>3, <1>4, <1>7
    <2>4. w.next \in Nat \ {0} /\ DOMAIN w.info \subseteq Int /\ \A a, b \in w.acc : a = b
        BY <1>4, <1>5 DEF Good
    <2> QED
        BY <1>8, <2>1, <2>2, <2>3, <2>4 DEF Good
<1>11. Melds(v, w, p, q, {})
    BY <1>4, <1>6, <1>7, <1>9 DEF Melds, r
<1> QED
    BY <1>10, <1>11

LEMMA QuietFacts ==
    ASSUME NEW g, NEW z, NEW v, Good(g, v), NEW w,
           \/ SkipAlone(g, v, w) \/ EndPassAlone(g, v, w) \/ FoldEndAlone(v, w)
           \/ FoldFirstAlone(v, w) \/ ResolveToNullAlone(g, z, v, w) \/ FoldToNullAlone(z, v, w)
    PROVE  Good(g, w) /\ Quiet(v, w)
PROOF
<1>1. CASE SkipAlone(g, v, w) \/ EndPassAlone(g, v, w) \/ FoldEndAlone(v, w)
    <2>1. w.info = v.info /\ w.acc = v.acc /\ w.buf = v.buf /\ w.next \in {v.next, v.next + 1, 1}
        BY <1>1 DEF View, SkipAlone, EndPassAlone, FoldEndAlone
    <2>2. PartsOf(w) = PartsOf(v) /\ w.next \in Nat \ {0}
        BY <2>1 DEF PartsOf, Good
    <2> QED
        BY <2>1, <2>2 DEF Good, Quiet
<1>2. CASE FoldFirstAlone(v, w)
    <2>1. PICK k : /\ v.acc = {} /\ First(v, k)
                   /\ w = View("fold", MapErase(v.info, {k}), v.next, v.changed, {v.info[k]}, v.buf)
        BY <1>2 DEF FoldFirstAlone
    <2>2. /\ w.info = MapErase(v.info, {k}) /\ w.next = v.next /\ w.acc = {v.info[k]}
          /\ w.buf = v.buf
        BY <2>1 DEF View
    <2>3. DOMAIN w.info = DOMAIN v.info \ {k} /\ \A j \in DOMAIN w.info : w.info[j] = v.info[j]
        BY <2>2 DEF MapErase, Restrict
    <2>4. k \in DOMAIN v.info
        BY <2>1 DEF First
    <2>5. Quiet(v, w)
        BY <2>2, <2>3, <2>4 DEF Quiet, PartsOf
    <2>6. \A j \in DOMAIN w.info : \A a \in w.acc : w.info[j].home = a.home => a.home = Own
        BY <2>2, <2>3, <2>4 DEF Good
    <2>7. \A x \in PartsOf(w) : x.home \in g.leaves \cup {Own}
        BY <2>5 DEF Good, Quiet
    <2>8. \A i, j \in DOMAIN w.info :
             w.info[i].home = w.info[j].home /\ w.info[i].home # Own => i = j
        BY <2>3 DEF Good
    <2>9. w.next \in Nat \ {0} /\ DOMAIN w.info \subseteq Int /\ \A a, b \in w.acc : a = b
        BY <2>2, <2>3 DEF Good
    <2> QED
        BY <2>2, <2>5, <2>6, <2>7, <2>8, <2>9 DEF Good
<1>3. CASE ResolveToNullAlone(g, z, v, w) \/ FoldToNullAlone(z, v, w)
    <2>1. PICK p : p \in PartsOf(v) /\ w = AfterNull(v, p)
        BY <1>3 DEF ResolveToNullAlone, FoldToNullAlone, Faces, PartsOf
    <2>2. w.info = <<>> /\ w.next = v.next /\ w.acc = {p} /\ w.buf = v.buf
        BY <2>1 DEF AfterNull, View
    <2>3. DOMAIN w.info = {}
        BY <2>2
    <2>4. PartsOf(w) = {p}
        BY <2>2, <2>3 DEF PartsOf
    <2>5. Quiet(v, w)
        BY <2>1, <2>2, <2>4 DEF Quiet
    <2>6. \A x \in PartsOf(w) : x.home \in g.leaves \cup {Own}
        BY <2>5 DEF Good, Quiet
    <2> QED
        BY <2>2, <2>3, <2>5, <2>6 DEF Good
<1> QED
    BY <1>1, <1>2, <1>3

LEMMA FirstUnique ==
    ASSUME NEW g, NEW v, Good(g, v), NEW j, NEW k, First(v, j), First(v, k)
    PROVE  j = k
PROOF
<1>1. j \in Int /\ k \in Int /\ j <= k /\ k <= j
    BY DEF First, Good
<1> QED
    BY <1>1

\* When a merge alone takes each of its steps.
LEMMA Guards ==
    ASSUME NEW g, IsGraph(g), NEW z, NEW v, Good(g, v), NEW w
    PROVE  LET atItem == v.phase = "conflicts" /\ ~(v.next > Len(g.conflicts))
               item == g.conflicts[v.next]
               there == {item.major, item.minor} \subseteq DOMAIN v.info
               more == v.phase = "fold" /\ DOMAIN v.info # {}
           IN /\ ResolveAlone(g, z, v, w) \/ ResolveToNullAlone(g, z, v, w) => atItem /\ there
              /\ SkipAlone(g, v, w) => atItem /\ ~there
              /\ EndPassAlone(g, v, w) => v.phase = "conflicts" /\ v.next > Len(g.conflicts)
              /\ FoldFirstAlone(v, w) => more /\ v.acc = {}
              /\ FoldNextAlone(z, v, w) \/ FoldToNullAlone(z, v, w) => more /\ v.acc # {}
              /\ FoldEndAlone(v, w) => v.phase = "fold" /\ DOMAIN v.info = {} /\ v.acc # {}
PROOF
<1>1. Len(g.conflicts) \in Nat /\ v.next \in Nat
    BY DEF IsGraph, Good
<1>2. ASSUME ResolveAlone(g, z, v, w) \/ ResolveToNullAlone(g, z, v, w)
      PROVE  /\ v.phase = "conflicts" /\ ~(v.next > Len(g.conflicts))
             /\ {g.conflicts[v.next].major, g.conflicts[v.next].minor} \subseteq DOMAIN v.info
    <2>1. \E c, p, q : Faces(g, v, c, p, q)
        BY <1>2 DEF ResolveAlone, ResolveToNullAlone
    <2> QED
        BY <1>1, <2>1 DEF Faces
<1>3. SkipAlone(g, v, w) =>
         /\ v.phase = "conflicts" /\ ~(v.next > Len(g.conflicts))
         /\ ~({g.conflicts[v.next].major, g.conflicts[v.next].minor} \subseteq DOMAIN v.info)
    BY <1>1 DEF SkipAlone
<1>4. EndPassAlone(g, v, w) => v.phase = "conflicts" /\ v.next > Len(g.conflicts)
    BY DEF EndPassAlone
<1>5. FoldFirstAlone(v, w) => v.phase = "fold" /\ DOMAIN v.info # {} /\ v.acc = {}
    BY DEF FoldFirstAlone, First
<1>6. FoldNextAlone(z, v, w) \/ FoldToNullAlone(z, v, w) =>
         v.phase = "fold" /\ DOMAIN v.info # {} /\ v.acc # {}
    BY DEF FoldNextAlone, FoldToNullAlone, First
<1>7. FoldEndAlone(v, w) => v.phase = "fold" /\ DOMAIN v.info = {} /\ v.acc # {}
    BY DEF FoldEndAlone
<1> QED
    BY <1>2, <1>3, <1>4, <1>5, <1>6, <1>7

LEMMA OneResolve ==
    ASSUME NEW g, NEW z, NEW v, NEW w1, NEW w2,
           ResolveAlone(g, z, v, w1) \/ ResolveToNullAlone(g, z, v, w1),
           ResolveAlone(g, z, v, w2) \/ ResolveToNullAlone(g, z, v, w2)
    PROVE  w1 = w2
BY DEF ResolveAlone, ResolveToNullAlone, Faces

LEMMA OneFold ==
    ASSUME NEW g, NEW z, NEW v, Good(g, v), NEW w1, NEW w2,
           FoldNextAlone(z, v, w1) \/ FoldToNullAlone(z, v, w1),
           FoldNextAlone(z, v, w2) \/ FoldToNullAlone(z, v, w2)
    PROVE  w1 = w2
PROOF
<1> DEFINE Goes(k, p, w) == \/ ~NullAlone(z, p, v.info[k]) /\ w = AfterFold(v, k, p)
                            \/ NullAlone(z, p, v.info[k]) /\ w = AfterNull(v, p)
<1>1. PICK k1 : \E p \in v.acc : First(v, k1) /\ Goes(k1, p, w1)
    BY DEF FoldNextAlone, FoldToNullAlone
<1>2. PICK p1 \in v.acc : First(v, k1) /\ Goes(k1, p1, w1)
    BY <1>1
<1>3. PICK k2 : \E p \in v.acc : First(v, k2) /\ Goes(k2, p, w2)
    BY DEF FoldNextAlone, FoldToNullAlone
<1>4. PICK p2 \in v.acc : First(v, k2) /\ Goes(k2, p2, w2)
    BY <1>3
<1>5. k1 = k2 /\ p1 = p2
    BY <1>2, <1>4, FirstUnique DEF Good
<1> QED
    BY <1>2, <1>4, <1>5

\* A merge alone has one way to go on, and none when it is over.
LEMMA OneStep ==
    ASSUME NEW g, IsGraph(g), NEW z, NEW v, Good(g, v), NEW w1, NEW w2,
           StepAlone(g, z, v, w1), StepAlone(g, z, v, w2)
    PROVE  w1 = w2
PROOF
<1> DEFINE Resolves(w) == ResolveAlone(g, z, v, w) \/ ResolveToNullAlone(g, z, v, w)
           Folds(w) == FoldNextAlone(z, v, w) \/ FoldToNullAlone(z, v, w)
<1>1. /\ Resolves(w1) \/ SkipAlone(g, v, w1) \/ EndPassAlone(g, v, w1)
         \/ FoldFirstAlone(v, w1) \/ Folds(w1) \/ FoldEndAlone(v, w1)
      /\ Resolves(w2) \/ SkipAlone(g, v, w2) \/ EndPassAlone(g, v, w2)
         \/ FoldFirstAlone(v, w2) \/ Folds(w2) \/ FoldEndAlone(v, w2)
    BY DEF StepAlone
<1>2. CASE Resolves(w1) /\ Resolves(w2)
    BY <1>2, OneResolve
<1>3. CASE Folds(w1) /\ Folds(w2)
    BY <1>3, OneFold
<1>4. CASE SkipAlone(g, v, w1) /\ SkipAlone(g, v, w2)
    BY <1>4 DEF SkipAlone
<1>5. CASE EndPassAlone(g, v, w1) /\ EndPassAlone(g, v, w2)
    BY <1>5 DEF EndPassAlone
<1>6. CASE FoldFirstAlone(v, w1) /\ FoldFirstAlone(v, w2)
    <2>1. PICK k1 : First(v, k1) /\ w1 = View("fold", MapErase(v.info, {k1}), v.next, v.changed,
                                              {v.info[k1]}, v.buf)
        BY <1>6 DEF FoldFirstAlone
    <2>2. PICK k2 : First(v, k2) /\ w2 = View("fold", MapErase(v.info, {k2}), v.next, v.changed,
                                              {v.info[k2]}, v.buf)
        BY <1>6 DEF FoldFirstAlone
    <2>3. k1 = k2
        BY <2>1, <2>2, FirstUnique
    <2> QED
        BY <2>1, <2>2, <2>3
<1>7. CASE FoldEndAlone(v, w1) /\ FoldEndAlone(v, w2)
    BY <1>7 DEF FoldEndAlone
<1> HIDE DEF Resolves, Folds
<1>8. \A w : Resolves(w) \/ SkipAlone(g, v, w) \/ EndPassAlone(g, v, w) => v.phase = "conflicts"
    BY Guards DEF Resolves
<1>9. \A w : FoldFirstAlone(v, w) \/ Folds(w) \/ FoldEndAlone(v, w) => v.phase = "fold"
    BY Guards DEF Folds
<1>10. \A w, y : ~(Resolves(w) /\ SkipAlone(g, v, y)) /\ ~(Resolves(w) /\ EndPassAlone(g, v, y))
                 /\ ~(SkipAlone(g, v, w) /\ EndPassAlone(g, v, y))
    BY Guards DEF Resolves
<1>11. \A w, y : ~(FoldFirstAlone(v, w) /\ Folds(y))
                 /\ ~(FoldFirstAlone(v, w) /\ FoldEndAlone(v, y)) /\ ~(Folds(w) /\ FoldEndAlone(v, y))
    BY Guards DEF Folds
<1>12. "conflicts" # "fold"
    OBVIOUS
<1> QED
    BY <1>1, <1>2, <1>3, <1>4, <1>5, <1>6, <1>7, <1>8, <1>9, <1>10, <1>11, <1>12

LEMMA OverStops ==
    ASSUME NEW g, NEW z, NEW v, NEW w, StepAlone(g, z, v, w)
    PROVE  ~Over(v)
BY DEF Over, StepAlone, ResolveAlone, ResolveToNullAlone, Faces, SkipAlone, EndPassAlone,
       FoldFirstAlone, FoldNextAlone, FoldToNullAlone, FoldEndAlone

LEMMA StepFacts ==
    ASSUME NEW g, IsGraph(g), NEW z, NEW v, Good(g, v), NEW w, StepAlone(g, z, v, w)
    PROVE  Good(g, w) /\ (Quiet(v, w) \/ \E p, q, more : Melds(v, w, p, q, more))
PROOF
<1>1. CASE ResolveAlone(g, z, v, w)
    <2>1. PICK c, p, q : Faces(g, v, c, p, q) /\ w = AfterResolve(g, v, c, p, q)
        BY <1>1 DEF ResolveAlone
    <2> QED
        BY <2>1, ResolveMelds
<1>2. CASE FoldNextAlone(z, v, w)
    <2>1. PICK k : \E p \in v.acc : First(v, k) /\ w = AfterFold(v, k, p)
        BY <1>2 DEF FoldNextAlone
    <2>2. PICK p \in v.acc : First(v, k) /\ w = AfterFold(v, k, p)
        BY <2>1
    <2> QED
        BY <2>2, FoldMelds
<1> QED
    BY <1>1, <1>2, QuietFacts DEF StepAlone

LEMMA LaterStep ==
    ASSUME NEW g, IsGraph(g), NEW z, NEW v, Good(g, v), NEW w, StepAlone(g, z, v, w),
           NEW u, Later(g, u, v)
    PROVE  Later(g, u, w)
BY StepFacts, LaterMeld, LaterQuiet

\* A run goes on by one view.
LEMMA RunExtend ==
    ASSUME NEW g, IsGraph(g), NEW z, NEW n, NEW tr, Run(g, z, n, tr),
           NEW w, StepAlone(g, z, tr[n], w)
    PROVE  \E tr2 : Run(g, z, n + 1, tr2) /\ tr2[n + 1] = w /\ \A i \in 0 .. n : tr2[i] = tr[i]
PROOF
<1> DEFINE tr2 == [i \in 0 .. n + 1 |-> IF i = n + 1 THEN w ELSE tr[i]]
<1>1. n \in Nat /\ n \in 0 .. n /\ tr[0] = StartAlone(g)
    BY DEF Run
<1>2. tr2[n + 1] = w /\ \A i \in 0 .. n : tr2[i] = tr[i]
    BY <1>1
<1>3. \A i \in 0 .. n + 1 : i = n + 1 \/ i \in 0 .. n
    BY <1>1
<1>4. Good(g, tr[n])
    BY <1>1 DEF Run
<1> HIDE DEF tr2
<1>5. Good(g, w)
    BY <1>4, StepFacts
<1>6. \A i \in 0 .. n + 1 : Good(g, tr2[i])
    BY <1>2, <1>3, <1>5 DEF Run
<1>7. ASSUME NEW i \in 0 .. n + 1, i < n + 1 PROVE StepAlone(g, z, tr2[i], tr2[i + 1])
    <2>1. i \in 0 .. n
        BY <1>1, <1>7
    <2>2. CASE i = n
        BY <1>2, <2>1, <2>2
    <2>3. CASE i < n
        <3>1. i + 1 \in 0 .. n
            BY <1>1, <2>1, <2>3
        <3> QED
            BY <1>2, <2>1, <2>3, <3>1 DEF Run
    <2> QED
        BY <1>1, <2>1, <2>2, <2>3
<1>8. ASSUME NEW i \in 0 .. n + 1, NEW j \in 0 .. n + 1, i <= j PROVE Later(g, tr2[i], tr2[j])
    <2>1. CASE j \in 0 .. n
        <3>1. i \in 0 .. n
            BY <1>1, <1>8, <2>1
        <3> QED
            BY <1>2, <1>8, <2>1, <3>1 DEF Run
    <2>2. CASE j = n + 1 /\ i \in 0 .. n
        <3>1. i <= n
            BY <1>1, <2>2
        <3>2. Later(g, tr[i], tr[n])
            BY <1>1, <2>2, <3>1 DEF Run
        <3> QED
            BY <1>2, <1>4, <2>2, <3>2, LaterStep
    <2>3. CASE j = n + 1 /\ i = n + 1
        BY <1>2, <1>5, <2>3, LaterSelf
    <2> QED
        BY <1>3, <2>1, <2>2, <2>3
<1>9. tr2[0] = StartAlone(g)
    BY <1>1, <1>2
<1>10. n + 1 \in Nat
    BY <1>1
<1>11. Run(g, z, n + 1, tr2)
    BY <1>6, <1>7, <1>8, <1>9, <1>10 DEF Run
<1> QED
    BY <1>2, <1>11

\* A merge that is alone at the i-th view goes on to the next, which is the
\* one the run has, or the run goes on with it.
LEMMA RunStep ==
    ASSUME NEW g, IsGraph(g), NEW z, NEW n, NEW tr, Run(g, z, n, tr),
           NEW i \in 0 .. n, NEW w, StepAlone(g, z, tr[i], w)
    PROVE  \E n2, tr2 :
              /\ Run(g, z, n2, tr2) /\ i + 1 \in 0 .. n2 /\ tr2[i + 1] = w
              /\ \A k \in 0 .. n : k \in 0 .. n2 /\ tr2[k] = tr[k]
              /\ \/ tr2[n2] = tr[n] /\ i < n /\ Later(g, w, tr[n])
                 \/ tr2[n2] = w /\ i = n
PROOF
<1>1. n \in Nat /\ Good(g, tr[i])
    BY DEF Run
<1>2. CASE i = n
    <2>1. PICK tr2 : Run(g, z, n + 1, tr2) /\ tr2[n + 1] = w /\ \A k \in 0 .. n : tr2[k] = tr[k]
        BY <1>2, RunExtend
    <2>2. i + 1 = n + 1 /\ i + 1 \in 0 .. n + 1 /\ \A k \in 0 .. n : k \in 0 .. n + 1
        BY <1>1, <1>2
    <2> QED
        BY <1>2, <2>1, <2>2
<1>3. CASE i < n
    <2>1. i + 1 \in 0 .. n /\ n \in 0 .. n /\ i + 1 <= n
        BY <1>1, <1>3
    <2>2. StepAlone(g, z, tr[i], tr[i + 1])
        BY <1>3 DEF Run
    <2>3. tr[i + 1] = w
        BY <1>1, <2>2, OneStep
    <2>4. Later(g, tr[i + 1], tr[n])
        BY <2>1 DEF Run
    <2> QED
        BY <1>3, <2>1, <2>3, <2>4
<1> QED
    BY <1>1, <1>2, <1>3
-----------------------------------------------------------------------------
(* A merge that follows, in the same place as the one that is alone        *)

LEMMA LeafBytes ==
    ASSUME TypeOK, NEW p \in Partials
    PROVE  /\ p.home # Own => p.home \in graph.leaves
           /\ Bytes(p) = IF p.home = Own THEN p.own ELSE leafBuf[p.home]
           /\ Bytes(p) \in Packets
BY BytesType DEF Bytes, Partials

\* What it reads in fields the packet is known to have: what there was when
\* the one that is alone read it.
LEMMA ValueSame ==
    ASSUME TypeOK, NEW v, Good(graph, v), NEW t, LeavesAt(t), Later(graph, v, t),
           NEW a \in PartsOf(v), NEW p \in Partials, Same(p, a), NEW f \in Fields,
           f \in a.fields \/ a.home = Own \/ v = t
    PROVE  Bytes(p).val[f] = Value(v.buf, a)[f]
PROOF
<1>1. CASE a.home = Own
    BY <1>1 DEF Same, Value, Bytes
<1>2. CASE a.home # Own
    <2>1. a.home \in graph.leaves /\ Bytes(p) = leafBuf[a.home]
        BY <1>2, LeafBytes DEF Same
    <2>2. Bytes(p).val[f] = t.buf[a.home][f]
        BY <2>1 DEF LeavesAt
    <2>3. t.buf[a.home][f] = v.buf[a.home][f]
        BY <1>2, <2>1 DEF Later
    <2> QED
        BY <1>2, <2>2, <2>3 DEF Value
<1> QED
    BY <1>1, <1>2

\* Resolving, it writes to the leaf's packet what is there already or, if it
\* is ahead of all others, what the one that is alone does.
LEMMA LeafMelded ==
    ASSUME TypeOK, NEW v, Good(graph, v), NEW t, Good(graph, t), LeavesAt(t), Later(graph, v, t),
           NEW a, NEW b, NEW w, NEW more, Melds(v, w, a, b, more),
           NEW t2, (t2 = t /\ Later(graph, w, t)) \/ (t2 = w /\ v = t),
           NEW p \in Partials, NEW q \in Partials, Same(p, a), Same(q, b),
           a.home # Own
    PROVE  Headers(p, q).val = t2.buf[a.home]
PROOF
<1> DEFINE l == a.home
           copied == (b.fields \ a.fields) \ {"PAYLOAD"}
<1>1. l \in graph.leaves /\ Bytes(p) = leafBuf[l] /\ leafBuf[l].val = t.buf[l]
    BY LeafBytes DEF Same, LeavesAt
<1>2. a \in PartsOf(v) /\ b \in PartsOf(v)
    BY DEF Melds
<1>3. ASSUME NEW f \in Fields
      PROVE  Headers(p, q).val[f] = IF f \in copied THEN Bytes(q).val[f] ELSE t.buf[l][f]
    BY <1>1 DEF Headers, Same
<1>4. ASSUME NEW f \in Fields
      PROVE  w.buf[l][f] = IF f \in copied THEN Value(v.buf, b)[f] ELSE v.buf[l][f]
    BY <1>1 DEF Melds, BufAlone, HeadersAlone, Value, Good
<1>5. ASSUME NEW f \in Fields, f \in copied
      PROVE  Bytes(q).val[f] = Value(v.buf, b)[f]
    BY <1>2, <1>5, ValueSame
<1>6. CASE t2 = w /\ v = t
    <2>1. \A f \in Fields : Headers(p, q).val[f] = w.buf[l][f]
        BY <1>3, <1>4, <1>5, <1>6
    <2>2. w.buf[l] = HeadersAlone(v.buf, a, b)
        BY <1>1 DEF Melds, BufAlone, Good
    <2>3. w.buf[l] = [f \in Fields |-> w.buf[l][f]]
        BY <2>2 DEF HeadersAlone
    <2>4. Headers(p, q).val = [f \in Fields |-> Headers(p, q).val[f]]
        BY DEF Headers
    <2> QED
        BY <1>6, <2>1, <2>3, <2>4
<1>7. CASE t2 = t /\ Later(graph, w, t)
    <2>1. ASSUME NEW f \in Fields, f \in copied PROVE w.buf[l][f] = t.buf[l][f]
        <3>1. CASE ~Alive(w, l)
            BY <1>1, <1>7, <3>1 DEF Later
        <3>2. CASE Alive(w, l)
            <4>1. PICK y \in PartsOf(w) : y.home = l
                BY <3>2 DEF Alive
            <4>2. y = Melded(v.buf, a, b, more)
                BY <4>1 DEF Melds
            <4>3. f \in y.fields
                BY <2>1, <4>2 DEF Melded
            <4> QED
                BY <1>1, <1>7, <4>1, <4>3 DEF Later
        <3> QED
            BY <3>1, <3>2
    <2>2. \A f \in Fields : Headers(p, q).val[f] = t.buf[l][f]
        BY <1>3, <1>4, <1>5, <2>1
    <2>3. t.buf[l] = [f \in Fields |-> t.buf[l][f]]
        BY <1>1 DEF Good
    <2>4. Headers(p, q).val = [f \in Fields |-> Headers(p, q).val[f]]
        BY DEF Headers
    <2> QED
        BY <1>7, <2>2, <2>3, <2>4
<1> QED
    BY <1>6, <1>7

\* With a payload copied, it has a buffer of its own, of the same bytes.
LEMMA OwnMelded ==
    ASSUME TypeOK, NEW v, Good(graph, v), NEW t, Good(graph, t), LeavesAt(t), Later(graph, v, t),
           NEW a, NEW b, NEW w, NEW more, Melds(v, w, a, b, more),
           Later(graph, w, t) \/ v = t,
           NEW p \in Partials, NEW q \in Partials, Same(p, a), Same(q, b),
           NEW r, r = Resolved(p, q), ~IsNull(p, q), r.home = Own
    PROVE  ~r.own.null /\ r.own.val = Melded(v.buf, a, b, more).own
PROOF
<1> DEFINE taken == b.fields \ a.fields
           copied == taken \ {"PAYLOAD"}
<1>1. a \in PartsOf(v) /\ b \in PartsOf(v) /\ Bytes(p) \in Packets
    BY LeafBytes DEF Melds
<1>2. CopiesPayload(p, q) <=> "PAYLOAD" \in taken
    BY DEF CopiesPayload, Same
<1>3. "PAYLOAD" \in taken \/ a.home = Own
    BY <1>2 DEF Resolved, Same
<1>4. ASSUME NEW f \in Fields, f \in taken
      PROVE  Bytes(q).val[f] = Value(v.buf, b)[f]
    BY <1>1, <1>4, ValueSame
<1>5. ASSUME NEW f \in Fields, f \notin taken
      PROVE  Bytes(p).val[f] = Value(v.buf, a)[f]
    <2>1. CASE a.home = Own \/ v = t
        BY <1>1, <2>1, ValueSame
    <2>2. CASE a.home # Own /\ Later(graph, w, t)
        <3> DEFINE l == a.home
        <3>1. l \in graph.leaves /\ Bytes(p) = leafBuf[l] /\ leafBuf[l].val = t.buf[l]
            BY <2>2, LeafBytes DEF Same, LeavesAt
        <3>2. Melded(v.buf, a, b, more).home = Own
            BY <1>3, <2>2 DEF Melded, CopiesPayload
        <3>3. ~Alive(w, l)
            BY <2>2, <3>2 DEF Melds, Alive
        <3>4. t.buf[l] = w.buf[l]
            BY <2>2, <3>1, <3>3 DEF Later
        <3>5. w.buf[l] = HeadersAlone(v.buf, a, b)
            BY <3>1 DEF Melds, BufAlone, Good
        <3> QED
            BY <1>5, <3>1, <3>4, <3>5 DEF HeadersAlone
    <2> QED
        BY <2>1, <2>2
<1>6. ~Bytes(p).null
    BY DEF IsNull
<1>7. /\ Headers(p, q).null = Bytes(p).null
      /\ Headers(p, q).val = [f \in Fields |-> IF f \in copied THEN Bytes(q).val[f]
                                               ELSE Bytes(p).val[f]]
    BY DEF Headers, Same
<1>8. r.own = IF "PAYLOAD" \in taken THEN WithPayload(Headers(p, q), Bytes(q)) ELSE Headers(p, q)
    BY <1>2 DEF Resolved
<1>9. /\ r.own.null = Bytes(p).null
      /\ r.own.val = [f \in Fields |-> IF f \in taken THEN Bytes(q).val[f] ELSE Bytes(p).val[f]]
    <2>1. CASE "PAYLOAD" \in taken
        <3>1. /\ r.own.null = Headers(p, q).null
              /\ r.own.val = [Headers(p, q).val EXCEPT !["PAYLOAD"] = Bytes(q).val["PAYLOAD"]]
            BY <1>8, <2>1 DEF WithPayload
        <3> QED
            BY <1>7, <2>1, <3>1
    <2>2. CASE "PAYLOAD" \notin taken
        BY <1>7, <1>8, <2>2
    <2> QED
        BY <2>1, <2>2
<1>10. Melded(v.buf, a, b, more).own =
          [f \in Fields |-> IF f \in taken THEN Value(v.buf, b)[f] ELSE Value(v.buf, a)[f]]
    BY DEF Melded
<1> QED
    BY <1>4, <1>5, <1>6, <1>9, <1>10

LEMMA MeldAgrees ==
    ASSUME TypeOK, NEW v, Good(graph, v), NEW t, Good(graph, t), LeavesAt(t), Later(graph, v, t),
           NEW a, NEW b, NEW w, NEW more, Melds(v, w, a, b, more),
           NEW t2, (t2 = t /\ Later(graph, w, t)) \/ (t2 = w /\ v = t),
           NEW p \in Partials, NEW q \in Partials, Same(p, a), Same(q, b),
           ~IsNull(p, q), WriteThrough(p, q), NEW r, r = Resolved(p, q)
    PROVE  /\ \A l \in graph.leaves :
                 leafBuf'[l].val = t2.buf[l] /\ leafBuf'[l].null = leafBuf[l].null
           /\ r.home = Melded(v.buf, a, b, more).home
           /\ r.fields \cup more = Melded(v.buf, a, b, more).fields
           /\ r.home = Own => ~r.own.null /\ r.own.val = Melded(v.buf, a, b, more).own
PROOF
<1>1. ASSUME NEW l \in graph.leaves
      PROVE  leafBuf'[l].val = t2.buf[l] /\ leafBuf'[l].null = leafBuf[l].null
    <2>1. CASE l # a.home
        <3>1. leafBuf'[l] = leafBuf[l]
            BY <2>1 DEF WriteThrough, Same, TypeOK
        <3>2. leafBuf[l].val = t.buf[l]
            BY DEF LeavesAt
        <3>3. w.buf[l] = v.buf[l]
            BY <2>1 DEF Melds, BufAlone, Good
        <3> QED
            BY <3>1, <3>2, <3>3
    <2>2. CASE l = a.home
        <3>1. l # Own /\ p.home = l
            BY <2>2, OwnIsNoLeaf DEF TypeOK, Same
        <3>2. leafBuf'[l] = Headers(p, q)
            BY <3>1 DEF WriteThrough, TypeOK
        <3>3. Headers(p, q).null = leafBuf[l].null
            BY <3>1 DEF Headers, Bytes
        <3>4. Headers(p, q).val = t2.buf[l]
            BY <2>2, <3>1, LeafMelded
        <3> QED
            BY <3>2, <3>3, <3>4
    <2> QED
        BY <2>1, <2>2
<1>2. /\ r.home = Melded(v.buf, a, b, more).home
      /\ r.fields \cup more = Melded(v.buf, a, b, more).fields
    BY DEF Resolved, Melded, Same, CopiesPayload
<1>3. r.home = Own => ~r.own.null /\ r.own.val = Melded(v.buf, a, b, more).own
    BY OwnMelded
<1> QED
    BY <1>1, <1>2, <1>3
-----------------------------------------------------------------------------
(* Null packets                                                            *)

LEMMA NullWrite ==
    ASSUME TypeOK, NEW p \in Partials, NEW q \in Partials, IsNull(p, q), WriteThrough(p, q),
           NEW r, r = Resolved(p, q)
    PROVE  /\ r.home = p.home /\ r.own.null /\ r.own.val = Bytes(p).val
           /\ \A l \in graph.leaves :
                 /\ leafBuf'[l].val = leafBuf[l].val
                 /\ leafBuf'[l].null <=> leafBuf[l].null \/ l = p.home
PROOF
<1>1. r.home = p.home /\ r.own.null /\ r.own.val = Bytes(p).val
    BY DEF Resolved, Nullified
<1>2. ASSUME NEW l \in graph.leaves
      PROVE  /\ leafBuf'[l].val = leafBuf[l].val
             /\ leafBuf'[l].null <=> leafBuf[l].null \/ l = p.home
    <2>1. CASE l = p.home
        <3>1. l # Own
            BY OwnIsNoLeaf DEF TypeOK
        <3>2. leafBuf'[l] = Nullified(leafBuf[l])
            BY <2>1, <3>1 DEF WriteThrough, TypeOK
        <3> QED
            BY <2>1, <3>2 DEF Nullified
    <2>2. CASE l # p.home
        <3>1. leafBuf'[l] = leafBuf[l]
            BY <2>2 DEF WriteThrough, TypeOK
        <3> QED
            BY <2>2, <3>1
    <2> QED
        BY <2>1, <2>2
<1> QED
    BY <1>1, <1>2

\* What is null to the one that is alone is null to all.
LEMMA NullToAll ==
    ASSUME TypeOK, NEW v, Good(graph, v), NEW t, LeavesAt(t),
           NEW a \in PartsOf(v), NEW b \in PartsOf(v), NullAlone(Nulled, a, b),
           NEW p \in Partials, NEW q \in Partials, Same(p, a), Same(q, b)
    PROVE  IsNull(p, q)
BY OwnIsNoLeaf DEF TypeOK, NullAlone, Nulled, Same, IsNull, Bytes, LeavesAt

\* A merge meets a null packet where the one that is alone does not only if
\* it has fallen behind and the packet has been resolved to null since: it
\* is then the one that is written to.
LEMMA NullAgain ==
    ASSUME TypeOK, NEW v, Good(graph, v), NEW t, LeavesAt(t), v.phase # "null",
           NEW a, NEW b, NEW w, NEW more, Melds(v, w, a, b, more),
           Later(graph, w, t) \/ v = t, ~NullAlone(Nulled, a, b),
           NEW p \in Partials, NEW q \in Partials, Same(p, a), Same(q, b), IsNull(p, q)
    PROVE  /\ t.phase = "null" /\ p.home \in graph.leaves /\ leafBuf[p.home].null
           /\ \E c \in t.acc : c.home = p.home
PROOF
<1>1. PICK x \in {a.home, b.home} : x \in graph.leaves /\ leafBuf[x].null
    <2>1. CASE Bytes(p).null
        BY <2>1, LeafBytes DEF Same
    <2>2. CASE Bytes(q).null
        BY <2>2, LeafBytes DEF Same
    <2> QED
        BY <2>1, <2>2 DEF IsNull
<1>2. x \notin Nulled
    BY <1>1 DEF NullAlone
<1>3. t.phase = "null" /\ \E c \in t.acc : c.home = x
    BY <1>1, <1>2 DEF LeavesAt
<1>4. Alive(t, x)
    BY <1>3 DEF Alive, PartsOf
<1>5. Alive(w, x)
    BY <1>1, <1>3, <1>4 DEF Later
<1>6. PICK y \in PartsOf(w) : y.home = x
    BY <1>5 DEF Alive
<1>7. x # Own
    BY <1>1, OwnIsNoLeaf DEF TypeOK
<1>8. y = Melded(v.buf, a, b, more)
    BY <1>6, <1>7 DEF Melds
<1>9. x = a.home
    BY <1>6, <1>7, <1>8 DEF Melded
<1> QED
    BY <1>1, <1>3, <1>9 DEF Same
-----------------------------------------------------------------------------
LEMMA MovesAlone ==
    ASSUME TypeOK, NEW m \in Mergers, Step(m)
    PROVE  OnlyMoves(m)
PROOF
<1>0. DOMAIN phase = Mergers /\ DOMAIN info = Mergers /\ DOMAIN next = Mergers
      /\ DOMAIN changed = Mergers /\ DOMAIN acc = Mergers /\ DOMAIN result = Mergers
    BY DEF TypeOK
<1>1. CASE Convert(m)
    BY <1>0, <1>1 DEF Convert, OnlyMoves
<1>2. CASE ResolveConflict(m)
    BY <1>0, <1>2 DEF ResolveConflict, OnlyMoves
<1>3. CASE ResolveToNull(m)
    BY <1>0, <1>3 DEF ResolveToNull, OnlyMoves
<1>4. CASE SkipConflict(m)
    BY <1>0, <1>4 DEF SkipConflict, OnlyMoves
<1>5. CASE EndPass(m)
    BY <1>0, <1>5 DEF EndPass, OnlyMoves
<1>6. ASSUME NEW k \in DOMAIN info[m], FoldFirst(m, k) PROVE OnlyMoves(m)
    BY <1>0, <1>6 DEF FoldFirst, OnlyMoves
<1>7. ASSUME NEW k \in DOMAIN info[m], FoldNext(m, k) PROVE OnlyMoves(m)
    <2>1. \E p \in acc[m] : acc' = [acc EXCEPT ![m] = {Resolved(p, info[m][k])}]
        BY <1>7 DEF FoldNext
    <2> QED
        BY <1>0, <1>7, <2>1 DEF FoldNext, OnlyMoves
<1>8. CASE FoldEnd(m)
    BY <1>0, <1>8 DEF FoldEnd, OnlyMoves
<1>9. CASE Send(m)
    BY <1>0, <1>9 DEF Send, OnlyMoves
<1> QED
    BY <1>1, <1>2, <1>3, <1>4, <1>5, <1>6, <1>7, <1>8, <1>9 DEF Step

\* The run may have gone on by a view.
LEMMA Onward ==
    ASSUME TypeOK, NEW n, NEW tr, Together(n, tr),
           NEW n2, NEW tr2, Run(graph, Nulled, n2, tr2),
           \A k \in 0 .. n : k \in 0 .. n2 /\ tr2[k] = tr[k],
           tr2[n2] = tr[n] \/ ~Over(tr[n]),
           NEW m \in Mergers, OnlyMoves(m), LeavesAt(tr2[n2])', Follows(m, n2, tr2)'
    PROVE  AgreeInv'
PROOF
<1>1. graph' = graph /\ Nulled' = Nulled
    BY DEF OnlyMoves, Nulled, DroppedLeaf
<1>2. Run(graph, Nulled, n2, tr2)'
    BY <1>1
<1>3. ASSUME NEW x \in Mergers, x # m PROVE Follows(x, n2, tr2)'
    <2>1. Follows(x, n, tr)
        BY DEF Together
    <2>2. /\ phase'[x] = phase[x] /\ info'[x] = info[x] /\ next'[x] = next[x]
          /\ changed'[x] = changed[x] /\ acc'[x] = acc[x] /\ result'[x] = result[x]
        BY <1>3 DEF OnlyMoves
    <2>3. ASSUME NEW i \in 0 .. n, Abreast(x, tr[i])
          PROVE  i \in 0 .. n2 /\ Abreast(x, tr2[i])'
        BY <2>2, <2>3 DEF Abreast
    <2>4. ASSUME Doomed(x, tr[n]) PROVE Doomed(x, tr2[n2])'
        <3>1. tr2[n2] = tr[n] /\ tr[n].phase = "null"
            BY <2>4 DEF Doomed, Over
        <3>2. Good(graph, tr[n])
            BY DEF Together, Run
        <3>3. \A p \in acc[x] : \E a \in tr[n].acc :
                 /\ p.home = a.home
                 /\ IF p.home = Own THEN p.own.null /\ p.own.val = a.own
                                    ELSE leafBuf'[p.home].null
            <4> SUFFICES ASSUME NEW p \in acc[x]
                         PROVE  \E a \in tr[n].acc :
                                   /\ p.home = a.home
                                   /\ IF p.home = Own THEN p.own.null /\ p.own.val = a.own
                                                      ELSE leafBuf'[p.home].null
                OBVIOUS
            <4>1. PICK a \in tr[n].acc :
                     /\ p.home = a.home
                     /\ IF p.home = Own THEN p.own.null /\ p.own.val = a.own
                                        ELSE leafBuf[p.home].null
                BY <2>4 DEF Doomed
            <4>2. a.home \in graph.leaves \cup {Own}
                BY <3>2 DEF Good, PartsOf
            <4>3. p.home # Own => leafBuf'[p.home].null
                BY <1>1, <3>1, <4>1, <4>2 DEF LeavesAt
            <4> QED
                BY <4>1, <4>3
        <3> QED
            BY <2>2, <2>4, <3>1, <3>3 DEF Doomed
    <2>5. ASSUME Sent(x, tr[n]) PROVE Sent(x, tr2[n2])'
        BY <2>2, <2>5 DEF Sent
    <2> QED
        BY <2>1, <2>2, <2>3, <2>4, <2>5 DEF Follows
<1>4. Together(n2, tr2)'
    BY <1>2, <1>3 DEF Together
<1> QED
    BY <1>4 DEF AgreeInv

\* Where the leaves' packets may be when a merge goes on to view w: where the
\* farthest merge has left them, or at w.
Reaches(t, v, w, t2) ==
    \/ t2 = t /\ Later(graph, w, t) /\ (Over(w) => t = w)
    \/ t2 = w /\ v = t

LEMMA StepOn ==
    ASSUME TypeOK, NEW n, NEW tr, Together(n, tr), NEW m \in Mergers, OnlyMoves(m),
           NEW i \in 0 .. n, NEW w, StepAlone(graph, Nulled, tr[i], w),
           \A t2 : Reaches(tr[n], tr[i], w, t2) => LeavesAt(t2)',
           phase'[m] \in {"conflicts", "fold", "send"},
           Abreast(m, w)' \/ (Over(w) /\ Doomed(m, w)')
    PROVE  AgreeInv'
PROOF
<1>1. IsGraph(graph) /\ Run(graph, Nulled, n, tr)
    BY GraphAssumption DEF TypeOK, Together
<1>2. PICK n2, tr2 :
         /\ Run(graph, Nulled, n2, tr2) /\ i + 1 \in 0 .. n2 /\ tr2[i + 1] = w
         /\ \A k \in 0 .. n : k \in 0 .. n2 /\ tr2[k] = tr[k]
         /\ \/ tr2[n2] = tr[n] /\ i < n /\ Later(graph, w, tr[n])
            \/ tr2[n2] = w /\ i = n
    BY <1>1, RunStep
<1>3. Over(w) => tr2[n2] = w
    <2> SUFFICES ASSUME Over(w), i + 1 < n2 PROVE FALSE
        BY <1>2 DEF Run
    <2>1. StepAlone(graph, Nulled, tr2[i + 1], tr2[i + 1 + 1])
        BY <1>2 DEF Run
    <2> QED
        BY <1>2, <2>1, OverStops
<1>4. Reaches(tr[n], tr[i], w, tr2[n2])
    BY <1>2, <1>3 DEF Reaches
<1>5. LeavesAt(tr2[n2])'
    BY <1>4
<1>6. tr2[n2] = tr[n] \/ ~Over(tr[n])
    BY <1>2, OverStops
<1>7. (\E j \in 0 .. n2 : Abreast(m, tr2[j])') \/ Doomed(m, tr2[n2])'
    BY <1>2, <1>3
<1>8. Follows(m, n2, tr2)'
    BY <1>7 DEF Follows
<1> QED
    BY <1>1, <1>2, <1>5, <1>6, <1>8, Onward

LEMMA StayOn ==
    ASSUME TypeOK, NEW n, NEW tr, Together(n, tr), NEW m \in Mergers, OnlyMoves(m),
           LeavesAt(tr[n])', Follows(m, n, tr)'
    PROVE  AgreeInv'
PROOF
<1>1. Run(graph, Nulled, n, tr)
    BY DEF Together
<1> QED
    BY <1>1, Onward

\* A step that writes nothing leaves the leaves' packets where they are.
LEMMA QuietOn ==
    ASSUME UNCHANGED <<graph, dropped, leafBuf>>, NEW t, LeavesAt(t),
           NEW v, NEW w, v.phase # "null", w.phase # "null", w.buf = v.buf,
           NEW t2, Reaches(t, v, w, t2)
    PROVE  LeavesAt(t2)'
PROOF
<1>1. Nulled' = Nulled
    BY DEF Nulled, DroppedLeaf
<1>2. CASE t2 = t
    BY <1>1, <1>2 DEF LeavesAt
<1>3. CASE t2 = w /\ v = t
    BY <1>1, <1>3 DEF LeavesAt
<1> QED
    BY <1>2, <1>3 DEF Reaches
-----------------------------------------------------------------------------
(* The steps of a merge                                                    *)

LEMMA AgreeConvert ==
    ASSUME TypeOK, NEW n, NEW tr, Together(n, tr), NEW m \in Mergers, Convert(m)
    PROVE  AgreeInv'
PROOF
<1>1. OnlyMoves(m)
    BY MovesAlone DEF Step
<1>2. UNCHANGED <<graph, dropped, leafBuf>> /\ Nulled' = Nulled
    BY DEF Convert, Nulled, DroppedLeaf
<1>3. LeavesAt(tr[n])'
    BY <1>2 DEF Together, LeavesAt
<1>4. next[m] = 1 /\ changed[m] = FALSE /\ acc[m] = {}
    BY DEF Convert, Together, Follows
<1> DEFINE sent == [l \in graph.leaves |-> [f \in Fields |-> Arrived(graph, l, f)]]
           part(l) == [home |-> l, own |-> leafBuf[l], fields |-> Writes(graph, l)]
           alone(l) == [home |-> l, own |-> sent[l], fields |-> Writes(graph, l)]
<1>5. PICK v : v = tr[0] /\ v = StartAlone(graph)
    BY DEF Together, Run
<1>6. /\ v.phase = "conflicts" /\ v.next = 1 /\ v.changed = FALSE /\ v.acc = {}
      /\ v.info = [l \in graph.leaves |-> alone(l)]
    BY <1>5 DEF StartAlone, View
<1>7. phase'[m] = "conflicts" /\ info'[m] = [l \in graph.leaves |-> part(l)]
      /\ next'[m] = 1 /\ changed'[m] = FALSE /\ acc'[m] = {}
    BY <1>4 DEF Convert, TypeOK
<1>8. \A l \in graph.leaves : Same(part(l), alone(l))
    BY OwnIsNoLeaf DEF TypeOK, Same
<1> HIDE DEF sent, part, alone
<1>9. Abreast(m, v)'
    BY <1>6, <1>7, <1>8 DEF Abreast
<1>10. n \in Nat /\ 0 \in 0 .. n
    BY DEF Together, Run
<1>11. Follows(m, n, tr)'
    <2>1. \E i \in 0 .. n : Abreast(m, tr[i])'
        BY <1>5, <1>9, <1>10
    <2> QED
        BY <1>7, <2>1 DEF Follows
<1> QED
    BY <1>1, <1>3, <1>11, StayOn

\* A merge in its passes over the list is abreast of the one that is alone.
LEMMA InConflicts ==
    ASSUME NEW n, NEW tr, Together(n, tr), NEW m \in Mergers, phase[m] = "conflicts"
    PROVE  \E i \in 0 .. n : Abreast(m, tr[i]) /\ Good(graph, tr[i])
BY DEF Together, Follows, Doomed, Run

LEMMA AgreeSkip ==
    ASSUME TypeOK, NEW n, NEW tr, Together(n, tr), NEW m \in Mergers, SkipConflict(m)
    PROVE  AgreeInv'
PROOF
<1>1. OnlyMoves(m) /\ UNCHANGED <<graph, dropped, leafBuf>>
    BY MovesAlone DEF Step, SkipConflict
<1>2. phase[m] = "conflicts"
    BY DEF SkipConflict, AtItem
<1>3. PICK i \in 0 .. n : Abreast(m, tr[i]) /\ Good(graph, tr[i])
    BY <1>2, InConflicts
<1> DEFINE v == tr[i]
           w == View(v.phase, v.info, v.next + 1, v.changed, v.acc, v.buf)
<1>4. /\ phase'[m] = phase[m] /\ next'[m] = next[m] + 1
      /\ info'[m] = info[m] /\ changed'[m] = changed[m] /\ acc'[m] = acc[m]
    BY DEF SkipConflict, TypeOK
<1>5. SkipAlone(graph, v, w)
    BY <1>2, <1>3 DEF SkipConflict, AtItem, Available, Item, SkipAlone, Abreast
<1>6. StepAlone(graph, Nulled, v, w)
    BY <1>5 DEF StepAlone
<1>7. /\ w.phase = v.phase /\ w.info = v.info /\ w.next = v.next + 1 /\ w.changed = v.changed
      /\ w.acc = v.acc /\ w.buf = v.buf
    BY DEF View
<1>8. v.phase = "conflicts"
    BY <1>2, <1>3 DEF Abreast
<1> HIDE DEF w
<1>9. Abreast(m, w)'
    BY <1>3, <1>4, <1>7 DEF Abreast, Same
<1>10. ASSUME NEW t2, Reaches(tr[n], v, w, t2) PROVE LeavesAt(t2)'
    BY <1>1, <1>7, <1>8, <1>10, QuietOn DEF Together
<1> HIDE DEF v
<1>11. phase'[m] \in {"conflicts", "fold", "send"}
    BY <1>2, <1>4
<1> QED
    BY <1>1, <1>6, <1>9, <1>10, <1>11, StepOn DEF v

LEMMA AgreeEndPass ==
    ASSUME TypeOK, NEW n, NEW tr, Together(n, tr), NEW m \in Mergers, EndPass(m)
    PROVE  AgreeInv'
PROOF
<1>1. OnlyMoves(m) /\ UNCHANGED <<graph, dropped, leafBuf>>
    BY MovesAlone DEF Step, EndPass
<1>2. phase[m] = "conflicts"
    BY DEF EndPass
<1>3. PICK i \in 0 .. n : Abreast(m, tr[i]) /\ Good(graph, tr[i])
    BY <1>2, InConflicts
<1> DEFINE v == tr[i]
           w == View(IF v.changed THEN "conflicts" ELSE "fold", v.info, 1, FALSE, v.acc, v.buf)
<1>4. /\ phase'[m] = (IF changed[m] THEN "conflicts" ELSE "fold") /\ next'[m] = 1
      /\ info'[m] = info[m] /\ changed'[m] = FALSE /\ acc'[m] = acc[m]
    BY DEF EndPass, TypeOK
<1>5. EndPassAlone(graph, v, w)
    BY <1>2, <1>3 DEF EndPass, EndPassAlone, Abreast
<1>6. StepAlone(graph, Nulled, v, w)
    BY <1>5 DEF StepAlone
<1>7. /\ w.phase = (IF v.changed THEN "conflicts" ELSE "fold")
      /\ w.info = v.info /\ w.next = 1 /\ w.changed = FALSE /\ w.acc = v.acc /\ w.buf = v.buf
    BY DEF View
<1>8. v.phase = "conflicts"
    BY <1>2, <1>3 DEF Abreast
<1> HIDE DEF w
<1>9. Abreast(m, w)'
    <2>1. changed[m] = v.changed
        BY <1>3 DEF Abreast
    <2>2. phase'[m] = w.phase
        BY <1>4, <1>7, <2>1
    <2>3. next'[m] = w.next /\ changed'[m] = w.changed
        BY <1>4, <1>7
    <2> QED
        BY <1>3, <1>4, <1>7, <2>2, <2>3 DEF Abreast
<1>10. ASSUME NEW t2, Reaches(tr[n], v, w, t2) PROVE LeavesAt(t2)'
    BY <1>1, <1>7, <1>8, <1>10, QuietOn DEF Together
<1> HIDE DEF v
<1>11. phase'[m] \in {"conflicts", "fold", "send"}
    BY <1>4
<1> QED
    BY <1>1, <1>6, <1>9, <1>10, <1>11, StepOn DEF v

LEMMA InFold ==
    ASSUME NEW n, NEW tr, Together(n, tr), NEW m \in Mergers, phase[m] \in {"fold", "send"}
    PROVE  \/ \E i \in 0 .. n : Abreast(m, tr[i]) /\ Good(graph, tr[i])
           \/ Doomed(m, tr[n])
BY DEF Together, Follows, Run

LEMMA AgreeFoldFirst ==
    ASSUME TypeOK, NEW n, NEW tr, Together(n, tr), NEW m \in Mergers,
           NEW k \in DOMAIN info[m], FoldFirst(m, k)
    PROVE  AgreeInv'
PROOF
<1>1. OnlyMoves(m) /\ UNCHANGED <<graph, dropped, leafBuf>>
    BY MovesAlone DEF Step, FoldFirst
<1>2. phase[m] = "fold" /\ acc[m] = {}
    BY DEF FoldFirst
<1>3. PICK i \in 0 .. n : Abreast(m, tr[i]) /\ Good(graph, tr[i])
    BY <1>2, InFold DEF Doomed
<1> DEFINE v == tr[i]
           w == View("fold", MapErase(v.info, {k}), v.next, v.changed, {v.info[k]}, v.buf)
<1>4. /\ phase'[m] = "fold" /\ next'[m] = next[m] /\ changed'[m] = changed[m]
      /\ info'[m] = MapErase(info[m], {k}) /\ acc'[m] = {info[m][k]}
    BY <1>2 DEF FoldFirst, TypeOK
<1>5. v.phase = "fold" /\ First(v, k)
    BY <1>2, <1>3 DEF Abreast, FoldFirst, FirstKey, First
<1>6. StepAlone(graph, Nulled, v, w)
    BY <1>2, <1>3, <1>5 DEF Abreast, FoldFirstAlone, StepAlone
<1>7. /\ w.phase = "fold" /\ w.info = MapErase(v.info, {k}) /\ w.next = v.next
      /\ w.changed = v.changed /\ w.acc = {v.info[k]} /\ w.buf = v.buf
    BY DEF View
<1> HIDE DEF w
<1>8. Abreast(m, w)'
    <2>1. /\ DOMAIN info'[m] = DOMAIN info[m] \ {k}
          /\ \A j \in DOMAIN info'[m] : info'[m][j] = info[m][j]
        BY <1>4 DEF MapErase, Restrict
    <2>2. /\ DOMAIN w.info = DOMAIN v.info \ {k}
          /\ \A j \in DOMAIN w.info : w.info[j] = v.info[j]
        BY <1>7 DEF MapErase, Restrict
    <2>3. /\ DOMAIN info[m] = DOMAIN v.info
          /\ \A j \in DOMAIN info[m] : Same(info[m][j], v.info[j])
        BY <1>3 DEF Abreast
    <2>4. /\ DOMAIN info'[m] = DOMAIN w.info
          /\ \A j \in DOMAIN info'[m] : Same(info'[m][j], w.info[j])
        BY <2>1, <2>2, <2>3
    <2>5. /\ phase'[m] = w.phase /\ next'[m] = w.next /\ changed'[m] = w.changed
          /\ acc'[m] # {} /\ w.acc # {}
        BY <1>3, <1>4, <1>7 DEF Abreast
    <2>6. \A p \in acc'[m] : \A a \in w.acc : Same(p, a)
        BY <1>4, <1>7, <2>3
    <2> QED
        BY <2>4, <2>5, <2>6 DEF Abreast
<1>9. ASSUME NEW t2, Reaches(tr[n], v, w, t2) PROVE LeavesAt(t2)'
    BY <1>1, <1>5, <1>7, <1>9, QuietOn DEF Together
<1> HIDE DEF v
<1>10. phase'[m] \in {"conflicts", "fold", "send"}
    BY <1>4
<1> QED
    BY <1>1, <1>6, <1>8, <1>9, <1>10, StepOn DEF v

LEMMA AgreeFoldEnd ==
    ASSUME TypeOK, NEW n, NEW tr, Together(n, tr), NEW m \in Mergers, FoldEnd(m)
    PROVE  AgreeInv'
PROOF
<1>1. OnlyMoves(m) /\ UNCHANGED <<graph, dropped, leafBuf>> /\ Nulled' = Nulled
    BY MovesAlone DEF Step, FoldEnd, Nulled, DroppedLeaf
<1>2. phase[m] = "fold"
    BY DEF FoldEnd
<1>3. /\ phase'[m] = "send" /\ next'[m] = next[m] /\ changed'[m] = changed[m]
      /\ info'[m] = info[m] /\ acc'[m] = acc[m]
    BY DEF FoldEnd, TypeOK
<1>4. CASE Doomed(m, tr[n])
    <2>1. LeavesAt(tr[n])'
        BY <1>1 DEF Together, LeavesAt
    <2>2. Doomed(m, tr[n])'
        BY <1>1, <1>3, <1>4 DEF Doomed
    <2>3. Follows(m, n, tr)'
        BY <1>3, <2>2 DEF Follows
    <2> QED
        BY <1>1, <2>1, <2>3, StayOn
<1>5. ASSUME NEW i \in 0 .. n, Abreast(m, tr[i]), Good(graph, tr[i]) PROVE AgreeInv'
    <2> DEFINE v == tr[i]
               w == View("send", v.info, v.next, v.changed, v.acc, v.buf)
    <2>1. FoldEndAlone(v, w) /\ v.phase = "fold"
        BY <1>2, <1>5 DEF FoldEnd, FoldEndAlone, Abreast
    <2>2. StepAlone(graph, Nulled, v, w)
        BY <2>1 DEF StepAlone
    <2>3. /\ w.phase = "send" /\ w.info = v.info /\ w.next = v.next /\ w.changed = v.changed
          /\ w.acc = v.acc /\ w.buf = v.buf
        BY DEF View
    <2> HIDE DEF w
    <2>4. Abreast(m, w)'
        BY <1>3, <1>5, <2>3 DEF Abreast, Same
    <2>5. ASSUME NEW t2, Reaches(tr[n], v, w, t2) PROVE LeavesAt(t2)'
        BY <1>1, <2>1, <2>3, <2>5, QuietOn DEF Together
    <2> HIDE DEF v
    <2>6. phase'[m] \in {"conflicts", "fold", "send"}
        BY <1>3
    <2> QED
        BY <1>1, <2>2, <2>4, <2>5, <2>6, StepOn DEF v
<1> QED
    BY <1>2, <1>4, <1>5, InFold

LEMMA AgreeSend ==
    ASSUME TypeOK, NEW n, NEW tr, Together(n, tr), NEW m \in Mergers, Send(m)
    PROVE  AgreeInv'
PROOF
<1>1. OnlyMoves(m) /\ UNCHANGED <<graph, dropped, leafBuf>> /\ Nulled' = Nulled
    BY MovesAlone DEF Step, Send, Nulled, DroppedLeaf
<1>2. phase[m] = "send"
    BY DEF Send
<1>3. phase'[m] = "sent" /\ result'[m] = {Bytes(p) : p \in acc[m]}
    BY DEF Send, TypeOK
<1>4. LeavesAt(tr[n])'
    BY <1>1 DEF Together, LeavesAt
<1>5. acc[m] \subseteq Partials /\ LeavesAt(tr[n]) /\ n \in Nat
    BY DEF TypeOK, Together, Run
<1>6. CASE Doomed(m, tr[n])
    <2>1. ASSUME NEW p \in acc[m]
          PROVE  \E a \in tr[n].acc : Bytes(p).val = Value(tr[n].buf, a)
        <3>1. PICK a \in tr[n].acc :
                 /\ p.home = a.home
                 /\ IF p.home = Own THEN p.own.null /\ p.own.val = a.own
                                    ELSE leafBuf[p.home].null
            BY <1>6 DEF Doomed
        <3>2. Bytes(p).val = Value(tr[n].buf, a)
            BY <1>5, <3>1, LeafBytes DEF LeavesAt, Value
        <3> QED
            BY <3>2
    <2>2. Over(tr[n])
        BY <1>6 DEF Doomed, Over
    <2>3. Sent(m, tr[n])'
        BY <1>3, <2>1, <2>2 DEF Sent
    <2> QED
        BY <1>1, <1>3, <1>4, <2>3, StayOn DEF Follows
<1>7. ASSUME NEW i \in 0 .. n, Abreast(m, tr[i]), Good(graph, tr[i]) PROVE AgreeInv'
    <2>1. tr[i].phase = "send"
        BY <1>2, <1>7 DEF Abreast
    <2>2. Over(tr[i])
        BY <2>1 DEF Over
    <2>3. i = n
        <3> SUFFICES ASSUME i < n PROVE FALSE
            BY <1>5
        <3>1. StepAlone(graph, Nulled, tr[i], tr[i + 1])
            BY DEF Together, Run
        <3> QED
            BY <2>2, <3>1, OverStops
    <2>4. acc[m] = {} <=> tr[n].acc = {}
        BY <1>7, <2>3 DEF Abreast
    <2>5. ASSUME NEW p \in acc[m]
          PROVE  \E a \in tr[n].acc : Bytes(p).val = Value(tr[n].buf, a)
        <3>1. PICK a \in tr[n].acc : Same(p, a)
            BY <1>7, <2>3, <2>4 DEF Abreast
        <3>2. Bytes(p).val = Value(tr[n].buf, a)
            BY <1>5, <3>1, LeafBytes DEF LeavesAt, Value, Same
        <3> QED
            BY <3>2
    <2>6. Sent(m, tr[n])'
        BY <1>3, <2>2, <2>3, <2>5 DEF Sent
    <2> QED
        BY <1>1, <1>3, <1>4, <2>6, StayOn DEF Follows
<1> QED
    BY <1>2, <1>6, <1>7, InFold

LEMMA RunLater ==
    ASSUME NEW g, IsGraph(g), NEW z, NEW n, NEW tr, Run(g, z, n, tr),
           NEW i \in 0 .. n, NEW w, StepAlone(g, z, tr[i], w)
    PROVE  /\ Good(g, tr[n]) /\ Later(g, tr[i], tr[n])
           /\ Later(g, w, tr[n]) \/ tr[i] = tr[n]
PROOF
<1>1. n \in Nat /\ n \in 0 .. n /\ i <= n
    BY DEF Run
<1>2. Good(g, tr[n]) /\ Later(g, tr[i], tr[n])
    BY <1>1 DEF Run
<1>3. Later(g, w, tr[n]) \/ tr[i] = tr[n]
    BY RunStep
<1> QED
    BY <1>2, <1>3

\* A merge that resolves p and q where the one that is alone resolves a and b,
\* neither to null, writes what that one has written.
LEMMA MeldOn ==
    ASSUME TypeOK, UNCHANGED <<graph, dropped>>, NEW n, NEW tr, Together(n, tr), NEW i \in 0 .. n,
           NEW a, NEW b, NEW w, NEW more, Melds(tr[i], w, a, b, more),
           StepAlone(graph, Nulled, tr[i], w), w.phase # "null",
           NEW p \in Partials, NEW q \in Partials, Same(p, a), Same(q, b),
           ~IsNull(p, q), WriteThrough(p, q)
    PROVE  /\ \A t2 : Reaches(tr[n], tr[i], w, t2) => LeavesAt(t2)'
           /\ \A r : /\ r.home = Resolved(p, q).home /\ r.own = Resolved(p, q).own
                     /\ r.fields = Resolved(p, q).fields \cup more
                     => Same(r, Melded(tr[i].buf, a, b, more))
PROOF
<1>1. IsGraph(graph) /\ Run(graph, Nulled, n, tr) /\ LeavesAt(tr[n])
    BY GraphAssumption DEF TypeOK, Together
<1>2. /\ Good(graph, tr[i]) /\ Good(graph, tr[n]) /\ Later(graph, tr[i], tr[n])
      /\ Later(graph, w, tr[n]) \/ tr[i] = tr[n]
    BY <1>1, RunLater DEF Run
<1>3. Nulled' = Nulled
    BY DEF Nulled, DroppedLeaf
<1>4. tr[i].phase # "null"
    BY <1>1, OverStops DEF Over
<1>5. PICK r : r = Resolved(p, q)
    OBVIOUS
<1>6. PICK v : v = tr[i]
    OBVIOUS
<1>7. PICK t : t = tr[n]
    OBVIOUS
<1>8. ASSUME NEW t2, (t2 = t /\ Later(graph, w, t)) \/ (t2 = w /\ v = t)
      PROVE  /\ \A l \in graph.leaves :
                   leafBuf'[l].val = t2.buf[l] /\ leafBuf'[l].null = leafBuf[l].null
             /\ r.home = Melded(v.buf, a, b, more).home
             /\ r.fields \cup more = Melded(v.buf, a, b, more).fields
             /\ r.home = Own => ~r.own.null /\ r.own.val = Melded(v.buf, a, b, more).own
    <2>1. Good(graph, v) /\ Good(graph, t) /\ Later(graph, v, t)
        BY <1>1, <1>2, <1>6, <1>7
    <2>2. LeavesAt(t)
        BY <1>1, <1>7
    <2>3. Melds(v, w, a, b, more)
        BY <1>6
    <2> QED
        BY <1>5, <1>8, <2>1, <2>2, <2>3, MeldAgrees
<1>9. ASSUME NEW t2, Reaches(tr[n], tr[i], w, t2) PROVE LeavesAt(t2)'
    <2>1. \A l \in graph.leaves :
             leafBuf'[l].val = t2.buf[l] /\ leafBuf'[l].null = leafBuf[l].null
        BY <1>6, <1>7, <1>8, <1>9 DEF Reaches
    <2>2. \A l \in graph.leaves :
             leafBuf[l].null <=>
                l \in Nulled \/ (t2.phase = "null" /\ \E c \in t2.acc : c.home = l)
        BY <1>1, <1>4, <1>9 DEF Reaches, LeavesAt
    <2> QED
        BY <1>3, <2>1, <2>2 DEF LeavesAt
<1>10. PICK t2 : (t2 = tr[n] /\ Later(graph, w, tr[n])) \/ (t2 = w /\ tr[i] = tr[n])
    BY <1>2
<1>11. /\ Resolved(p, q).home = Melded(tr[i].buf, a, b, more).home
       /\ Resolved(p, q).fields \cup more = Melded(tr[i].buf, a, b, more).fields
       /\ Resolved(p, q).home = Own =>
             /\ ~Resolved(p, q).own.null
             /\ Resolved(p, q).own.val = Melded(tr[i].buf, a, b, more).own
    BY <1>5, <1>6, <1>7, <1>8, <1>10
<1> QED
    BY <1>9, <1>11 DEF Same

\* A merge that resolves p and q to null is doomed to send a null packet.
LEMMA NullOn ==
    ASSUME TypeOK, NEW n, NEW tr, Together(n, tr), NEW m \in Mergers, OnlyMoves(m),
           NEW i \in 0 .. n, Good(graph, tr[i]),
           NEW a, NEW b, NEW w, NEW more, Melds(tr[i], w, a, b, more),
           ~NullAlone(Nulled, a, b) => StepAlone(graph, Nulled, tr[i], w),
           NullAlone(Nulled, a, b) => StepAlone(graph, Nulled, tr[i], AfterNull(tr[i], a)),
           NEW p \in Partials, NEW q \in Partials, Same(p, a), Same(q, b),
           IsNull(p, q), WriteThrough(p, q),
           phase'[m] \in {"fold", "send"}, acc'[m] = {Resolved(p, q)}
    PROVE  AgreeInv'
PROOF
<1>1. IsGraph(graph) /\ Run(graph, Nulled, n, tr) /\ LeavesAt(tr[n]) /\ Nulled' = Nulled
      /\ graph' = graph
    BY GraphAssumption DEF TypeOK, Together, OnlyMoves, Nulled, DroppedLeaf
<1>2. PICK r : r = Resolved(p, q) /\ acc'[m] = {r}
    OBVIOUS
<1>3. /\ r.home = p.home /\ r.own.null /\ r.own.val = Bytes(p).val
      /\ \A l \in graph.leaves :
            /\ leafBuf'[l].val = leafBuf[l].val
            /\ leafBuf'[l].null <=> leafBuf[l].null \/ l = p.home
    BY <1>2, NullWrite
<1>4. /\ p.home = a.home
      /\ p.home = Own => Bytes(p).val = a.own
      /\ p.home # Own => p.home \in graph.leaves
    BY LeafBytes DEF Same
<1>5. CASE NullAlone(Nulled, a, b)
    <2>1. PICK y : y = AfterNull(tr[i], a) /\ StepAlone(graph, Nulled, tr[i], y)
        BY <1>5
    <2>2. y.phase = "null" /\ y.acc = {a} /\ y.buf = tr[i].buf /\ Over(y)
        BY <2>1 DEF AfterNull, View, Over
    <2>3. tr[i].phase # "null"
        BY <2>1, OverStops DEF Over
    <2>4. ASSUME NEW t2, Reaches(tr[n], tr[i], y, t2) PROVE LeavesAt(t2)'
        <3>1. t2 = y /\ (tr[n] = y \/ tr[n] = tr[i])
            BY <2>2, <2>4 DEF Reaches
        <3>2. \A l \in graph.leaves : leafBuf'[l].val = y.buf[l]
            BY <1>1, <1>3, <2>2, <3>1 DEF LeavesAt
        <3>3. \A l \in graph.leaves : leafBuf[l].null => l \in Nulled \/ l = a.home
            BY <1>1, <2>2, <2>3, <3>1 DEF LeavesAt
        <3>4. \A l \in graph.leaves : l \in Nulled => leafBuf[l].null
            BY <1>1 DEF LeavesAt
        <3>5. \A l \in graph.leaves : leafBuf'[l].null <=> l \in Nulled \/ a.home = l
            BY <1>3, <1>4, <3>3, <3>4
        <3> QED
            BY <1>1, <2>2, <3>1, <3>2, <3>5 DEF LeavesAt
    <2>5. Doomed(m, y)'
        BY <1>2, <1>3, <1>4, <2>2 DEF Doomed
    <2>6. phase'[m] \in {"conflicts", "fold", "send"}
        OBVIOUS
    <2> QED
        BY <2>1, <2>2, <2>4, <2>5, <2>6, StepOn
<1>6. CASE ~NullAlone(Nulled, a, b)
    <2>1. StepAlone(graph, Nulled, tr[i], w)
        BY <1>6
    <2>2. Later(graph, w, tr[n]) \/ tr[i] = tr[n]
        BY <1>1, <2>1, RunLater
    <2>3. tr[i].phase # "null"
        BY <2>1, OverStops DEF Over
    <2>4. /\ tr[n].phase = "null" /\ p.home \in graph.leaves /\ leafBuf[p.home].null
          /\ \E c \in tr[n].acc : c.home = p.home
        BY <1>1, <1>6, <2>2, <2>3, NullAgain
    <2>5. p.home # Own
        BY <2>4, OwnIsNoLeaf DEF TypeOK
    <2>6. LeavesAt(tr[n])'
        BY <1>1, <1>3, <2>4 DEF LeavesAt
    <2>7. Doomed(m, tr[n])'
        BY <1>2, <1>3, <2>4, <2>5 DEF Doomed
    <2>8. Follows(m, n, tr)'
        BY <2>7 DEF Follows
    <2> QED
        BY <2>6, <2>8, StayOn
<1> QED
    BY <1>5, <1>6

\* Merge m is, with the one that is alone, at a conflict c of p and q.
Facing(m, v, c, p, q, a, b) ==
    /\ Abreast(m, v) /\ Good(graph, v)
    /\ c = Item(m) /\ c.major \in DOMAIN info[m] /\ c.minor \in DOMAIN info[m]
    /\ p = info[m][c.major] /\ q = info[m][c.minor]
    /\ Faces(graph, v, c, a, b) /\ Same(p, a) /\ Same(q, b)

LEMMA AtConflict ==
    ASSUME TypeOK, NEW n, NEW tr, Together(n, tr), NEW m \in Mergers, AtItem(m), Available(m)
    PROVE  \E i \in 0 .. n : \E c, a, b : \E p, q \in Partials : Facing(m, tr[i], c, p, q, a, b)
PROOF
<1>1. phase[m] = "conflicts" /\ next[m] <= Len(graph.conflicts)
    BY DEF AtItem
<1>2. PICK i \in 0 .. n : Abreast(m, tr[i]) /\ Good(graph, tr[i])
    BY <1>1, InConflicts
<1>3. PICK c : c = Item(m)
    OBVIOUS
<1>4. c.major \in DOMAIN info[m] /\ c.minor \in DOMAIN info[m]
    BY <1>3 DEF Available
<1>5. info[m][c.major] \in Partials /\ info[m][c.minor] \in Partials
    BY <1>4 DEF TypeOK
<1>6. PICK a, b : a = tr[i].info[c.major] /\ b = tr[i].info[c.minor]
    OBVIOUS
<1>7. Same(info[m][c.major], a) /\ Same(info[m][c.minor], b)
    BY <1>2, <1>4, <1>6 DEF Abreast
<1>8. Faces(graph, tr[i], c, a, b)
    BY <1>1, <1>2, <1>3, <1>4, <1>6 DEF Faces, Abreast, Item
<1> QED
    BY <1>2, <1>3, <1>4, <1>5, <1>7, <1>8 DEF Facing

LEMMA AgreeResolveConflict ==
    ASSUME TypeOK, NEW n, NEW tr, Together(n, tr), NEW m \in Mergers, ResolveConflict(m)
    PROVE  AgreeInv'
PROOF
<1>1. OnlyMoves(m) /\ UNCHANGED <<graph, dropped>> /\ IsGraph(graph)
    BY MovesAlone, GraphAssumption DEF Step, ResolveConflict, TypeOK
<1>2. PICK i \in 0 .. n : \E c, a, b : \E p, q \in Partials : Facing(m, tr[i], c, p, q, a, b)
    BY AtConflict DEF ResolveConflict
<1>3. PICK c, a, b : \E p, q \in Partials : Facing(m, tr[i], c, p, q, a, b)
    BY <1>2
<1>4. PICK p \in Partials, q \in Partials :
         /\ Abreast(m, tr[i]) /\ Good(graph, tr[i])
         /\ c = Item(m) /\ c.major \in DOMAIN info[m] /\ c.minor \in DOMAIN info[m]
         /\ p = info[m][c.major] /\ q = info[m][c.minor]
         /\ Faces(graph, tr[i], c, a, b) /\ Same(p, a) /\ Same(q, b)
    BY <1>3 DEF Facing
<1>5. PICK v : v = tr[i]
    OBVIOUS
<1>6. PICK more, w : more = ParentWrites(graph, c) /\ w = AfterResolve(graph, v, c, a, b)
    OBVIOUS
<1>7. Melds(v, w, a, b, more)
    BY <1>1, <1>4, <1>5, <1>6, ResolveMelds
<1>8. ~IsNull(p, q) /\ WriteThrough(p, q)
    BY <1>4 DEF ResolveConflict
<1>9. a \in PartsOf(v) /\ b \in PartsOf(v)
    BY <1>7 DEF Melds
<1>10. ~NullAlone(Nulled, a, b)
    BY <1>4, <1>5, <1>8, <1>9, NullToAll DEF Together
<1>11. StepAlone(graph, Nulled, v, w)
    BY <1>4, <1>5, <1>6, <1>10 DEF StepAlone, ResolveAlone
<1>12. PICK r, s : /\ r = WithParent(Resolved(p, q), c.parent)
                   /\ s = Melded(v.buf, a, b, more)
    OBVIOUS
<1>13. r.home = Resolved(p, q).home /\ r.own = Resolved(p, q).own
       /\ r.fields = Resolved(p, q).fields \cup more
    BY <1>6, <1>12 DEF WithParent, Resolved, ParentWrites
<1>14. /\ w.phase = "conflicts" /\ w.next = v.next + 1 /\ w.changed = TRUE /\ w.acc = v.acc
       /\ w.info = MapInsert(MapErase(v.info, {c.major, c.minor}), c.parent, s)
    BY <1>6, <1>12 DEF AfterResolve, View
<1>15. w.phase # "null"
    BY <1>14
<1>16. /\ \A t2 : Reaches(tr[n], v, w, t2) => LeavesAt(t2)'
       /\ Same(r, s)
    <2>1. Melds(tr[i], w, a, b, more) /\ StepAlone(graph, Nulled, tr[i], w)
        BY <1>5, <1>7, <1>11
    <2>2. /\ \A t2 : Reaches(tr[n], tr[i], w, t2) => LeavesAt(t2)'
          /\ \A y : /\ y.home = Resolved(p, q).home /\ y.own = Resolved(p, q).own
                    /\ y.fields = Resolved(p, q).fields \cup more
                    => Same(y, Melded(tr[i].buf, a, b, more))
        BY <1>1, <1>4, <1>8, <1>15, <2>1, MeldOn
    <2> QED
        BY <1>5, <1>12, <1>13, <2>2
<1>17. /\ phase'[m] = "conflicts" /\ next'[m] = next[m] + 1 /\ changed'[m] = TRUE
       /\ acc'[m] = acc[m]
       /\ info'[m] = MapInsert(MapErase(info[m], {c.major, c.minor}), c.parent, r)
    BY <1>4, <1>12 DEF ResolveConflict, AtItem, TypeOK
<1>18. PICK keys, old : keys = {c.major, c.minor} /\ old = info[m]
    OBVIOUS
<1>19. /\ DOMAIN info'[m] = (DOMAIN old \ keys) \cup {c.parent}
       /\ DOMAIN w.info = (DOMAIN v.info \ keys) \cup {c.parent}
    BY <1>14, <1>17, <1>18 DEF MapInsert, MapErase, Restrict
<1>20. DOMAIN old = DOMAIN v.info /\ \A k \in DOMAIN old : Same(old[k], v.info[k])
    BY <1>4, <1>5, <1>18 DEF Abreast
<1>21. ASSUME NEW k \in DOMAIN info'[m] PROVE Same(info'[m][k], w.info[k])
    <2>1. k \in DOMAIN w.info
        BY <1>19, <1>20, <1>21
    <2>2. \/ k \in DOMAIN old \ keys /\ info'[m][k] = old[k]
          \/ k \notin DOMAIN old \ keys /\ info'[m][k] = r
        BY <1>17, <1>18, <1>21, InsertFacts
    <2>3. \/ k \in DOMAIN v.info \ keys /\ w.info[k] = v.info[k]
          \/ k \notin DOMAIN v.info \ keys /\ w.info[k] = s
        BY <1>14, <1>18, <2>1, InsertFacts
    <2> QED
        BY <1>16, <1>20, <2>2, <2>3
<1>22. Abreast(m, w)'
    <2>1. /\ phase'[m] = w.phase /\ next'[m] = w.next /\ changed'[m] = w.changed
          /\ acc'[m] = {} <=> w.acc = {}
        BY <1>4, <1>5, <1>14, <1>17 DEF Abreast
    <2>2. \A x \in acc'[m] : \A y \in w.acc : Same(x, y)
        BY <1>4, <1>5, <1>14, <1>17 DEF Abreast
    <2>3. DOMAIN info'[m] = DOMAIN w.info
        BY <1>19, <1>20
    <2> QED
        BY <1>21, <2>1, <2>2, <2>3 DEF Abreast
<1>23. phase'[m] \in {"conflicts", "fold", "send"}
    BY <1>17
<1> QED
    BY <1>1, <1>5, <1>11, <1>16, <1>22, <1>23, StepOn

LEMMA AgreeResolveToNull ==
    ASSUME TypeOK, NEW n, NEW tr, Together(n, tr), NEW m \in Mergers, ResolveToNull(m)
    PROVE  AgreeInv'
PROOF
<1>1. OnlyMoves(m) /\ UNCHANGED <<graph, dropped>> /\ IsGraph(graph)
    BY MovesAlone, GraphAssumption DEF Step, ResolveToNull, TypeOK
<1>2. PICK i \in 0 .. n : \E c, a, b : \E p, q \in Partials : Facing(m, tr[i], c, p, q, a, b)
    BY AtConflict DEF ResolveToNull
<1>3. PICK c, a, b : \E p, q \in Partials : Facing(m, tr[i], c, p, q, a, b)
    BY <1>2
<1>4. PICK p \in Partials, q \in Partials :
         /\ Abreast(m, tr[i]) /\ Good(graph, tr[i])
         /\ c = Item(m) /\ c.major \in DOMAIN info[m] /\ c.minor \in DOMAIN info[m]
         /\ p = info[m][c.major] /\ q = info[m][c.minor]
         /\ Faces(graph, tr[i], c, a, b) /\ Same(p, a) /\ Same(q, b)
    BY <1>3 DEF Facing
<1>5. PICK more, w : more = ParentWrites(graph, c) /\ w = AfterResolve(graph, tr[i], c, a, b)
    OBVIOUS
<1>6. Melds(tr[i], w, a, b, more)
    BY <1>1, <1>4, <1>5, ResolveMelds
<1>7. IsNull(p, q) /\ WriteThrough(p, q)
    BY <1>4 DEF ResolveToNull
<1>8. phase'[m] \in {"fold", "send"} /\ acc'[m] = {Resolved(p, q)}
    BY <1>4 DEF ResolveToNull, TypeOK
<1>9. /\ ~NullAlone(Nulled, a, b) => StepAlone(graph, Nulled, tr[i], w)
      /\ NullAlone(Nulled, a, b) => StepAlone(graph, Nulled, tr[i], AfterNull(tr[i], a))
    BY <1>4, <1>5 DEF StepAlone, ResolveAlone, ResolveToNullAlone
<1> QED
    BY <1>1, <1>4, <1>6, <1>7, <1>8, <1>9, NullOn

\* A doomed merge goes on writing null marks, where they are already.
LEMMA FoldDoomed ==
    ASSUME TypeOK, NEW n, NEW tr, Together(n, tr), NEW m \in Mergers,
           NEW k \in DOMAIN info[m], FoldNext(m, k), Doomed(m, tr[n])
    PROVE  AgreeInv'
PROOF
<1>1. OnlyMoves(m) /\ UNCHANGED <<graph, dropped, phase>> /\ Nulled' = Nulled
    BY MovesAlone DEF Step, FoldNext, Nulled, DroppedLeaf
<1>2. PICK p \in acc[m] : /\ WriteThrough(p, info[m][k])
                          /\ acc' = [acc EXCEPT ![m] = {Resolved(p, info[m][k])}]
    BY DEF FoldNext
<1>3. p \in Partials /\ info[m][k] \in Partials
    BY DEF TypeOK
<1>4. PICK q, r : q = info[m][k] /\ r = Resolved(p, q)
    OBVIOUS
<1>5. PICK a \in tr[n].acc :
         /\ p.home = a.home
         /\ IF p.home = Own THEN p.own.null /\ p.own.val = a.own ELSE leafBuf[p.home].null
    BY DEF Doomed
<1>6. Bytes(p).null /\ IsNull(p, q)
    BY <1>5 DEF IsNull, Bytes
<1>7. /\ r.home = p.home /\ r.own.null /\ r.own.val = Bytes(p).val
      /\ \A l \in graph.leaves :
            /\ leafBuf'[l].val = leafBuf[l].val
            /\ leafBuf'[l].null <=> leafBuf[l].null \/ l = p.home
    BY <1>2, <1>3, <1>4, <1>6, NullWrite
<1>8. /\ p.home # Own => p.home \in graph.leaves /\ leafBuf[p.home].null
      /\ p.home = Own => Bytes(p).val = a.own
    BY <1>3, <1>5, LeafBytes
<1>9. \A l \in graph.leaves :
         leafBuf'[l].val = leafBuf[l].val /\ (leafBuf'[l].null <=> leafBuf[l].null)
    BY <1>7, <1>8, OwnIsNoLeaf DEF TypeOK
<1>10. LeavesAt(tr[n])'
    BY <1>1, <1>9 DEF Together, LeavesAt
<1>11. acc'[m] = {r}
    BY <1>2, <1>4 DEF TypeOK
<1>12. Doomed(m, tr[n])'
    BY <1>1, <1>5, <1>7, <1>8, <1>9, <1>11 DEF Doomed
<1>13. Follows(m, n, tr)'
    BY <1>12 DEF Follows, Doomed
<1> QED
    BY <1>1, <1>10, <1>13, StayOn

LEMMA AgreeFoldNext ==
    ASSUME TypeOK, NEW n, NEW tr, Together(n, tr), NEW m \in Mergers,
           NEW k \in DOMAIN info[m], FoldNext(m, k)
    PROVE  AgreeInv'
PROOF
<1>1. OnlyMoves(m) /\ UNCHANGED <<graph, dropped>>
    BY MovesAlone DEF Step, FoldNext
<1>2. phase[m] = "fold" /\ FirstKey(m, k)
    BY DEF FoldNext
<1>3. ASSUME NEW i \in 0 .. n, Abreast(m, tr[i]), Good(graph, tr[i]) PROVE AgreeInv'
    <2>1. PICK p \in acc[m] : /\ WriteThrough(p, info[m][k])
                              /\ acc' = [acc EXCEPT ![m] = {Resolved(p, info[m][k])}]
        BY DEF FoldNext
    <2>2. p \in Partials /\ info[m][k] \in Partials
        BY DEF TypeOK
    <2>3. PICK q \in Partials : q = info[m][k]
        BY <2>2
    <2>4. PICK v : v = tr[i]
        OBVIOUS
    <2>5. v.acc # {} /\ v.phase = "fold"
        BY <1>2, <1>3, <2>1, <2>4 DEF Abreast
    <2>6. PICK a \in v.acc : Same(p, a)
        BY <1>3, <2>1, <2>4, <2>5 DEF Abreast
    <2>7. First(v, k)
        BY <1>2, <1>3, <2>4 DEF FirstKey, First, Abreast
    <2>8. PICK b, w : b = v.info[k] /\ w = AfterFold(v, k, a)
        OBVIOUS
    <2>9. Same(q, b)
        BY <1>3, <2>3, <2>4, <2>8 DEF Abreast
    <2>10. Melds(v, w, a, b, {}) /\ Good(graph, v)
        BY <1>3, <2>4, <2>7, <2>8, FoldMelds
    <2>11. /\ ~NullAlone(Nulled, a, b) => StepAlone(graph, Nulled, v, w)
           /\ NullAlone(Nulled, a, b) => StepAlone(graph, Nulled, v, AfterNull(v, a))
        BY <2>5, <2>7, <2>8 DEF StepAlone, FoldNextAlone, FoldToNullAlone
    <2>12. /\ phase'[m] = "fold" /\ next'[m] = next[m] /\ changed'[m] = changed[m]
           /\ info'[m] = MapErase(info[m], {k}) /\ acc'[m] = {Resolved(p, q)}
        BY <1>2, <2>1, <2>3 DEF FoldNext, TypeOK
    <2>13. WriteThrough(p, q)
        BY <2>1, <2>3
    <2>14. CASE IsNull(p, q)
        <3>1. Melds(tr[i], w, a, b, {}) /\ phase'[m] \in {"fold", "send"}
            BY <2>4, <2>10, <2>12
        <3>2. /\ ~NullAlone(Nulled, a, b) => StepAlone(graph, Nulled, tr[i], w)
              /\ NullAlone(Nulled, a, b) => StepAlone(graph, Nulled, tr[i], AfterNull(tr[i], a))
            BY <2>4, <2>11
        <3> QED
            BY <1>1, <1>3, <2>2, <2>6, <2>9, <2>12, <2>13, <2>14, <3>1, <3>2, NullOn
    <2>15. CASE ~IsNull(p, q)
        <3>1. a \in PartsOf(v) /\ b \in PartsOf(v)
            BY <2>10 DEF Melds
        <3>2. ~NullAlone(Nulled, a, b)
            BY <2>2, <2>6, <2>9, <2>10, <2>15, <3>1, NullToAll DEF Together
        <3>3. PICK r, s : r = Resolved(p, q) /\ s = Melded(v.buf, a, b, {})
            OBVIOUS
        <3>4. /\ w.phase = "fold" /\ w.next = v.next /\ w.changed = v.changed /\ w.acc = {s}
              /\ w.info = MapErase(v.info, {k})
            BY <2>8, <3>3 DEF AfterFold, View
        <3>5. Melds(tr[i], w, a, b, {}) /\ StepAlone(graph, Nulled, tr[i], w) /\ w.phase # "null"
            BY <2>4, <2>10, <2>11, <3>2, <3>4
        <3>6. /\ \A t2 : Reaches(tr[n], tr[i], w, t2) => LeavesAt(t2)'
              /\ \A y : /\ y.home = Resolved(p, q).home /\ y.own = Resolved(p, q).own
                        /\ y.fields = Resolved(p, q).fields \cup {}
                        => Same(y, Melded(tr[i].buf, a, b, {}))
            BY <1>1, <2>2, <2>6, <2>9, <2>13, <2>15, <3>5, MeldOn
        <3>7. Same(r, s)
            BY <2>4, <3>3, <3>6
        <3>8. /\ DOMAIN info'[m] = DOMAIN info[m] \ {k}
              /\ \A j \in DOMAIN info'[m] : info'[m][j] = info[m][j]
            BY <2>12 DEF MapErase, Restrict
        <3>9. /\ DOMAIN w.info = DOMAIN v.info \ {k}
              /\ \A j \in DOMAIN w.info : w.info[j] = v.info[j]
            BY <3>4 DEF MapErase, Restrict
        <3>10. /\ DOMAIN info[m] = DOMAIN v.info
               /\ \A j \in DOMAIN info[m] : Same(info[m][j], v.info[j])
            BY <1>3, <2>4 DEF Abreast
        <3>11. /\ DOMAIN info'[m] = DOMAIN w.info
               /\ \A j \in DOMAIN info'[m] : Same(info'[m][j], w.info[j])
            BY <3>8, <3>9, <3>10
        <3>12. /\ phase'[m] = w.phase /\ next'[m] = w.next /\ changed'[m] = w.changed
               /\ acc'[m] # {} /\ w.acc # {}
            BY <1>3, <2>4, <2>12, <3>4 DEF Abreast
        <3>13. \A x \in acc'[m] : \A y \in w.acc : Same(x, y)
            BY <2>12, <3>3, <3>4, <3>7
        <3>14. Abreast(m, w)'
            BY <3>11, <3>12, <3>13 DEF Abreast
        <3>15. phase'[m] \in {"conflicts", "fold", "send"}
            BY <2>12
        <3> QED
            BY <1>1, <3>5, <3>6, <3>14, <3>15, StepOn
    <2> QED
        BY <2>14, <2>15
<1> QED
    BY <1>2, <1>3, InFold, FoldDoomed
-----------------------------------------------------------------------------
LEMMA StartIsGood ==
    ASSUME NEW g, IsGraph(g)
    PROVE  Good(g, StartAlone(g))
PROOF
<1> DEFINE v == StartAlone(g)
           sent == [l \in g.leaves |-> [f \in Fields |-> Arrived(g, l, f)]]
           alone(l) == [home |-> l, own |-> sent[l], fields |-> Writes(g, l)]
<1>1. /\ v.next = 1 /\ v.acc = {} /\ v.buf = sent
      /\ v.info = [l \in g.leaves |-> alone(l)]
    BY DEF StartAlone, View
<1>2. \A l \in g.leaves : alone(l).home = l
    OBVIOUS
<1>3. g.leaves \subseteq Int
    BY DEF IsGraph
<1>4. sent = [l \in g.leaves |-> sent[l]]
      /\ \A l \in g.leaves : sent[l] = [f \in Fields |-> sent[l][f]]
    OBVIOUS
<1> HIDE DEF v, sent, alone
<1>5. DOMAIN v.info = g.leaves /\ \A l \in g.leaves : v.info[l].home = l
    BY <1>1, <1>2
<1>6. \A x \in PartsOf(v) : x.home \in g.leaves
    BY <1>1, <1>5 DEF PartsOf
<1>7. v.buf = [l \in g.leaves |-> v.buf[l]]
      /\ \A l \in g.leaves : v.buf[l] = [f \in Fields |-> v.buf[l][f]]
    BY <1>1, <1>4
<1>8. \A k, j \in DOMAIN v.info :
         v.info[k].home = v.info[j].home /\ v.info[k].home # Own => k = j
    BY <1>5
<1>9. v.next \in Nat \ {0} /\ DOMAIN v.info \subseteq Int
    BY <1>1, <1>3, <1>5
<1>10. Good(g, v)
    BY <1>1, <1>6, <1>7, <1>8, <1>9 DEF Good
<1> QED
    BY <1>10 DEF v

LEMMA InitAgree == Init => AgreeInv
PROOF
<1> SUFFICES ASSUME Init PROVE AgreeInv
    OBVIOUS
<1>1. IsGraph(graph)
    BY GraphAssumption DEF Init
<1>2. PICK v, tr : v = StartAlone(graph) /\ tr = [i \in 0 .. 0 |-> v]
    OBVIOUS
<1>3. \A i \in 0 .. 0 : i = 0 /\ tr[i] = v
    BY <1>2
<1>4. Good(graph, v) /\ Later(graph, v, v)
    BY <1>1, <1>2, StartIsGood, LaterSelf
<1>5. Run(graph, Nulled, 0, tr)
    BY <1>2, <1>3, <1>4 DEF Run
<1>6. LeavesAt(tr[0])
    <2>1. v.phase = "conflicts"
          /\ v.buf = [l \in graph.leaves |-> [f \in Fields |-> Arrived(graph, l, f)]]
        BY <1>2 DEF StartAlone, View
    <2>2. \A l \in graph.leaves :
             /\ leafBuf[l].val = [f \in Fields |-> Arrived(graph, l, f)]
             /\ leafBuf[l].null <=> DroppedLeaf(l)
        BY DEF Init, LeafPacket, DroppedLeaf
    <2>3. tr[0] = v
        BY <1>3
    <2>4. \A l \in graph.leaves : DroppedLeaf(l) <=> l \in Nulled
        BY DEF Nulled
    <2> QED
        BY <2>1, <2>2, <2>3, <2>4 DEF LeavesAt
<1>7. \A m \in Mergers : Follows(m, 0, tr)
    BY DEF Init, Follows
<1> QED
    BY <1>5, <1>6, <1>7 DEF AgreeInv, Together

LEMMA AgreeStep == TypeOK /\ AgreeInv /\ [Next]_vars => AgreeInv'
PROOF
<1> SUFFICES ASSUME TypeOK, AgreeInv, [Next]_vars PROVE AgreeInv'
    OBVIOUS
<1>1. PICK n, tr : Together(n, tr)
    BY DEF AgreeInv
<1>2. ASSUME NEW m \in Mergers, Step(m) PROVE AgreeInv'
    BY <1>1, <1>2, AgreeConvert, AgreeResolveConflict, AgreeResolveToNull, AgreeSkip,
       AgreeEndPass, AgreeFoldFirst, AgreeFoldNext, AgreeFoldEnd, AgreeSend DEF Step
<1>3. CASE UNCHANGED vars
    <2>1. Nulled' = Nulled /\ UNCHANGED vars
        BY <1>3 DEF vars, Nulled, DroppedLeaf
    <2>2. Together(n, tr)'
        BY <1>1, <2>1 DEF vars, Together, LeavesAt, Follows, Abreast, Doomed, Sent
    <2> QED
        BY <2>2 DEF AgreeInv
<1> QED
    BY <1>2, <1>3 DEF Next

\* The merges of an id follow one course, and leave the leaves' packets as
\* the farthest of them needs them.
THEOREM AgreeInvariance == Spec => []AgreeInv
<1> QED
    BY InitAgree, AgreeStep, TypeCorrect, PTL DEF Spec

(***************************************************************************)
(* For every graph, every conflict list, every set of dropping nodes and   *)
(* any number of overlapping merges: two merges of one id send the same    *)
(* packet (run_merge_packet), although each writes into the leaves'        *)
(* packets the others are reading.                                         *)
(***************************************************************************)
THEOREM MergesAgree == Spec => []Agreement
<1>1. TypeOK /\ NullInv /\ NullDominates /\ AgreeInv => Agreement
    <2> SUFFICES ASSUME TypeOK, NullInv, NullDominates, AgreeInv,
                        NEW m1 \in Mergers, NEW m2 \in Mergers,
                        NEW r1 \in result[m1], NEW r2 \in result[m2]
                 PROVE  r1 = r2
        BY DEF Agreement
    <2>1. PICK n, tr : Together(n, tr)
        BY DEF AgreeInv
    <2>2. phase[m1] = "sent" /\ phase[m2] = "sent"
        BY DEF NullInv, PartNulls, Tidy
    <2>3. Sent(m1, tr[n]) /\ Sent(m2, tr[n])
        BY <2>1, <2>2 DEF Together, Follows
    <2>4. n \in Nat /\ Good(graph, tr[n])
        BY <2>1 DEF Together, Run
    <2>5. r1.val = r2.val
        BY <2>3, <2>4 DEF Sent, Good
    <2>6. r1.null <=> r2.null
        BY DEF NullDominates
    <2>7. r1 \in Packets /\ r2 \in Packets
        BY DEF TypeOK
    <2> QED
        BY <2>5, <2>6, <2>7 DEF Packets
<1> QED
    BY <1>1, TypeCorrect, NullInvariance, DropsAreMerged, AgreeInvariance, PTL
=============================================================================
