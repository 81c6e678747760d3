---------------------------- MODULE MergePacket ----------------------------
(***************************************************************************)
(* What one merge of the merger computes (merge_packet and                 *)
(* resolve_packet_conflict in src/runtime/merger/MergerOperator.cpp): the  *)
(* copies of a packet that the leaves of the service graph sent are        *)
(* combined pairwise, first as the list of conflicts says, then in the     *)
(* order of their keys.                                                    *)
(*                                                                         *)
(* Several merge threads may run for one id (see MergerOperator).  Each    *)
(* has its own map of partial results, but the leaves' packets are shared, *)
(* and a "new" packet made from a buffer is that buffer: merging writes    *)
(* into the copies it merges.                                              *)
(*                                                                         *)
(* The value of a field is the node that wrote it last, or AsSent.  Of     *)
(* source address and port only whether both are zero matters: a packet    *)
(* whose are is null, that is, dropped.  (Reading a payload back may take  *)
(* stray bytes that follow its buffer along; the writer is the same.)  One *)
(* resolution is one step: threads that overlap in it store the same       *)
(* values in a shared buffer.                                              *)
(***************************************************************************)
EXTENDS Integers, Sequences, FiniteSetsExt

CONSTANTS
    Graphs,   \* the service graphs, with their conflict lists, to merge for
    Mergers   \* the merge threads running for one id

Fields == {"DIP", "DPORT", "PAYLOAD"}   \* those an NF writes
AsSent == -1
NoParent == -1                          \* ConflictItem's parent of a root
Own == -2                               \* a buffer of the partial's own

\* ActionTable: the fields each kind of network function writes.
WriteFields ==
    [dnf_firewall |-> {}, dnf_loadbalancer |-> {}, pktgen |-> {},
     proxy |-> {"DIP", "DPORT"}, compressor |-> {"PAYLOAD"}]

\* The kinds that drop packets (they nullify them and send them on).
Droppers == {"dnf_firewall", "dnf_loadbalancer"}

(***************************************************************************)
(* A graph: the kind of each runtime node (node_map); the leaves; for each *)
(* leaf the path of nodes its copy has gone through; the ConflictItems.    *)
(***************************************************************************)
Items(nodes) == [major : nodes, minor : nodes, parent : nodes \cup {NoParent}]

IsGraph(g) ==
    LET nodes == DOMAIN g.nf
    IN /\ nodes \subseteq Nat /\ IsFiniteSet(nodes)
       /\ \A n \in nodes : g.nf[n] \in DOMAIN WriteFields
       /\ g.leaves \subseteq nodes /\ g.leaves # {}
       /\ DOMAIN g.path = g.leaves
       /\ \A l \in g.leaves : /\ g.path[l] \in Seq(nodes) /\ g.path[l] # <<>>
                              /\ g.path[l][Len(g.path[l])] = l
       /\ g.conflicts \in Seq(Items(nodes))
       /\ \A c \in Range(g.conflicts) : c.major # c.minor

ASSUME GraphAssumption == \A g \in Graphs : IsGraph(g)

Writes(g, n) == WriteFields[g.nf[n]]

VARIABLES
    graph,     \* the graph of this run: MergerInfo
    dropped,   \* the nodes that nullified this packet
    leafBuf,   \* leaf -> the bytes of its packet, shared by all merges
    phase,     \* where each merge is
    info,      \* pkt_info_map of each merge: key -> partial result
    next,      \* the position of each merge in conflicts_list
    changed,   \* was_changed
    acc,       \* merged_packet: at most one partial result
    result     \* the packet each merge has sent: at most one

threads == <<phase, info, next, changed, acc, result>>
vars == <<graph, dropped, leafBuf, phase, info, next, changed, acc, result>>

-----------------------------------------------------------------------------
(* The copies the leaves send                                              *)

WritersOf(g, l, f) == {i \in DOMAIN g.path[l] : f \in Writes(g, g.path[l][i])}

\* Field f of leaf l's copy: the last node on its path that writes f wrote it.
Arrived(g, l, f) ==
    IF WritersOf(g, l, f) = {} THEN AsSent
    ELSE g.path[l][Max(WritersOf(g, l, f))]

LeafPacket(g, d, l) == [null |-> Range(g.path[l]) \cap d # {},
                        val  |-> [f \in Fields |-> Arrived(g, l, f)]]

-----------------------------------------------------------------------------
(* resolve_packet_conflict                                                 *)

(***************************************************************************)
(* A partial result: whose bytes it is made of (a leaf's, or its Own), the *)
(* bytes if they are its own, and its written_fields.                      *)
(***************************************************************************)
Bytes(p) == IF p.home = Own THEN p.own ELSE leafBuf[p.home]

\* Bug for TLC: fields the major has written are copied too.
HeadersAll(major, minor) ==
    LET copied == minor.fields \ {"PAYLOAD"}
    IN [null |-> Bytes(major).null,
        val  |-> [f \in Fields |-> IF f \in copied THEN Bytes(minor).val[f]
                                   ELSE Bytes(major).val[f]]]

\* pi->pkt's bytes once the DIP and DPORT of the minor have been copied.
Headers(major, minor) ==
    LET copied == (minor.fields \ major.fields) \ {"PAYLOAD"}
    IN [null |-> Bytes(major).null,
        val  |-> [f \in Fields |-> IF f \in copied THEN Bytes(minor).val[f]
                                   ELSE Bytes(major).val[f]]]

\* Packet::nullify
Nullified(b) == [null |-> TRUE, val |-> b.val]

\* Bug for TLC: only the major's packet is tested.
MajorIsNull(major, minor) == Bytes(major).null

IsNull(major, minor) == Bytes(major).null \/ Bytes(minor).null

\* Bug for TLC: the payload is copied whoever has written it.
CopiesAnyPayload(major, minor) == "PAYLOAD" \in minor.fields

\* Fields are copied in the order of the enum: the payload is the last, and
\* write_payload moves the packet to a buffer of its own.
CopiesPayload(major, minor) == "PAYLOAD" \in minor.fields \ major.fields

WithPayload(b, from) ==
    [null |-> b.null,
     val  |-> [b.val EXCEPT !["PAYLOAD"] = from.val["PAYLOAD"]]]

\* Bug for TLC: written_fields stays the major's.
ResolvedForgets(major, minor) ==
    IF IsNull(major, minor)
    THEN [home |-> major.home, own |-> Nullified(Bytes(major)), fields |-> {}]
    ELSE [home   |-> IF CopiesPayload(major, minor) THEN Own ELSE major.home,
          own    |-> IF CopiesPayload(major, minor)
                     THEN WithPayload(Headers(major, minor), Bytes(minor))
                     ELSE Headers(major, minor),
          fields |-> major.fields]

Resolved(major, minor) ==
    IF IsNull(major, minor)
    THEN [home   |-> major.home,
          own    |-> Nullified(Bytes(major)),
          fields |-> {}]
    ELSE [home   |-> IF CopiesPayload(major, minor) THEN Own ELSE major.home,
          own    |-> IF CopiesPayload(major, minor)
                     THEN WithPayload(Headers(major, minor), Bytes(minor))
                     ELSE Headers(major, minor),
          fields |-> major.fields \cup minor.fields]

\* Bug for TLC: the minor's packet is the one written to.
WriteMinor(major, minor) ==
    leafBuf' = IF minor.home = Own THEN leafBuf
               ELSE [leafBuf EXCEPT ![minor.home] =
                       IF IsNull(major, minor) THEN Nullified(@)
                       ELSE Headers(major, minor)]

\* What resolving writes through the alias into a leaf's packet.
WriteThrough(major, minor) ==
    leafBuf' = IF major.home = Own THEN leafBuf
               ELSE [leafBuf EXCEPT ![major.home] =
                       IF IsNull(major, minor) THEN Nullified(@)
                       ELSE Headers(major, minor)]

-----------------------------------------------------------------------------
Init ==
    /\ graph \in Graphs
    /\ dropped \in SUBSET {n \in DOMAIN graph.nf : graph.nf[n] \in Droppers}
    /\ leafBuf = [l \in graph.leaves |-> LeafPacket(graph, dropped, l)]
    /\ phase = [m \in Mergers |-> "convert"]
    /\ info = [m \in Mergers |-> <<>>]
    /\ next = [m \in Mergers |-> 1]
    /\ changed = [m \in Mergers |-> FALSE]
    /\ acc = [m \in Mergers |-> {}]
    /\ result = [m \in Mergers |-> {}]

\* packet_map_to_packet_info_map: only the leaf's own NF counts as a writer.
Convert(m) ==
    /\ phase[m] = "convert"
    /\ info' = [info EXCEPT ![m] =
                  [l \in graph.leaves |-> [home   |-> l,
                                           own    |-> leafBuf[l],
                                           fields |-> Writes(graph, l)]]]
    /\ phase' = [phase EXCEPT ![m] = "conflicts"]
    /\ UNCHANGED <<graph, dropped, leafBuf, next, changed, acc, result>>

Item(m) == graph.conflicts[next[m]]
AtItem(m) == phase[m] = "conflicts" /\ next[m] <= Len(graph.conflicts)
Available(m) == {Item(m).major, Item(m).minor} \subseteq DOMAIN info[m]

\* The parent's NF wrote to both packets.
WithParent(p, parent) ==
    [p EXCEPT !.fields = @ \cup IF parent \in DOMAIN graph.nf
                                THEN Writes(graph, parent) ELSE {}]

MapErase(map, keys) == Restrict(map, DOMAIN map \ keys)

\* std::map::insert does nothing if the key is there.
MapInsert(map, key, p) ==
    [k \in DOMAIN map \cup {key} |-> IF k \in DOMAIN map THEN map[k] ELSE p]

\* A conflict whose packets are both there is resolved.
ResolveConflict(m) ==
    /\ AtItem(m)
    /\ Available(m)
    /\ LET c == Item(m)
           major == info[m][c.major]
           minor == info[m][c.minor]
           p == WithParent(Resolved(major, minor), c.parent)
       IN /\ ~IsNull(major, minor)
          /\ WriteThrough(major, minor)
          /\ info' = [info EXCEPT ![m] =
                        MapInsert(MapErase(@, {c.major, c.minor}), c.parent, p)]
    /\ changed' = [changed EXCEPT ![m] = TRUE]
    /\ next' = [next EXCEPT ![m] = @ + 1]
    /\ UNCHANGED <<graph, dropped, phase, acc, result>>

\* If it resolves to a null packet, that is the result.
ResolveToNull(m) ==
    /\ AtItem(m)
    /\ Available(m)
    /\ LET major == info[m][Item(m).major]
           minor == info[m][Item(m).minor]
       IN /\ IsNull(major, minor)
          /\ WriteThrough(major, minor)
          /\ acc' = [acc EXCEPT ![m] = {Resolved(major, minor)}]
    /\ phase' = [phase EXCEPT ![m] = "send"]
    /\ UNCHANGED <<graph, dropped, info, next, changed, result>>

\* Bug for TLC: a skip advances the position twice.
SkipTwo(m) ==
    /\ AtItem(m)
    /\ ~Available(m)
    /\ next' = [next EXCEPT ![m] = @ + 2]
    /\ UNCHANGED <<graph, dropped, leafBuf, phase, info, changed, acc, result>>

SkipConflict(m) ==
    /\ AtItem(m)
    /\ ~Available(m)
    /\ next' = [next EXCEPT ![m] = @ + 1]
    /\ UNCHANGED <<graph, dropped, leafBuf, phase, info, changed, acc, result>>

\* Bug for TLC: was_changed is not reset for the next pass.
EndPassStale(m) ==
    /\ phase[m] = "conflicts"
    /\ next[m] > Len(graph.conflicts)
    /\ phase' = [phase EXCEPT ![m] = IF changed[m] THEN "conflicts" ELSE "fold"]
    /\ next' = [next EXCEPT ![m] = 1]
    /\ UNCHANGED <<graph, dropped, leafBuf, info, changed, acc, result>>

\* The end of a pass over the list: while (was_changed).
EndPass(m) ==
    /\ phase[m] = "conflicts"
    /\ next[m] > Len(graph.conflicts)
    /\ phase' = [phase EXCEPT ![m] = IF changed[m] THEN "conflicts" ELSE "fold"]
    /\ next' = [next EXCEPT ![m] = 1]
    /\ changed' = [changed EXCEPT ![m] = FALSE]
    /\ UNCHANGED <<graph, dropped, leafBuf, info, acc, result>>

\* What is left is merged in the order of the keys.
FirstKey(m, k) == k \in DOMAIN info[m] /\ \A j \in DOMAIN info[m] : k <= j

FoldFirst(m, k) ==
    /\ phase[m] = "fold"
    /\ acc[m] = {}
    /\ FirstKey(m, k)
    /\ acc' = [acc EXCEPT ![m] = {info[m][k]}]
    /\ info' = [info EXCEPT ![m] = MapErase(@, {k})]
    /\ UNCHANGED <<graph, dropped, leafBuf, phase, next, changed, result>>

FoldNext(m, k) ==
    /\ phase[m] = "fold"
    /\ FirstKey(m, k)
    /\ \E p \in acc[m] :
          /\ WriteThrough(p, info[m][k])
          /\ acc' = [acc EXCEPT ![m] = {Resolved(p, info[m][k])}]
    /\ info' = [info EXCEPT ![m] = MapErase(@, {k})]
    /\ UNCHANGED <<graph, dropped, phase, next, changed, result>>

FoldEnd(m) ==
    /\ phase[m] = "fold"
    /\ DOMAIN info[m] = {}
    /\ acc[m] # {}
    /\ phase' = [phase EXCEPT ![m] = "send"]
    /\ UNCHANGED <<graph, dropped, leafBuf, info, next, changed, acc, result>>

\* run_merge_packet sends the bytes, as they are by then.
Send(m) ==
    /\ phase[m] = "send"
    /\ result' = [result EXCEPT ![m] = {Bytes(p) : p \in acc[m]}]
    /\ phase' = [phase EXCEPT ![m] = "sent"]
    /\ UNCHANGED <<graph, dropped, leafBuf, info, next, changed, acc>>

Step(m) ==
    \/ Convert(m)
    \/ ResolveConflict(m) \/ ResolveToNull(m) \/ SkipConflict(m) \/ EndPass(m)
    \/ \E k \in DOMAIN info[m] : FoldFirst(m, k) \/ FoldNext(m, k)
    \/ FoldEnd(m)
    \/ Send(m)

Next == \E m \in Mergers : Step(m)

\* Merge threads run until they return.
Spec == Init /\ [][Next]_vars /\ \A m \in Mergers : WF_vars(Step(m))
-----------------------------------------------------------------------------
(* Properties                                                              *)

Phases == {"convert", "conflicts", "fold", "send", "sent"}
Nodes == DOMAIN graph.nf
Packets == [null : BOOLEAN, val : [Fields -> Nodes \cup {AsSent}]]
Partials == [home : graph.leaves \cup {Own}, own : Packets, fields : SUBSET Fields]

\* The types of the merge's locals and of the shared packets.
TypeOK ==
    /\ graph \in Graphs
    /\ dropped \subseteq Nodes
    /\ leafBuf \in [graph.leaves -> Packets]
    /\ phase \in [Mergers -> Phases]
    /\ DOMAIN info = Mergers
    /\ \A m \in Mergers :
          /\ DOMAIN info[m] \subseteq Nodes \cup {NoParent}
          /\ \A k \in DOMAIN info[m] : info[m][k] \in Partials
    /\ acc \in [Mergers -> SUBSET Partials]
    /\ result \in [Mergers -> SUBSET Packets]
    /\ next \in [Mergers -> 1 .. Len(graph.conflicts) + 1]
    /\ changed \in [Mergers -> BOOLEAN]

DroppedLeaf(l) == Range(graph.path[l]) \cap dropped # {}

(***************************************************************************)
(* The merged packet is null exactly if some leaf's copy was dropped: no   *)
(* firewall's verdict is lost in the merging, and none is made up by a     *)
(* merge writing into the packets of another.                              *)
(***************************************************************************)
NullDominates ==
    \A m \in Mergers : \A r \in result[m] :
        r.null <=> \E l \in graph.leaves : DroppedLeaf(l)

(***************************************************************************)
(* "Pointer to a packet with all changes merged" (merge_packet's comment): *)
(* a field that some node wrote is not sent as it came in.                 *)
(***************************************************************************)
AllChangesMerged ==
    \A m \in Mergers : \A r \in result[m] :
        ~r.null => \A f \in Fields :
            (\E l \in graph.leaves : Arrived(graph, l, f) # AsSent) => r.val[f] # AsSent

(***************************************************************************)
(* Graphs and lists for which no change can get lost: a conflict's parent  *)
(* is the key of no packet that may still be there, as it is no leaf and   *)
(* two conflicts under one parent share a packet; and a field is changed   *)
(* on the way to every leaf, or by leaves alone (written_fields starts     *)
(* with what the leaf's own NF writes) and by no conflict's parent.        *)
(***************************************************************************)
Everywhere(g, f) == \A l \in g.leaves : Arrived(g, l, f) # AsSent

Recorded(g, f) ==
    /\ \A l \in g.leaves : Arrived(g, l, f) # AsSent => f \in Writes(g, l)
    /\ \A c \in Range(g.conflicts) : c.parent \in DOMAIN g.nf => f \notin Writes(g, c.parent)

Members(c) == {c.major, c.minor}

\* No key is inserted twice, or before it is used up: insert always inserts.
OncePerKey(g) ==
    /\ \A c \in Range(g.conflicts) : c.parent \notin g.leaves \cup Members(c)
    /\ \A c, e \in Range(g.conflicts) :
          c.parent = e.parent => Members(c) \cap Members(e) # {}

Mergeable(g) ==
    /\ OncePerKey(g)
    /\ \A f \in Fields : Everywhere(g, f) \/ Recorded(g, f)

\* The list ranks a above b.
Outranks(g, a, b) ==
    /\ \E c \in Range(g.conflicts) : c.major = a /\ c.minor = b
    /\ ~\E c \in Range(g.conflicts) : c.major = b /\ c.minor = a

(***************************************************************************)
(* "the packet with precedence": where the list ranks one of two writers   *)
(* of a field above the other, the lower one's write is not what is sent,  *)
(* however many resolutions lie between the two.                           *)
(***************************************************************************)
MajorWins ==
    \A m \in Mergers : \A r \in result[m] :
        ~r.null => \A f \in Fields, a \in Nodes, b \in Nodes :
            Outranks(graph, a, b) /\ f \in Writes(graph, a) => r.val[f] # b

(***************************************************************************)
(* Lists that settle each of their ranks.  A packet is sure to come to be  *)
(* under a key if the key is a leaf's or is the parent of two keys of that *)
(* kind that nothing is merged with but each other.                        *)
(***************************************************************************)
Keys(g) == DOMAIN g.nf \cup {NoParent}

Inseparable(g, c) ==
    \A e \in Range(g.conflicts) :
        Members(e) \cap Members(c) # {} => Members(e) = Members(c) /\ e.parent = c.parent

Complete(g, S) ==
    /\ g.leaves \subseteq S
    /\ \A c \in Range(g.conflicts) : Inseparable(g, c) /\ Members(c) \subseteq S => c.parent \in S

Sure(g) == {k \in Keys(g) : \A S \in SUBSET Keys(g) : Complete(g, S) => k \in S}

\* C has every key whose packet may have b's write of f in it while a and b
\* are not merged, and no other of these keys has a function that writes f.
Carries(g, a, b, f, C) ==
    /\ \A l \in g.leaves : Arrived(g, l, f) = b => l \in C
    /\ \A c \in Range(g.conflicts) :
          Members(c) \cap C # {} => c.parent \in C \/ Members(c) = {a, b}
    /\ \A k \in C \ {b, NoParent} : f \notin Writes(g, k)

\* a is sure to be there, and neither is merged before the two are.
Decided(g, a, b) ==
    /\ a \in Sure(g)
    /\ \A c \in Range(g.conflicts) : Members(c) \cap {a, b} # {} => Members(c) = {a, b}

Settled(g, a, b, f, C) == Carries(g, a, b, f, C) /\ (C = {} \/ Decided(g, a, b))

Settles(g) ==
    /\ OncePerKey(g)
    /\ \A a, b \in DOMAIN g.nf, f \in Fields :
          Outranks(g, a, b) /\ f \in Writes(g, a) =>
             \E C \in SUBSET Keys(g) : Settled(g, a, b, f, C)

(***************************************************************************)
(* Two merges of one id send the same packet, although each writes into    *)
(* the leaves' packets the other is reading.                               *)
(***************************************************************************)
Agreement ==
    \A m1, m2 \in Mergers : \A r1 \in result[m1], r2 \in result[m2] : r1 = r2

(***************************************************************************)
(* Aliased buffers: no merge ever overwrites, in a leaf's packet, a field  *)
(* that the leaf's own NF wrote.                                           *)
(***************************************************************************)
LeafWritesKept ==
    \A l \in graph.leaves : \A f \in Writes(graph, l) : leafBuf[l].val[f] = l

(***************************************************************************)
(* Every merge comes to an end: the passes over the conflict list stop,    *)
(* whatever the list, because each resolution leaves fewer packets.        *)
(***************************************************************************)
Termination == \A m \in Mergers : <>(phase[m] = "sent")

\* What merge m has yet to do: what counts most is where it is, then how many
\* packets it has, whether this pass has changed anything, and what is left of
\* the pass.
Stage == [convert |-> 4, conflicts |-> 3, fold |-> 2, send |-> 1, sent |-> 0]

Left(m) == <<Stage[phase[m]], Cardinality(DOMAIN info[m]),
             IF changed[m] THEN 1 ELSE 0, Len(graph.conflicts) + 1 - next[m]>>

Less(s, t) == \E i \in DOMAIN t : s[i] < t[i] /\ \A j \in 1 .. i - 1 : s[j] = t[j]

(***************************************************************************)
(* Why merges come to an end: every step leaves one of them less to do and *)
(* the others as much, even if a parent's key is used again, because a     *)
(* resolution takes two packets away for one, and a pass that changed      *)
(* nothing is not repeated.                                                *)
(***************************************************************************)
Advances ==
    [][\E m \in Mergers : /\ Less(Left(m)', Left(m))
                          /\ \A n \in Mergers \ {m} : Left(n)' = Left(n)]_vars
=============================================================================
