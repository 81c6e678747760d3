------------------------ MODULE MergerOperatorProofs ------------------------
(***************************************************************************)
(* Theorems about the merger's threads, for any number of leaves, packets, *)
(* copies, ids and sockets.                                                *)
(***************************************************************************)
EXTENDS MergerOperator, FiniteSetTheorems, TLAPS

(***************************************************************************)
(* The inductive invariant, true in every environment.                     *)
(***************************************************************************)

\* A leaf's thread handles a received datagram of its own leaf that has not
\* started a merge yet, and points to a map of that datagram's id.
ThreadInv ==
    /\ \A n \in Nodes :
          nodePc[n] # "receive" =>
             /\ current[n] \in received
             /\ current[n].node = n
             /\ mergePc[current[n]] = "idle"
    /\ \A n \in Nodes :
          nodePc[n] \in {"print", "check"} =>
             /\ this_pkt_map[n] \in Datagrams
             /\ Id(this_pkt_map[n]) = Id(current[n])
    /\ \A d \in Datagrams : mergePc[d] # "idle" => d \in received

\* An inner map holds, under each leaf, a received datagram of that leaf and
\* of the map's id; a map packet_map leads to is not empty.
MapInv ==
    /\ \A i \in Ids :
          packet_map[i] # NoDatagram =>
             /\ Id(packet_map[i]) = i
             /\ nodeMaps[packet_map[i]] # EmptyMap
    /\ \A r \in Datagrams, n \in Nodes :
          nodeMaps[r][n] # NoDatagram =>
             /\ nodeMaps[r][n] \in received
             /\ nodeMaps[r][n].node = n
             /\ Id(nodeMaps[r][n]) = Id(r)

\* A merge works on a non-empty map of its own id.
MergeInv ==
    \A d \in Datagrams :
       mergePc[d] = "merge" \/ HasMerged(d) =>
          /\ mergeMap[d] \in Datagrams
          /\ Id(mergeMap[d]) = Id(d)
          /\ nodeMaps[mergeMap[d]] # EmptyMap

Inv == TypeOK /\ ThreadInv /\ MapInv /\ MergeInv /\ NoLostMerge

(***************************************************************************)
(* What the at-most-once environment adds.                                 *)
(***************************************************************************)

\* The datagram a leaf's thread has yet to insert is in no map.
Fresh ==
    \A n \in Nodes, r \in Datagrams :
       nodePc[n] \in {"lock", "critical"} => nodeMaps[r][n] # current[n]

\* An id has one inner map; until that is complete packet_map leads to it.
OneMap ==
    /\ \A r, s \in Datagrams :
          nodeMaps[r] # EmptyMap /\ nodeMaps[s] # EmptyMap /\ Id(r) = Id(s) => r = s
    /\ \A r \in Datagrams :
          nodeMaps[r] # EmptyMap => packet_map[Id(r)] = r \/ Complete(nodeMaps[r])

\* A merge is started for an id whose map is complete, and combines that map.
OnlyComplete ==
    /\ \A d \in Datagrams :
          mergePc[d] # "idle" =>
             \E r \in Datagrams : Id(r) = Id(d) /\ Complete(nodeMaps[r])
    /\ \A d \in Datagrams :
          HasMerged(d) => /\ Complete(merged[d])
                          /\ merged[d] = nodeMaps[mergeMap[d]]

OnceInv == Fresh /\ OneMap /\ OnlyComplete
-----------------------------------------------------------------------------
(* Inv is inductive: one lemma per conjunct.                               *)

LEMMA IdInIds == \A d \in Datagrams : Id(d) \in Ids
BY IdAssumption DEF Id, Datagrams

\* What inserting d under its leaf does to the maps: r, the map of d's id, has
\* the leaf filled and is otherwise as it was; no other map changes.
LEMMA AddFacts ==
    ASSUME TypeOK, ThreadInv, MapInv, NEW n \in Nodes, Add(n)
    PROVE  LET d == current[n]
               r == MapFor(d)
           IN /\ d \in received /\ d \in Datagrams /\ d.node = n /\ Id(d) \in Ids
              /\ mergePc[d] = "idle"
              /\ r \in Datagrams /\ Id(r) = Id(d)
              /\ packet_map[Id(d)] # NoDatagram => r = packet_map[Id(d)]
              /\ packet_map' = [packet_map EXCEPT ![Id(d)] = r]
              /\ nodeMaps' = [nodeMaps EXCEPT ![r] = Insert(nodeMaps[r], n, d)]
              /\ Insert(nodeMaps[r], n, d) \in NodeMaps
              /\ nodeMaps'[r][n] = IF nodeMaps[r][n] = NoDatagram THEN d ELSE nodeMaps[r][n]
              /\ nodeMaps'[r][n] # NoDatagram
              /\ \A m \in Nodes : m # n => nodeMaps'[r][m] = nodeMaps[r][m]
              /\ \A s \in Datagrams : s # r => nodeMaps'[s] = nodeMaps[s]
PROOF
<1> DEFINE d == current[n]
           r == MapFor(d)
<1>1. /\ d \in received /\ d \in Datagrams /\ d.node = n
      /\ mergePc[d] = "idle"
    BY DEF Add, ThreadInv, TypeOK
<1>2. d.pkt \in Packets
    BY <1>1 DEF Datagrams
<1>3. Id(d) \in Ids
    BY <1>2, IdAssumption DEF Id
<1>4. r \in Datagrams /\ Id(r) = Id(d)
    BY <1>1, <1>3 DEF MapFor, MapInv, TypeOK, MapRefs
<1>5. packet_map[Id(d)] # NoDatagram => r = packet_map[Id(d)]
    BY DEF MapFor
<1>6. packet_map' = [packet_map EXCEPT ![Id(d)] = r]
    BY DEF Add
<1>7. nodeMaps' = [nodeMaps EXCEPT ![r] = Insert(nodeMaps[r], n, d)]
    BY DEF Add
<1>8. nodeMaps \in [Datagrams -> NodeMaps] /\ nodeMaps[r] \in NodeMaps
    BY <1>4 DEF TypeOK
<1>9. Insert(nodeMaps[r], n, d) \in NodeMaps
    BY <1>1, <1>8 DEF Insert, NodeMaps
<1>10. nodeMaps'[r] = Insert(nodeMaps[r], n, d)
    BY <1>4, <1>7, <1>8
<1>11. nodeMaps'[r][n] = IF nodeMaps[r][n] = NoDatagram THEN d ELSE nodeMaps[r][n]
    BY <1>8, <1>10 DEF Insert, NodeMaps
<1>12. nodeMaps'[r][n] # NoDatagram
    BY <1>1, <1>11, NoDatagramAssumption
<1>13. \A m \in Nodes : m # n => nodeMaps'[r][m] = nodeMaps[r][m]
    BY <1>8, <1>10 DEF Insert, NodeMaps
<1>14. \A s \in Datagrams : s # r => nodeMaps'[s] = nodeMaps[s]
    BY <1>7, <1>8
<1> QED
    BY <1>1, <1>3, <1>4, <1>5, <1>6, <1>7, <1>9, <1>11, <1>12, <1>13, <1>14

\* Every step keeps the types.
LEMMA TypeStep == Inv /\ [Next]_vars => TypeOK'
PROOF
<1> SUFFICES ASSUME Inv, [Next]_vars PROVE TypeOK'
    OBVIOUS
<1>1. ASSUME NEW n \in Nodes, NEW d \in Datagrams, Receive(n, d) PROVE TypeOK'
    BY <1>1 DEF Inv, TypeOK, NodePcs, MergePcs, MapRefs, Receive, nodeVars, mergeVars, maps
<1>2. ASSUME NEW n \in Nodes, Lock(n) PROVE TypeOK'
    BY <1>2 DEF Inv, TypeOK, NodePcs, MergePcs, MapRefs, Lock, nodeVars, mergeVars, maps
<1>3. ASSUME NEW n \in Nodes, Add(n) PROVE TypeOK'
    BY <1>3, AddFacts DEF Inv, TypeOK, NodePcs, MapRefs, Add, mergeVars
<1>4. ASSUME NEW n \in Nodes, PrintMap(n) PROVE TypeOK'
    BY <1>4 DEF Inv, TypeOK, NodePcs, MergePcs, MapRefs, PrintMap, nodeVars, mergeVars, maps
<1>5. ASSUME NEW n \in Nodes, CheckSize(n) PROVE TypeOK'
    BY <1>5 DEF Inv, TypeOK, NodePcs, MergePcs, MapRefs, CheckSize, nodeVars, mergeVars, maps
<1>6. ASSUME NEW d \in Datagrams, Lookup(d) PROVE TypeOK'
    BY <1>6, IdInIds DEF Inv, TypeOK, MergePcs, MapRefs, Lookup, nodeVars, maps
<1>7. ASSUME NEW d \in Datagrams, LookupThrows(d) PROVE TypeOK'
    BY <1>7 DEF Inv, TypeOK, NodePcs, MergePcs, MapRefs, LookupThrows, nodeVars, mergeVars, maps
<1>8. ASSUME NEW d \in Datagrams, Merge(d) PROVE TypeOK'
    <2>1. nodeMaps[mergeMap[d]] \in NodeMaps
        BY <1>8 DEF Inv, TypeOK, MergeInv, Merge
    <2> QED
        BY <1>8, <2>1 DEF Inv, TypeOK, MergePcs, Merge, nodeVars, maps
<1>9. ASSUME NEW d \in Datagrams, MergeLock(d) PROVE TypeOK'
    BY <1>9 DEF Inv, TypeOK, NodePcs, MergePcs, MapRefs, MergeLock, nodeVars, mergeVars, maps
<1>10. ASSUME NEW d \in Datagrams, Erase(d) PROVE TypeOK'
    BY <1>10 DEF Inv, TypeOK, NodePcs, MergePcs, MapRefs, Erase, nodeVars, mergeVars, maps
<1>11. ASSUME NEW d \in Datagrams, Send(d) PROVE TypeOK'
    BY <1>11, SocketAssumption DEF Inv, TypeOK, MergePcs, Send, nodeVars, maps
<1>12. ASSUME NEW d \in Datagrams, SendFails(d) PROVE TypeOK'
    BY <1>12 DEF Inv, TypeOK, NodePcs, MergePcs, MapRefs, SendFails, nodeVars, mergeVars, maps
<1>13. ASSUME NEW d \in Datagrams, MergePrint(d) PROVE TypeOK'
    BY <1>13 DEF Inv, TypeOK, NodePcs, MergePcs, MapRefs, MergePrint, nodeVars, mergeVars, maps
<1>14. ASSUME Race PROVE TypeOK'
    BY <1>14 DEF Inv, TypeOK, NodePcs, MergePcs, MapRefs, Race, nodeVars, mergeVars, maps
<1>15. ASSUME UNCHANGED vars PROVE TypeOK'
    BY <1>15 DEF Inv, TypeOK, NodePcs, MergePcs, MapRefs, vars, nodeVars, mergeVars, maps
<1> QED
    BY <1>1, <1>2, <1>3, <1>4, <1>5, <1>6, <1>7, <1>8, <1>9, <1>10, <1>11, <1>12, <1>13, <1>14, <1>15 DEF Next, NodeStep, MergeStep

\* Every step keeps ThreadInv.
LEMMA ThreadStep == Inv /\ [Next]_vars => ThreadInv'
PROOF
<1> SUFFICES ASSUME Inv, [Next]_vars PROVE ThreadInv'
    OBVIOUS
<1>1. ASSUME NEW n \in Nodes, NEW d \in Datagrams, Receive(n, d) PROVE ThreadInv'
    BY <1>1 DEF Inv, TypeOK, ThreadInv, NodePcs, MergePcs, Receive, nodeVars, mergeVars, maps
<1>2. ASSUME NEW n \in Nodes, Lock(n) PROVE ThreadInv'
    BY <1>2 DEF Inv, TypeOK, ThreadInv, NodePcs, MergePcs, Lock, nodeVars, mergeVars, maps
<1>3. ASSUME NEW n \in Nodes, Add(n) PROVE ThreadInv'
    <2>1. /\ UNCHANGED <<received, current, mergePc>>
          /\ nodePc[n] = "critical"
          /\ this_pkt_map'[n] = MapFor(current[n])
          /\ \A m \in Nodes : m # n => /\ this_pkt_map'[m] = this_pkt_map[m]
                                       /\ nodePc'[m] = nodePc[m]
        BY <1>3 DEF Inv, TypeOK, Add, mergeVars
    <2>2. /\ MapFor(current[n]) \in Datagrams
          /\ Id(MapFor(current[n])) = Id(current[n])
        BY <1>3, AddFacts DEF Inv
    <2> QED
        BY <2>1, <2>2 DEF Inv, ThreadInv, Id
<1>4. ASSUME NEW n \in Nodes, PrintMap(n) PROVE ThreadInv'
    BY <1>4 DEF Inv, TypeOK, ThreadInv, NodePcs, MergePcs, PrintMap, nodeVars, mergeVars, maps
<1>5. ASSUME NEW n \in Nodes, CheckSize(n) PROVE ThreadInv'
    BY <1>5 DEF Inv, TypeOK, ThreadInv, NodePcs, MergePcs, CheckSize, nodeVars, mergeVars, maps
<1>6. ASSUME NEW d \in Datagrams, Lookup(d) PROVE ThreadInv'
    BY <1>6 DEF Inv, TypeOK, ThreadInv, NodePcs, MergePcs, Lookup, nodeVars, mergeVars, maps
<1>7. ASSUME NEW d \in Datagrams, LookupThrows(d) PROVE ThreadInv'
    BY <1>7 DEF Inv, TypeOK, ThreadInv, NodePcs, MergePcs, LookupThrows, nodeVars, mergeVars, maps
<1>8. ASSUME NEW d \in Datagrams, Merge(d) PROVE ThreadInv'
    BY <1>8 DEF Inv, TypeOK, ThreadInv, NodePcs, MergePcs, Merge, nodeVars, mergeVars, maps
<1>9. ASSUME NEW d \in Datagrams, MergeLock(d) PROVE ThreadInv'
    BY <1>9 DEF Inv, TypeOK, ThreadInv, NodePcs, MergePcs, MergeLock, nodeVars, mergeVars, maps
<1>10. ASSUME NEW d \in Datagrams, Erase(d) PROVE ThreadInv'
    BY <1>10 DEF Inv, TypeOK, ThreadInv, NodePcs, MergePcs, Erase, nodeVars, mergeVars, maps
<1>11. ASSUME NEW d \in Datagrams, Send(d) PROVE ThreadInv'
    BY <1>11 DEF Inv, TypeOK, ThreadInv, NodePcs, MergePcs, Send, nodeVars, mergeVars, maps
<1>12. ASSUME NEW d \in Datagrams, SendFails(d) PROVE ThreadInv'
    BY <1>12 DEF Inv, TypeOK, ThreadInv, NodePcs, MergePcs, SendFails, nodeVars, mergeVars, maps
<1>13. ASSUME NEW d \in Datagrams, MergePrint(d) PROVE ThreadInv'
    BY <1>13 DEF Inv, TypeOK, ThreadInv, NodePcs, MergePcs, MergePrint, nodeVars, mergeVars, maps
<1>14. ASSUME Race PROVE ThreadInv'
    BY <1>14 DEF Inv, TypeOK, ThreadInv, NodePcs, MergePcs, Race, nodeVars, mergeVars, maps
<1>15. ASSUME UNCHANGED vars PROVE ThreadInv'
    BY <1>15 DEF Inv, TypeOK, ThreadInv, NodePcs, MergePcs, vars, nodeVars, mergeVars, maps
<1> QED
    BY <1>1, <1>2, <1>3, <1>4, <1>5, <1>6, <1>7, <1>8, <1>9, <1>10, <1>11, <1>12, <1>13, <1>14, <1>15 DEF Next, NodeStep, MergeStep

\* Every step keeps MapInv.
LEMMA MapStep == Inv /\ [Next]_vars => MapInv'
PROOF
<1> SUFFICES ASSUME Inv, [Next]_vars PROVE MapInv'
    OBVIOUS
<1>1. ASSUME NEW n \in Nodes, NEW d \in Datagrams, Receive(n, d) PROVE MapInv'
    BY <1>1 DEF Inv, MapInv, Receive, nodeVars, mergeVars, maps
<1>2. ASSUME NEW n \in Nodes, Lock(n) PROVE MapInv'
    BY <1>2 DEF Inv, MapInv, Lock, nodeVars, mergeVars, maps
<1>3. ASSUME NEW n \in Nodes, Add(n) PROVE MapInv'
    <2> DEFINE r == MapFor(current[n])
    <2>1. ASSUME NEW i \in Ids, packet_map'[i] # NoDatagram
          PROVE  Id(packet_map'[i]) = i /\ nodeMaps'[packet_map'[i]] # EmptyMap
        <3>1. CASE i = Id(current[n])
            <4>1. packet_map'[i] = r
                BY <1>3, <3>1, AddFacts DEF Inv, TypeOK
            <4> QED
                BY <1>3, <3>1, <4>1, AddFacts DEF Inv, EmptyMap
        <3>2. CASE i # Id(current[n])
            <4>1. packet_map'[i] = packet_map[i] /\ packet_map[i] # r
                BY <1>3, <2>1, <3>2, AddFacts DEF Inv, TypeOK, MapInv
            <4>2. packet_map[i] \in Datagrams
                BY <2>1, <4>1 DEF Inv, TypeOK, MapRefs
            <4> QED
                BY <1>3, <2>1, <4>1, <4>2, AddFacts DEF Inv, MapInv
        <3> QED
            BY <3>1, <3>2
    <2>2. ASSUME NEW s \in Datagrams, NEW m \in Nodes, nodeMaps'[s][m] # NoDatagram
          PROVE  /\ nodeMaps'[s][m] \in received'
                 /\ nodeMaps'[s][m].node = m
                 /\ Id(nodeMaps'[s][m]) = Id(s)
        <3>1. received' = received
            BY <1>3 DEF Add
        <3>2. CASE s = r /\ m = n
            BY <1>3, <3>1, <3>2, AddFacts DEF Inv, MapInv
        <3>3. CASE s # r \/ m # n
            <4>1. nodeMaps'[s][m] = nodeMaps[s][m]
                BY <1>3, <3>3, AddFacts DEF Inv
            <4> QED
                BY <2>2, <3>1, <4>1 DEF Inv, MapInv
        <3> QED
            BY <3>2, <3>3
    <2> QED
        BY <2>1, <2>2 DEF MapInv
<1>4. ASSUME NEW n \in Nodes, PrintMap(n) PROVE MapInv'
    BY <1>4 DEF Inv, MapInv, PrintMap, nodeVars, mergeVars, maps
<1>5. ASSUME NEW n \in Nodes, CheckSize(n) PROVE MapInv'
    BY <1>5 DEF Inv, MapInv, CheckSize, nodeVars, mergeVars, maps
<1>6. ASSUME NEW d \in Datagrams, Lookup(d) PROVE MapInv'
    BY <1>6 DEF Inv, MapInv, Lookup, nodeVars, mergeVars, maps
<1>7. ASSUME NEW d \in Datagrams, LookupThrows(d) PROVE MapInv'
    BY <1>7 DEF Inv, MapInv, LookupThrows, nodeVars, mergeVars, maps
<1>8. ASSUME NEW d \in Datagrams, Merge(d) PROVE MapInv'
    BY <1>8 DEF Inv, MapInv, Merge, nodeVars, mergeVars, maps
<1>9. ASSUME NEW d \in Datagrams, MergeLock(d) PROVE MapInv'
    BY <1>9 DEF Inv, MapInv, MergeLock, nodeVars, mergeVars, maps
<1>10. ASSUME NEW d \in Datagrams, Erase(d) PROVE MapInv'
    BY <1>10 DEF Inv, TypeOK, MapInv, Erase, nodeVars
<1>11. ASSUME NEW d \in Datagrams, Send(d) PROVE MapInv'
    BY <1>11 DEF Inv, MapInv, Send, nodeVars, mergeVars, maps
<1>12. ASSUME NEW d \in Datagrams, SendFails(d) PROVE MapInv'
    BY <1>12 DEF Inv, MapInv, SendFails, nodeVars, mergeVars, maps
<1>13. ASSUME NEW d \in Datagrams, MergePrint(d) PROVE MapInv'
    BY <1>13 DEF Inv, MapInv, MergePrint, nodeVars, mergeVars, maps
<1>14. ASSUME Race PROVE MapInv'
    BY <1>14 DEF Inv, MapInv, Race, nodeVars, mergeVars, maps
<1>15. ASSUME UNCHANGED vars PROVE MapInv'
    BY <1>15 DEF Inv, MapInv, vars, nodeVars, mergeVars, maps
<1> QED
    BY <1>1, <1>2, <1>3, <1>4, <1>5, <1>6, <1>7, <1>8, <1>9, <1>10, <1>11, <1>12, <1>13, <1>14, <1>15 DEF Next, NodeStep, MergeStep

\* Every step keeps MergeInv.
LEMMA MergeInvStep == Inv /\ [Next]_vars => MergeInv'
PROOF
<1> SUFFICES ASSUME Inv, [Next]_vars PROVE MergeInv'
    OBVIOUS
<1>1. ASSUME NEW n \in Nodes, NEW d \in Datagrams, Receive(n, d) PROVE MergeInv'
    BY <1>1 DEF Inv, MergeInv, HasMerged, TypeOK, Receive, nodeVars, mergeVars, maps
<1>2. ASSUME NEW n \in Nodes, Lock(n) PROVE MergeInv'
    BY <1>2 DEF Inv, MergeInv, HasMerged, TypeOK, Lock, nodeVars, mergeVars, maps
<1>3. ASSUME NEW n \in Nodes, Add(n) PROVE MergeInv'
    <2>1. ASSUME NEW s \in Datagrams, nodeMaps[s] # EmptyMap PROVE nodeMaps'[s] # EmptyMap
        BY <1>3, <2>1, AddFacts DEF Inv, EmptyMap
    <2>2. UNCHANGED <<mergePc, mergeMap>>
        BY <1>3 DEF Add, mergeVars
    <2> QED
        BY <2>1, <2>2 DEF Inv, MergeInv, HasMerged
<1>4. ASSUME NEW n \in Nodes, PrintMap(n) PROVE MergeInv'
    BY <1>4 DEF Inv, MergeInv, HasMerged, TypeOK, PrintMap, nodeVars, mergeVars, maps
<1>5. ASSUME NEW n \in Nodes, CheckSize(n) PROVE MergeInv'
    BY <1>5 DEF Inv, MergeInv, HasMerged, TypeOK, CheckSize, nodeVars, mergeVars, maps
<1>6. ASSUME NEW d \in Datagrams, Lookup(d) PROVE MergeInv'
    BY <1>6, IdInIds DEF Inv, TypeOK, MapRefs, MapInv, MergeInv, HasMerged, Lookup, maps
<1>7. ASSUME NEW d \in Datagrams, LookupThrows(d) PROVE MergeInv'
    BY <1>7 DEF Inv, MergeInv, HasMerged, TypeOK, LookupThrows, nodeVars, mergeVars, maps
<1>8. ASSUME NEW d \in Datagrams, Merge(d) PROVE MergeInv'
    BY <1>8 DEF Inv, MergeInv, HasMerged, TypeOK, Merge, nodeVars, mergeVars, maps
<1>9. ASSUME NEW d \in Datagrams, MergeLock(d) PROVE MergeInv'
    BY <1>9 DEF Inv, MergeInv, HasMerged, TypeOK, MergeLock, nodeVars, mergeVars, maps
<1>10. ASSUME NEW d \in Datagrams, Erase(d) PROVE MergeInv'
    BY <1>10 DEF Inv, MergeInv, HasMerged, TypeOK, Erase, nodeVars, mergeVars, maps
<1>11. ASSUME NEW d \in Datagrams, Send(d) PROVE MergeInv'
    BY <1>11 DEF Inv, MergeInv, HasMerged, TypeOK, Send, nodeVars, mergeVars, maps
<1>12. ASSUME NEW d \in Datagrams, SendFails(d) PROVE MergeInv'
    BY <1>12 DEF Inv, MergeInv, HasMerged, TypeOK, SendFails, nodeVars, mergeVars, maps
<1>13. ASSUME NEW d \in Datagrams, MergePrint(d) PROVE MergeInv'
    BY <1>13 DEF Inv, MergeInv, HasMerged, TypeOK, MergePrint, nodeVars, mergeVars, maps
<1>14. ASSUME Race PROVE MergeInv'
    BY <1>14 DEF Inv, MergeInv, HasMerged, TypeOK, Race, nodeVars, mergeVars, maps
<1>15. ASSUME UNCHANGED vars PROVE MergeInv'
    BY <1>15 DEF Inv, MergeInv, HasMerged, TypeOK, vars, nodeVars, mergeVars, maps
<1> QED
    BY <1>1, <1>2, <1>3, <1>4, <1>5, <1>6, <1>7, <1>8, <1>9, <1>10, <1>11, <1>12, <1>13, <1>14, <1>15 DEF Next, NodeStep, MergeStep

\* Every step keeps NoLostMerge.
LEMMA NoLostStep == Inv /\ [Next]_vars => NoLostMerge'
PROOF
<1> SUFFICES ASSUME Inv, [Next]_vars PROVE NoLostMerge'
    OBVIOUS
<1>1. ASSUME NEW n \in Nodes, NEW d \in Datagrams, Receive(n, d) PROVE NoLostMerge'
    BY <1>1 DEF Inv, NoLostMerge, Checker, Merger, TypeOK, Receive, nodeVars, mergeVars, maps
<1>2. ASSUME NEW n \in Nodes, Lock(n) PROVE NoLostMerge'
    BY <1>2 DEF Inv, NoLostMerge, Checker, Merger, TypeOK, Lock, nodeVars, mergeVars, maps
<1>3. ASSUME NEW n \in Nodes, Add(n) PROVE NoLostMerge'
    BY <1>3 DEF Inv, NoLostMerge, Checker, Merger, TypeOK, Add, nodeVars, mergeVars, maps
<1>4. ASSUME NEW n \in Nodes, PrintMap(n) PROVE NoLostMerge'
    BY <1>4 DEF Inv, NoLostMerge, Checker, Merger, TypeOK, PrintMap, nodeVars, mergeVars, maps
<1>5. ASSUME NEW n \in Nodes, CheckSize(n) PROVE NoLostMerge'
    <2> DEFINE r == this_pkt_map[n]
    <2>1. /\ r \in Datagrams /\ Id(r) = Id(current[n])
          /\ current[n] \in Datagrams
        BY <1>5 DEF Inv, TypeOK, ThreadInv, CheckSize
    <2>2. UNCHANGED <<packet_map, nodeMaps, this_pkt_map>>
        BY <1>5 DEF CheckSize, maps
    <2> SUFFICES ASSUME NEW i \in Ids, packet_map[i] # NoDatagram,
                        Complete(nodeMaps[packet_map[i]])
                 PROVE  Checker(packet_map[i])' \/ Merger(i)'
        BY <2>2 DEF NoLostMerge, Complete
    <2>3. CASE Merger(i)
        <3>1. PICK d \in Datagrams : Id(d) = i /\ mergePc[d] \in {"lookup", "merge", "lock", "critical"}
            BY <2>3 DEF Merger
        <3>2. mergePc'[d] \in {"lookup", "merge", "lock", "critical"}
            BY <1>5, <3>1 DEF Inv, TypeOK, CheckSize
        <3> QED
            BY <3>1, <3>2 DEF Merger
    <2>4. CASE Checker(packet_map[i]) /\ packet_map[i] # r
        BY <1>5, <2>2, <2>4 DEF Inv, TypeOK, CheckSize, Checker
    <2>5. CASE packet_map[i] = r
        <3>1. Id(current[n]) = i
            BY <2>1, <2>5 DEF Inv, MapInv
        <3>2. mergePc'[current[n]] = "lookup"
            BY <1>5, <2>1, <2>5 DEF Inv, TypeOK, CheckSize
        <3> QED
            BY <2>1, <3>1, <3>2 DEF Merger
    <2> QED
        BY <2>3, <2>4, <2>5 DEF Inv, NoLostMerge
<1>6. ASSUME NEW d \in Datagrams, Lookup(d) PROVE NoLostMerge'
    BY <1>6 DEF Inv, NoLostMerge, Checker, Merger, TypeOK, Lookup, nodeVars, mergeVars, maps
<1>7. ASSUME NEW d \in Datagrams, LookupThrows(d) PROVE NoLostMerge'
    BY <1>7 DEF Inv, NoLostMerge, Checker, Merger, TypeOK, LookupThrows, nodeVars, mergeVars, maps
<1>8. ASSUME NEW d \in Datagrams, Merge(d) PROVE NoLostMerge'
    BY <1>8 DEF Inv, NoLostMerge, Checker, Merger, TypeOK, Merge, nodeVars, mergeVars, maps
<1>9. ASSUME NEW d \in Datagrams, MergeLock(d) PROVE NoLostMerge'
    BY <1>9 DEF Inv, NoLostMerge, Checker, Merger, TypeOK, MergeLock, nodeVars, mergeVars, maps
<1>10. ASSUME NEW d \in Datagrams, Erase(d) PROVE NoLostMerge'
    BY <1>10 DEF Inv, NoLostMerge, Checker, Merger, TypeOK, Erase, nodeVars, mergeVars, maps
<1>11. ASSUME NEW d \in Datagrams, Send(d) PROVE NoLostMerge'
    BY <1>11 DEF Inv, NoLostMerge, Checker, Merger, TypeOK, Send, nodeVars, mergeVars, maps
<1>12. ASSUME NEW d \in Datagrams, SendFails(d) PROVE NoLostMerge'
    BY <1>12 DEF Inv, NoLostMerge, Checker, Merger, TypeOK, SendFails, nodeVars, mergeVars, maps
<1>13. ASSUME NEW d \in Datagrams, MergePrint(d) PROVE NoLostMerge'
    BY <1>13 DEF Inv, NoLostMerge, Checker, Merger, TypeOK, MergePrint, nodeVars, mergeVars, maps
<1>14. ASSUME Race PROVE NoLostMerge'
    BY <1>14 DEF Inv, NoLostMerge, Checker, Merger, TypeOK, Race, nodeVars, mergeVars, maps
<1>15. ASSUME UNCHANGED vars PROVE NoLostMerge'
    BY <1>15 DEF Inv, NoLostMerge, Checker, Merger, TypeOK, vars, nodeVars, mergeVars, maps
<1> QED
    BY <1>1, <1>2, <1>3, <1>4, <1>5, <1>6, <1>7, <1>8, <1>9, <1>10, <1>11, <1>12, <1>13, <1>14, <1>15 DEF Next, NodeStep, MergeStep

LEMMA InitInv == Init => Inv
PROOF
<1> SUFFICES ASSUME Init PROVE Inv
    OBVIOUS
<1>1. Cardinality(Nodes) \in Nat
    BY NodesAssumption, FS_CardinalityType
<1>2. TypeOK
    BY <1>1, SocketAssumption DEF Init, TypeOK, NodePcs, MergePcs, MapRefs, NodeMaps, EmptyMap
<1>3. ThreadInv /\ MapInv /\ MergeInv /\ NoLostMerge
    BY DEF Init, ThreadInv, MapInv, MergeInv, HasMerged, NoLostMerge, EmptyMap
<1> QED
    BY <1>2, <1>3 DEF Inv

LEMMA InvStep == Inv /\ [Next]_vars => Inv'
BY TypeStep, ThreadStep, MapStep, MergeInvStep, NoLostStep DEF Inv

THEOREM Invariance == Spec => []Inv
PROOF
<1>1. Init => Inv
    BY InitInv
<1>2. Inv /\ [Next]_vars => Inv'
    BY InvStep
<1> QED
    BY <1>1, <1>2, PTL DEF Spec

\* The merger's state is well typed: in particular the process never has more
\* descriptors open than it may.
THEOREM TypeCorrect == Spec => []TypeOK
PROOF
<1>1. Inv => TypeOK
    BY DEF Inv
<1> QED
    BY <1>1, Invariance, PTL

\* Whatever the network does, an id whose last packet has come in is on some
\* thread's way to be merged: reading the size after the unlock
\* (run_node_thread) loses no wake-up.
THEOREM NeverForgotten == Spec => []NoLostMerge
PROOF
<1>1. Inv => NoLostMerge
    BY DEF Inv
<1> QED
    BY <1>1, Invariance, PTL

\* Whatever the network does, merge_packet is given at least one packet and
\* no packet of another id.
THEOREM MergeInputCorrect == Spec => []MergeInput
PROOF
<1>1. Inv => MergeInput
    BY DEF Inv, MergeInput, MergeInv, MapInv
<1> QED
    BY <1>1, Invariance, PTL

-----------------------------------------------------------------------------
(* The at-most-once environment: OnceInv is inductive relative to Inv.     *)

\* With one copy of each datagram and one packet per id, a datagram is known
\* by its leaf and its id.
LEMMA SameDatagram ==
    ASSUME AtMostOnce, NEW d \in Datagrams, NEW e \in Datagrams,
           d.node = e.node, Id(d) = Id(e)
    PROVE  d = e
PROOF
<1>1. d.pkt = e.pkt /\ d.copy = e.copy
    BY DEF AtMostOnce, Id, Datagrams
<1> QED
    BY <1>1 DEF Datagrams

\* The map of an id one of whose datagrams has yet to be inserted is not
\* complete.
LEMMA NotComplete ==
    ASSUME AtMostOnce, Inv, Fresh, NEW n \in Nodes, nodePc[n] \in {"lock", "critical"},
           NEW r \in Datagrams, Id(r) = Id(current[n])
    PROVE  ~Complete(nodeMaps[r])
PROOF
<1> SUFFICES ASSUME nodeMaps[r][n] # NoDatagram PROVE FALSE
    BY DEF Complete
<1>1. /\ nodeMaps[r][n] \in Datagrams
      /\ nodeMaps[r][n].node = n
      /\ Id(nodeMaps[r][n]) = Id(r)
    BY DEF Inv, TypeOK, MapInv
<1>2. current[n] \in Datagrams /\ current[n].node = n
    BY DEF Inv, TypeOK, ThreadInv
<1>3. nodeMaps[r][n] = current[n]
    BY <1>1, <1>2, SameDatagram
<1> QED
    BY <1>3 DEF Fresh

LEMMA CompleteNotEmpty ==
    ASSUME NEW map, Complete(map) PROVE map # EmptyMap
BY NodesAssumption DEF Complete, EmptyMap

\* Every step keeps Fresh.
LEMMA FreshStep ==
    ASSUME AtMostOnce, Inv, OnceInv, [Next]_vars
    PROVE  Fresh'
PROOF
<1>1. ASSUME NEW n \in Nodes, NEW d \in Datagrams, Receive(n, d) PROVE Fresh'
    <2>1. \A r \in Datagrams : nodeMaps[r][n] # d
        BY <1>1, NoDatagramAssumption DEF Inv, MapInv, Receive
    <2> QED
        BY <1>1, <2>1 DEF Inv, OnceInv, Fresh, TypeOK, Receive, maps
<1>2. ASSUME NEW n \in Nodes, Lock(n) PROVE Fresh'
    BY <1>2 DEF Inv, OnceInv, Fresh, TypeOK, Lock, nodeVars, mergeVars, maps
<1>3. ASSUME NEW n \in Nodes, Add(n) PROVE Fresh'
    <2> SUFFICES ASSUME NEW m \in Nodes, NEW s \in Datagrams, nodePc'[m] \in {"lock", "critical"}
                 PROVE  nodeMaps'[s][m] # current'[m]
        BY DEF Fresh
    <2>1. m # n /\ nodePc'[m] = nodePc[m] /\ current' = current
        BY <1>3 DEF Inv, TypeOK, Add
    <2>2. nodeMaps'[s][m] = nodeMaps[s][m]
        BY <1>3, <2>1, AddFacts DEF Inv
    <2> QED
        BY <2>1, <2>2 DEF OnceInv, Fresh
<1>4. ASSUME NEW n \in Nodes, PrintMap(n) PROVE Fresh'
    BY <1>4 DEF Inv, OnceInv, Fresh, TypeOK, PrintMap, nodeVars, mergeVars, maps
<1>5. ASSUME NEW n \in Nodes, CheckSize(n) PROVE Fresh'
    BY <1>5 DEF Inv, OnceInv, Fresh, TypeOK, CheckSize, nodeVars, mergeVars, maps
<1>6. ASSUME NEW d \in Datagrams, Lookup(d) PROVE Fresh'
    BY <1>6 DEF Inv, OnceInv, Fresh, TypeOK, Lookup, nodeVars, mergeVars, maps
<1>7. ASSUME NEW d \in Datagrams, LookupThrows(d) PROVE Fresh'
    BY <1>7 DEF Inv, OnceInv, Fresh, TypeOK, LookupThrows, nodeVars, mergeVars, maps
<1>8. ASSUME NEW d \in Datagrams, Merge(d) PROVE Fresh'
    BY <1>8 DEF Inv, OnceInv, Fresh, TypeOK, Merge, nodeVars, mergeVars, maps
<1>9. ASSUME NEW d \in Datagrams, MergeLock(d) PROVE Fresh'
    BY <1>9 DEF Inv, OnceInv, Fresh, TypeOK, MergeLock, nodeVars, mergeVars, maps
<1>10. ASSUME NEW d \in Datagrams, Erase(d) PROVE Fresh'
    BY <1>10 DEF Inv, OnceInv, Fresh, TypeOK, Erase, nodeVars, mergeVars, maps
<1>11. ASSUME NEW d \in Datagrams, Send(d) PROVE Fresh'
    BY <1>11 DEF Inv, OnceInv, Fresh, TypeOK, Send, nodeVars, mergeVars, maps
<1>12. ASSUME NEW d \in Datagrams, SendFails(d) PROVE Fresh'
    BY <1>12 DEF Inv, OnceInv, Fresh, TypeOK, SendFails, nodeVars, mergeVars, maps
<1>13. ASSUME NEW d \in Datagrams, MergePrint(d) PROVE Fresh'
    BY <1>13 DEF Inv, OnceInv, Fresh, TypeOK, MergePrint, nodeVars, mergeVars, maps
<1>14. ASSUME Race PROVE Fresh'
    BY <1>14 DEF Inv, OnceInv, Fresh, TypeOK, Race, nodeVars, mergeVars, maps
<1>15. ASSUME UNCHANGED vars PROVE Fresh'
    BY <1>15 DEF Inv, OnceInv, Fresh, TypeOK, vars, nodeVars, mergeVars, maps
<1> QED
    BY <1>1, <1>2, <1>3, <1>4, <1>5, <1>6, <1>7, <1>8, <1>9, <1>10, <1>11, <1>12, <1>13, <1>14, <1>15 DEF Next, NodeStep, MergeStep

\* Every step keeps OneMap.
LEMMA OneMapStep ==
    ASSUME AtMostOnce, Inv, OnceInv, [Next]_vars
    PROVE  OneMap'
PROOF
<1>1. ASSUME NEW n \in Nodes, NEW d \in Datagrams, Receive(n, d) PROVE OneMap'
    BY <1>1 DEF OnceInv, OneMap, Complete, Receive, nodeVars, mergeVars, maps
<1>2. ASSUME NEW n \in Nodes, Lock(n) PROVE OneMap'
    BY <1>2 DEF OnceInv, OneMap, Complete, Lock, nodeVars, mergeVars, maps
<1>3. ASSUME NEW n \in Nodes, Add(n) PROVE OneMap'
    <2> DEFINE r == MapFor(current[n])
    <2>1. r \in Datagrams /\ Id(r) = Id(current[n]) /\ current[n] \in Datagrams
        BY <1>3, AddFacts DEF Inv
    <2>2. \A s \in Datagrams : s # r => nodeMaps'[s] = nodeMaps[s]
        BY <1>3, AddFacts DEF Inv
    <2>3. packet_map'[Id(r)] = r /\ \A i \in Ids : i # Id(r) => packet_map'[i] = packet_map[i]
        BY <1>3, <2>1, AddFacts DEF Inv, TypeOK
    <2>4. \A s \in Datagrams : s # r /\ Id(s) = Id(r) => nodeMaps[s] = EmptyMap
        <3> SUFFICES ASSUME NEW s \in Datagrams, s # r, Id(s) = Id(r), nodeMaps[s] # EmptyMap
                     PROVE  FALSE
            OBVIOUS
        <3>1. ~Complete(nodeMaps[s])
            BY <1>3, <2>1, NotComplete DEF Add, OnceInv
        <3>2. packet_map[Id(current[n])] = s
            BY <2>1, <3>1 DEF OnceInv, OneMap
        <3> QED
            BY <3>2, NoDatagramAssumption DEF MapFor
    <2>5. ASSUME NEW s \in Datagrams, NEW t \in Datagrams,
                 nodeMaps'[s] # EmptyMap, nodeMaps'[t] # EmptyMap, Id(s) = Id(t)
          PROVE  s = t
        BY <2>1, <2>2, <2>4, <2>5 DEF OnceInv, OneMap
    <2>6. ASSUME NEW s \in Datagrams, nodeMaps'[s] # EmptyMap
          PROVE  packet_map'[Id(s)] = s \/ Complete(nodeMaps'[s])
        <3>1. CASE s = r
            BY <2>3, <3>1
        <3>2. CASE s # r
            BY <2>2, <2>3, <2>4, <2>6, <3>2, IdInIds DEF OnceInv, OneMap
        <3> QED
            BY <3>1, <3>2
    <2> QED
        BY <2>5, <2>6 DEF OneMap, Complete
<1>4. ASSUME NEW n \in Nodes, PrintMap(n) PROVE OneMap'
    BY <1>4 DEF OnceInv, OneMap, Complete, PrintMap, nodeVars, mergeVars, maps
<1>5. ASSUME NEW n \in Nodes, CheckSize(n) PROVE OneMap'
    BY <1>5 DEF OnceInv, OneMap, Complete, CheckSize, nodeVars, mergeVars, maps
<1>6. ASSUME NEW d \in Datagrams, Lookup(d) PROVE OneMap'
    BY <1>6 DEF OnceInv, OneMap, Complete, Lookup, nodeVars, mergeVars, maps
<1>7. ASSUME NEW d \in Datagrams, LookupThrows(d) PROVE OneMap'
    BY <1>7 DEF OnceInv, OneMap, Complete, LookupThrows, nodeVars, mergeVars, maps
<1>8. ASSUME NEW d \in Datagrams, Merge(d) PROVE OneMap'
    BY <1>8 DEF OnceInv, OneMap, Complete, Merge, nodeVars, mergeVars, maps
<1>9. ASSUME NEW d \in Datagrams, MergeLock(d) PROVE OneMap'
    BY <1>9 DEF OnceInv, OneMap, Complete, MergeLock, nodeVars, mergeVars, maps
<1>10. ASSUME NEW d \in Datagrams, Erase(d) PROVE OneMap'
    <2>1. UNCHANGED nodeMaps /\ \A i \in Ids : i # Id(d) => packet_map'[i] = packet_map[i]
        BY <1>10 DEF Inv, TypeOK, Erase
    <2>2. PICK s \in Datagrams : Id(s) = Id(d) /\ Complete(nodeMaps[s])
        BY <1>10 DEF OnceInv, OnlyComplete, Erase
    <2>3. ASSUME NEW t \in Datagrams, nodeMaps[t] # EmptyMap, Id(t) = Id(d)
          PROVE  Complete(nodeMaps[t])
        BY <2>2, <2>3, CompleteNotEmpty DEF OnceInv, OneMap
    <2> QED
        BY <2>1, <2>3, IdInIds DEF OnceInv, OneMap, Complete
<1>11. ASSUME NEW d \in Datagrams, Send(d) PROVE OneMap'
    BY <1>11 DEF OnceInv, OneMap, Complete, Send, nodeVars, mergeVars, maps
<1>12. ASSUME NEW d \in Datagrams, SendFails(d) PROVE OneMap'
    BY <1>12 DEF OnceInv, OneMap, Complete, SendFails, nodeVars, mergeVars, maps
<1>13. ASSUME NEW d \in Datagrams, MergePrint(d) PROVE OneMap'
    BY <1>13 DEF OnceInv, OneMap, Complete, MergePrint, nodeVars, mergeVars, maps
<1>14. ASSUME Race PROVE OneMap'
    BY <1>14 DEF OnceInv, OneMap, Complete, Race, nodeVars, mergeVars, maps
<1>15. ASSUME UNCHANGED vars PROVE OneMap'
    BY <1>15 DEF OnceInv, OneMap, Complete, vars, nodeVars, mergeVars, maps
<1> QED
    BY <1>1, <1>2, <1>3, <1>4, <1>5, <1>6, <1>7, <1>8, <1>9, <1>10, <1>11, <1>12, <1>13, <1>14, <1>15 DEF Next, NodeStep, MergeStep

\* Every step keeps OnlyComplete.
LEMMA OnlyCompleteStep ==
    ASSUME AtMostOnce, Inv, OnceInv, [Next]_vars
    PROVE  OnlyComplete'
PROOF
<1>1. ASSUME NEW n \in Nodes, NEW d \in Datagrams, Receive(n, d) PROVE OnlyComplete'
    BY <1>1 DEF OnceInv, OnlyComplete, HasMerged, Complete, Receive, nodeVars, mergeVars, maps
<1>2. ASSUME NEW n \in Nodes, Lock(n) PROVE OnlyComplete'
    BY <1>2 DEF OnceInv, OnlyComplete, HasMerged, Complete, Lock, nodeVars, mergeVars, maps
<1>3. ASSUME NEW n \in Nodes, Add(n) PROVE OnlyComplete'
    <2>1. UNCHANGED <<mergePc, mergeMap, merged>>
        BY <1>3 DEF Add, mergeVars
    <2>2. ASSUME NEW s \in Datagrams, Complete(nodeMaps[s])
          PROVE  nodeMaps'[s] = nodeMaps[s]
        <3>1. Id(s) # Id(current[n])
            BY <1>3, <2>2, NotComplete DEF Add, OnceInv
        <3> QED
            BY <1>3, <3>1, AddFacts DEF Inv
    <2>3. ASSUME NEW d \in Datagrams, HasMerged(d)
          PROVE  nodeMaps'[mergeMap[d]] = nodeMaps[mergeMap[d]]
        BY <2>2, <2>3 DEF Inv, MergeInv, OnceInv, OnlyComplete
    <2> QED
        BY <2>1, <2>2, <2>3 DEF OnceInv, OnlyComplete, HasMerged, Complete
<1>4. ASSUME NEW n \in Nodes, PrintMap(n) PROVE OnlyComplete'
    BY <1>4 DEF OnceInv, OnlyComplete, HasMerged, Complete, PrintMap, nodeVars, mergeVars, maps
<1>5. ASSUME NEW n \in Nodes, CheckSize(n) PROVE OnlyComplete'
    <2>1. UNCHANGED <<nodeMaps, mergeMap, merged>>
        BY <1>5 DEF CheckSize, maps
    <2>2. this_pkt_map[n] \in Datagrams /\ Id(this_pkt_map[n]) = Id(current[n])
        BY <1>5 DEF Inv, ThreadInv, CheckSize
    <2>3. ASSUME NEW d \in Datagrams, mergePc'[d] # mergePc[d]
          PROVE  d = current[n] /\ mergePc'[d] = "lookup" /\ Complete(nodeMaps[this_pkt_map[n]])
        BY <1>5, <2>3 DEF Inv, TypeOK, CheckSize
    <2> QED
        BY <2>1, <2>2, <2>3 DEF OnceInv, OnlyComplete, HasMerged, Complete
<1>6. ASSUME NEW d \in Datagrams, Lookup(d) PROVE OnlyComplete'
    BY <1>6 DEF OnceInv, OnlyComplete, HasMerged, Complete, Lookup, nodeVars, mergeVars, maps
<1>7. ASSUME NEW d \in Datagrams, LookupThrows(d) PROVE OnlyComplete'
    BY <1>7 DEF OnceInv, OnlyComplete, HasMerged, Complete, LookupThrows, nodeVars, mergeVars, maps
<1>8. ASSUME NEW d \in Datagrams, Merge(d) PROVE OnlyComplete'
    <2>1. UNCHANGED <<nodeMaps, mergeMap>>
        BY <1>8 DEF Merge, maps
    <2>2. PICK s \in Datagrams : Id(s) = Id(d) /\ Complete(nodeMaps[s])
        BY <1>8 DEF OnceInv, OnlyComplete, Merge
    <2>3. mergeMap[d] \in Datagrams /\ Id(mergeMap[d]) = Id(d) /\ nodeMaps[mergeMap[d]] # EmptyMap
        BY <1>8 DEF Inv, MergeInv, Merge
    <2>4. s = mergeMap[d]
        BY <2>2, <2>3, CompleteNotEmpty DEF OnceInv, OneMap
    <2>5. merged'[d] = nodeMaps[mergeMap[d]]
        BY <1>8 DEF Inv, TypeOK, Merge
    <2>6. \A e \in Datagrams : e # d => mergePc'[e] = mergePc[e] /\ merged'[e] = merged[e]
        BY <1>8 DEF Inv, TypeOK, Merge
    <2>7. mergePc[d] = "merge"
        BY <1>8 DEF Merge
    <2> QED
        BY <2>1, <2>2, <2>4, <2>5, <2>6, <2>7 DEF OnceInv, OnlyComplete, HasMerged, Complete
<1>9. ASSUME NEW d \in Datagrams, MergeLock(d) PROVE OnlyComplete'
    BY <1>9 DEF OnceInv, OnlyComplete, HasMerged, Complete, MergeLock, nodeVars, mergeVars, maps
<1>10. ASSUME NEW d \in Datagrams, Erase(d) PROVE OnlyComplete'
    BY <1>10 DEF OnceInv, OnlyComplete, HasMerged, Complete, Erase, nodeVars, mergeVars, maps
<1>11. ASSUME NEW d \in Datagrams, Send(d) PROVE OnlyComplete'
    BY <1>11 DEF OnceInv, OnlyComplete, HasMerged, Complete, Send, nodeVars, mergeVars, maps
<1>12. ASSUME NEW d \in Datagrams, SendFails(d) PROVE OnlyComplete'
    BY <1>12 DEF OnceInv, OnlyComplete, HasMerged, Complete, SendFails, nodeVars, mergeVars, maps
<1>13. ASSUME NEW d \in Datagrams, MergePrint(d) PROVE OnlyComplete'
    BY <1>13 DEF OnceInv, OnlyComplete, HasMerged, Complete, MergePrint, nodeVars, mergeVars, maps
<1>14. ASSUME Race PROVE OnlyComplete'
    BY <1>14 DEF OnceInv, OnlyComplete, HasMerged, Complete, Race, nodeVars, mergeVars, maps
<1>15. ASSUME UNCHANGED vars PROVE OnlyComplete'
    BY <1>15 DEF OnceInv, OnlyComplete, HasMerged, Complete, vars, nodeVars, mergeVars, maps
<1> QED
    BY <1>1, <1>2, <1>3, <1>4, <1>5, <1>6, <1>7, <1>8, <1>9, <1>10, <1>11, <1>12, <1>13, <1>14, <1>15 DEF Next, NodeStep, MergeStep

THEOREM OnceInvariance == ASSUME AtMostOnce PROVE Spec => [](Inv /\ OnceInv)
PROOF
<1>1. Init => Inv /\ OnceInv
    <2> SUFFICES ASSUME Init PROVE OnceInv
        BY InitInv
    <2>1. Fresh /\ OneMap
        BY DEF Init, Fresh, OneMap
    <2>2. OnlyComplete
        BY DEF Init, OnlyComplete, HasMerged
    <2> QED
        BY <2>1, <2>2 DEF OnceInv
<1>2. Inv /\ OnceInv /\ [Next]_vars => (Inv /\ OnceInv)'
    BY InvStep, FreshStep, OneMapStep, OnlyCompleteStep DEF OnceInv
<1> QED
    BY <1>1, <1>2, PTL DEF Spec

\* The packets of a complete map: one from each leaf, all of them received
\* and, where an id names one packet, all of the map's packet.
LEMMA MergedFacts ==
    ASSUME AtMostOnce, Inv, OnceInv, NEW d \in Datagrams, HasMerged(d), NEW n \in Nodes
    PROVE  /\ merged[d][n] # NoDatagram
           /\ merged[d][n] \in received
           /\ merged[d][n].node = n
           /\ merged[d][n].pkt = d.pkt
PROOF
<1>1. /\ mergeMap[d] \in Datagrams /\ Id(mergeMap[d]) = Id(d)
      /\ merged[d] = nodeMaps[mergeMap[d]]
      /\ Complete(merged[d])
    BY DEF Inv, MergeInv, OnceInv, OnlyComplete
<1>2. merged[d][n] # NoDatagram
    BY <1>1 DEF Complete
<1>3. /\ merged[d][n] \in received
      /\ merged[d][n].node = n
      /\ Id(merged[d][n]) = Id(d)
    BY <1>1, <1>2 DEF Inv, MapInv
<1>4. merged[d][n] \in Datagrams
    BY <1>3 DEF Inv, TypeOK
<1>5. merged[d][n].pkt = d.pkt
    BY <1>3, <1>4 DEF AtMostOnce, Id, Datagrams
<1> QED
    BY <1>2, <1>3, <1>5

\* When no datagram comes twice and no id is reused, every merge combines all
\* the copies of its own packet and nothing else, although nothing but the
\* unlocked size read starts a merge and several may run for one id.
THEOREM MergesAreExact == ASSUME AtMostOnce PROVE Spec => []MergesExact
PROOF
<1>1. Inv /\ OnceInv => MergesExact
    BY MergedFacts DEF MergesExact
<1> QED
    BY <1>1, OnceInvariance, PTL

\* In the same environment packet_map.erase never drops a packet that the
\* eraser did not merge.
THEOREM ErasesAreMerged == ASSUME AtMostOnce PROVE Spec => ErasesOnlyMerged
PROOF
<1> DEFINE A == \A i \in Ids :
                  packet_map[i] # NoDatagram /\ packet_map'[i] = NoDatagram =>
                     \E d \in Datagrams : /\ mergePc[d] = "critical"
                                          /\ mergePc'[d] = "send"
                                          /\ merged[d] = nodeMaps[packet_map[i]]
<1>1. Inv /\ OnceInv /\ [Next]_vars => [A]_vars
    <2> SUFFICES ASSUME Inv, OnceInv, [Next]_vars, NEW i \in Ids,
                        packet_map[i] # NoDatagram, packet_map'[i] = NoDatagram
                 PROVE  \E d \in Datagrams : /\ mergePc[d] = "critical"
                                             /\ mergePc'[d] = "send"
                                             /\ merged[d] = nodeMaps[packet_map[i]]
        OBVIOUS
    <2>1. ASSUME NEW n \in Nodes, Add(n) PROVE FALSE
        <3>1. packet_map' = [packet_map EXCEPT ![Id(current[n])] = MapFor(current[n])]
              /\ MapFor(current[n]) \in Datagrams
            BY <2>1, AddFacts DEF Inv
        <3> QED
            BY <3>1, NoDatagramAssumption DEF Inv, TypeOK
    <2>2. ASSUME NEW d \in Datagrams, Erase(d)
          PROVE  /\ mergePc[d] = "critical"
                 /\ mergePc'[d] = "send"
                 /\ merged[d] = nodeMaps[packet_map[i]]
        <3>1. mergePc[d] = "critical" /\ mergePc'[d] = "send" /\ Id(d) = i
            BY <2>2 DEF Inv, TypeOK, Erase
        <3>2. /\ mergeMap[d] \in Datagrams /\ Id(mergeMap[d]) = i
              /\ nodeMaps[mergeMap[d]] # EmptyMap
              /\ merged[d] = nodeMaps[mergeMap[d]]
            BY <3>1 DEF Inv, MergeInv, OnceInv, OnlyComplete, HasMerged
        <3>3. /\ packet_map[i] \in Datagrams /\ Id(packet_map[i]) = i
              /\ nodeMaps[packet_map[i]] # EmptyMap
            BY DEF Inv, TypeOK, MapRefs, MapInv
        <3>4. mergeMap[d] = packet_map[i]
            BY <3>2, <3>3 DEF OnceInv, OneMap
        <3> QED
            BY <3>1, <3>2, <3>4
    <2>3. CASE UNCHANGED packet_map
        BY <2>3
    <2> QED
        BY <2>1, <2>2, <2>3
        DEF Next, NodeStep, MergeStep, Receive, Lock, PrintMap, CheckSize, Lookup, LookupThrows,
            Merge, MergeLock, Send, SendFails, MergePrint, Race, maps, vars
<1> QED
    BY <1>1, OnceInvariance, PTL DEF Spec, ErasesOnlyMerged

-----------------------------------------------------------------------------
(* The refinement of MergeService.                                         *)

LEMMA SendsUnchanged ==
    ASSUME \A d \in Datagrams : mergePc'[d] \in {"print", "done"} <=> mergePc[d] \in {"print", "done"}
    PROVE  deliveredBar' = deliveredBar
BY DEF deliveredBar, Sends

\* In the at-most-once environment the merger implements MergeService: no
\* packet is sent before all its leaves' copies came in, none more than once
\* per leaf, none after the process has died.
THEOREM RefinesService == ASSUME AtMostOnce PROVE Spec => ImplementsService
PROOF
<1>1. Init => Service!Init
    BY DEF Init, Service!Init, arrivedBar, deliveredBar, Sends
<1>2. Inv /\ OnceInv /\ [Next]_vars => [Service!Next]_(Service!vars)
    <2> SUFFICES ASSUME Inv, OnceInv, [Next]_vars
                 PROVE  [Service!Next]_(Service!vars)
        OBVIOUS
    <2>1. ASSUME NEW n \in Nodes, NEW d \in Datagrams, Receive(n, d)
          PROVE  Service!Arrive(n, d.pkt)
        <3>1. <<n, d.pkt>> \notin arrivedBar
            BY <2>1, SameDatagram DEF Inv, TypeOK, Receive, arrivedBar, Id
        <3>2. arrivedBar' = arrivedBar \cup {<<n, d.pkt>>}
            BY <2>1 DEF Receive, arrivedBar
        <3>3. deliveredBar' = deliveredBar
            BY <2>1, SendsUnchanged DEF Receive, mergeVars
        <3> QED
            BY <2>1, <3>1, <3>2, <3>3 DEF Receive, Service!Arrive
    <2>2. ASSUME NEW d \in Datagrams, Send(d)
          PROVE  Service!Deliver(d.node, d.pkt)
        <3>1. HasMerged(d)
            BY <2>2 DEF Send, HasMerged
        <3>2. \A n \in Nodes : <<n, d.pkt>> \in arrivedBar
            BY <3>1, MergedFacts DEF arrivedBar
        <3>3. d.node \in Nodes /\ d.pkt \in Packets
            BY DEF Datagrams
        <3>4. d.node \notin deliveredBar[d.pkt]
            <4>1. \A e \in Sends(d.pkt) : e.node # d.node
                BY <2>2, SameDatagram DEF Send, Sends, Id
            <4> QED
                BY <3>3, <4>1 DEF deliveredBar
        <3>5. deliveredBar' = [deliveredBar EXCEPT ![d.pkt] = @ \cup {d.node}]
            <4>1. \A e \in Datagrams : mergePc'[e] = IF e = d THEN "print" ELSE mergePc[e]
                BY <2>2 DEF Inv, TypeOK, Send
            <4>2. \A p \in Packets : Sends(p)' = IF p = d.pkt THEN Sends(p) \cup {d} ELSE Sends(p)
                BY <4>1 DEF Sends
            <4>3. \A p \in Packets : deliveredBar[p] = {e.node : e \in Sends(p)}
                BY DEF deliveredBar
            <4>4. deliveredBar' = [p \in Packets |-> {e.node : e \in Sends(p)'}]
                BY DEF deliveredBar
            <4>5. \A p \in Packets : {e.node : e \in Sends(p)'} =
                     IF p = d.pkt THEN deliveredBar[p] \cup {d.node} ELSE deliveredBar[p]
                BY <4>2, <4>3
            <4> QED
                BY <4>4, <4>5 DEF deliveredBar
        <3>6. UNCHANGED <<arrivedBar, crashed>> /\ ~crashed
            BY <2>2 DEF Send, arrivedBar
        <3> QED
            BY <3>2, <3>4, <3>5, <3>6 DEF Service!Deliver, Service!AllArrived
    <2>3. ASSUME ~crashed, crashed' = TRUE, UNCHANGED <<received, mergePc>>
          PROVE  Service!Stop
        BY <2>3 DEF Service!Stop, arrivedBar, deliveredBar, Sends
    <2>4. ASSUME UNCHANGED <<received, crashed>>,
                 \A d \in Datagrams : mergePc'[d] \in {"print", "done"} <=> mergePc[d] \in {"print", "done"}
          PROVE  UNCHANGED Service!vars
        BY <2>4, SendsUnchanged DEF Service!vars, arrivedBar
    <2>5. ASSUME NEW n \in Nodes, NodeStep(n)
          PROVE  UNCHANGED Service!vars
        <3>1. CASE CheckSize(n)
            <4>1. current[n] \in Datagrams /\ mergePc[current[n]] = "idle"
                BY <3>1 DEF Inv, TypeOK, ThreadInv, CheckSize
            <4>2. \A d \in Datagrams : mergePc'[d] = mergePc[d]
                                       \/ (mergePc[d] = "idle" /\ mergePc'[d] = "lookup")
                BY <3>1, <4>1 DEF Inv, TypeOK, CheckSize
            <4> QED
                BY <2>4, <3>1, <4>2 DEF CheckSize
        <3>2. CASE Lock(n) \/ Add(n) \/ PrintMap(n)
            BY <2>4, <3>2 DEF Lock, Add, PrintMap, mergeVars
        <3> QED
            BY <2>5, <3>1, <3>2 DEF NodeStep
    <2>6. ASSUME NEW d \in Datagrams,
                 Lookup(d) \/ Merge(d) \/ MergeLock(d) \/ Erase(d) \/ MergePrint(d)
          PROVE  UNCHANGED Service!vars
        <3>1. \A e \in Datagrams : e # d => mergePc'[e] = mergePc[e]
            BY <2>6 DEF Inv, TypeOK, Lookup, Merge, MergeLock, Erase, MergePrint
        <3>2. mergePc'[d] \in {"print", "done"} <=> mergePc[d] \in {"print", "done"}
            BY <2>6 DEF Inv, TypeOK, Lookup, Merge, MergeLock, Erase, MergePrint
        <3>3. UNCHANGED <<received, crashed>>
            BY <2>6 DEF Lookup, Merge, MergeLock, Erase, MergePrint
        <3> QED
            BY <2>4, <3>1, <3>2, <3>3
    <2>7. ASSUME NEW d \in Datagrams, LookupThrows(d) \/ SendFails(d)
          PROVE  Service!Stop
        BY <2>3, <2>7 DEF LookupThrows, SendFails, mergeVars
    <2>8. ASSUME Race PROVE Service!Stop
        BY <2>3, <2>8 DEF Race, mergeVars
    <2>9. ASSUME UNCHANGED vars PROVE UNCHANGED Service!vars
        BY <2>4, <2>9 DEF vars
    <2>10. \A d \in Datagrams : d.node \in Nodes /\ d.pkt \in Packets
        BY DEF Datagrams
    <2> QED
        BY <2>1, <2>2, <2>5, <2>6, <2>7, <2>8, <2>9, <2>10 DEF Next, MergeStep, Service!Next
<1> QED
    BY <1>1, <1>2, OnceInvariance, PTL DEF Spec, ImplementsService, Service!Spec
=============================================================================
