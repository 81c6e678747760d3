----------------------------- MODULE MCPipeline -----------------------------
(* inputs/input_complex.json's graph on two machines: node n runs on       *)
(* machine n % 2 and pktgen, which is node 1, on machine 1.  Machine 0 has *)
(* descriptors for all packets, machine 1 for all or for none.             *)
EXTENDS Pipeline, TLC

MCNeighbors == 0 :> {} @@ 2 :> {3, 4} @@ 3 :> {} @@ 4 :> {}
MCMachineOf == 0 :> 0 @@ 2 :> 0 @@ 3 :> 1 @@ 4 :> 0
MCRemote == {<<Gen, 0>>, <<Gen, 2>>, <<2, 3>>}
MCLimits == {0 :> 7 @@ 1 :> 3, 0 :> 7 @@ 1 :> 1}
=============================================================================
