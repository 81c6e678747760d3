------------------------------ MODULE MCDeploy ------------------------------
(* Deployments for TLC: inputs/input_complex.json's nodes on two machines. *)
EXTENDS Deploy, TLC

MCNeighbors == 0 :> {} @@ 1 :> {0, 2} @@ 2 :> {3, 4} @@ 3 :> {} @@ 4 :> {}
MCMayListen == Machines
=============================================================================
