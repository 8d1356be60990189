---------------------------- MODULE MCSharedQueue ----------------------------
(* SharedQueue for TLC: shares, weights and sizes of three classes.          *)
EXTENDS SharedQueue, TLC

MCAlpha   == (0 :> 1) @@ (1 :> 1) @@ (2 :> 2)
MCWeights == (0 :> 2) @@ (1 :> 3) @@ (2 :> 2)
PortSymmetry == Permutations(Ports)
=============================================================================
