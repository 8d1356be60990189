---------------------------- MODULE MCLosslessPfc ----------------------------
(* LosslessPfc for TLC: one busy link, which uses all of its headroom, and   *)
(* one that shares the output queue with it.                                 *)
EXTENDS LosslessPfc, TLC

CONSTANTS l1, l2

MCLinks == {l1, l2}
MCSupply == (l1 :> 6) @@ (l2 :> 2)
=============================================================================
