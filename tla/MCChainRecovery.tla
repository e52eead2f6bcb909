-------------------------- MODULE MCChainRecovery --------------------------
(***************************************************************************)
(* A tree of five blocks for ChainRecovery.  Both branches spend o1 of the *)
(* block they fork from with the same transaction, at different heights;   *)
(* the longer branch also spends the result within the same block.         *)
(*                                                                         *)
(*      g - a1 - a2                                                        *)
(*            \- b2 - b3                                                   *)
(***************************************************************************)
EXTENDS ChainRecovery, TLC

CONSTANTS g, a1, a2, b2, b3, o1, o2, o3

MCParent == (g :> Null) @@ (a1 :> g) @@ (a2 :> a1) @@ (b2 :> a1) @@ (b3 :> b2)

Reward(o) == [coinbase |-> TRUE, ins |-> {}, outs |-> {o}]
Burn      == [coinbase |-> TRUE, ins |-> {}, outs |-> {}]
Pay(i, o) == [coinbase |-> FALSE, ins |-> {i}, outs |-> {o}]

MCTxs ==
    (g  :> <<Burn>>) @@
    (a1 :> <<Reward(o1)>>) @@
    (a2 :> <<Burn, Pay(o1, o2)>>) @@
    (b2 :> <<Burn>>) @@
    (b3 :> <<Burn, Pay(o1, o2), Pay(o2, o3)>>)

=============================================================================
