----------------------------- MODULE UtxoLayers -----------------------------
(***************************************************************************)
(* What the stack of coin views promises its users, with no caches: three  *)
(* complete copies of the coin set and of the block it belongs to.         *)
(* `view` is the scratch copy a block is applied to, `tip` the state of    *)
(* the active chain, `disk` what is stored.  A scratch copy is published   *)
(* whole or discarded whole, and the tip is persisted whole.               *)
(***************************************************************************)

CONSTANTS Outpoint, CoinOrSpent, Block, Null

VARIABLES view, tip, disk   \* [coins |-> function, best |-> block or Null]

vars == <<view, tip, disk>>

Layer == [coins : [Outpoint -> CoinOrSpent], best : Block \cup {Null}]

Init ==
    /\ disk \in Layer
    /\ tip = disk
    /\ view = disk

\* A coin is added, spent or restored in the scratch copy.
Write(o, c) ==
    /\ view' = [view EXCEPT !.coins[o] = c]
    /\ UNCHANGED <<tip, disk>>

\* The scratch copy is declared to be the state of block b.
SetBest(b) ==
    /\ view' = [view EXCEPT !.best = b]
    /\ UNCHANGED <<tip, disk>>

Publish ==
    /\ tip' = view
    /\ UNCHANGED <<view, disk>>

Discard ==
    /\ view' = tip
    /\ UNCHANGED <<tip, disk>>

Persist ==
    /\ view = tip
    /\ disk' = tip
    /\ UNCHANGED <<view, tip>>

Next ==
    \/ \E o \in Outpoint, c \in CoinOrSpent : Write(o, c)
    \/ \E b \in Block : SetBest(b)
    \/ Publish
    \/ Discard
    \/ Persist

Spec == Init /\ [][Next]_vars

=============================================================================
