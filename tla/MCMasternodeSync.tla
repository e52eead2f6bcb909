-------------------------- MODULE MCMasternodeSync --------------------------
(***************************************************************************)
(* Instances of MasternodeSync: masternode 1 is this node; peer g stays, f *)
(* is behind, i is ignored and o is outdated.  All were asked everything   *)
(* in the run before.                                                      *)
(***************************************************************************)
EXTENDS MasternodeSync

CONSTANTS g, f, i, o

MCVote == {[mn |-> 1, height |-> 4, payee |-> "x"]}
MCPeerHeight == g :> 5 @@ f :> 3 @@ i :> 4 @@ o :> 4
MCSavedFlags == {{"spork", "list", "payment"}}
=============================================================================
