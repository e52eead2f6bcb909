-------------------------- MODULE MCBlockDownload --------------------------
(***************************************************************************)
(* Instances of BlockDownload.                                             *)
(***************************************************************************)
EXTENDS BlockDownload, TLC

CONSTANTS p1, p2, g, b1, b2, b3

MCPeer == {p1, p2}
MCBlock == {g, b1, b2, b3}
MCParent == g :> Null @@ b1 :> g @@ b2 :> b1 @@ b3 :> b2
MCAnnounces == p1 :> {b2} @@ p2 :> {b2, b3}
=============================================================================
