---------------------------- MODULE MCBlockIndex ----------------------------
(***************************************************************************)
(* Instances of BlockIndex: two branches from the genesis block.           *)
(***************************************************************************)
EXTENDS BlockIndex, TLC

CONSTANTS g, a1, a2, b1, b2, b3, c2

MCParent == [b \in Block |-> CASE b = g -> Null
                               [] b \in {a1, b1} -> g
                               [] b \in {a2, c2} -> a1
                               [] b = b2 -> b1
                               [] b = b3 -> b2]

\* Of two blocks of one height the one of the a branch, or of the b branch,
\* has the lower address. After a restart all sequence numbers are 0 and the
\* order decides; without one it hardly matters, and one order will do.
AddrOrder(k) == [b \in Block |-> 4 * Height[b] + CASE b \in {a1, a2} -> k
                                                   [] b = c2 -> 2
                                                   [] OTHER -> 0]
OneAddrOrder == {AddrOrder(1)}
BothAddrOrders == {AddrOrder(-1), AddrOrder(1)}

=============================================================================
