----------------------------- MODULE BlockTree ------------------------------
(***************************************************************************)
(* CBlockIndex::pprev: the blocks as a tree.  A block enters mapBlockIndex *)
(* only when its parent is there (AcceptBlockHeader looks hashPrevBlock up *)
(* first), so going from parent to parent ends at the genesis block.       *)
(***************************************************************************)
EXTENDS Integers

CONSTANTS
    Block, Genesis,
    Null,           \* no block
    Parent          \* pprev of a block, Null for Genesis

\* The last conjunct says that there is no endless path of parents: in every
\* set of blocks one is the first, and its parent is outside.
ASSUME TreeAssumption ==
    /\ Genesis \in Block /\ Null \notin Block
    /\ Parent \in [Block -> Block \cup {Null}]
    /\ \A b \in Block : Parent[b] = Null <=> b = Genesis
    /\ \A S \in SUBSET Block : S # {} => \E x \in S : Parent[x] \notin S

\* The height stands for nChainWork: every block adds the same work.
Height[b \in Block \cup {Null}] == IF b = Null THEN -1 ELSE 1 + Height[Parent[b]]

\* b and its ancestors.
ChainTo[b \in Block \cup {Null}] == IF b = Null THEN {} ELSE {b} \cup ChainTo[Parent[b]]

=============================================================================
