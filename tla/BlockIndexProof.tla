-------------------------- MODULE BlockIndexProof ---------------------------
(***************************************************************************)
(* Proofs about BlockIndex, for any tree of blocks, any set of invalid     *)
(* blocks, any number of calls and any number of crashes.  Regular names   *)
(* the four cases the findings are about, which the theorems leave out.    *)
(***************************************************************************)
EXTENDS BlockIndex, BlockTreeProof, FiniteSetTheorems

Regular == ~Interleave /\ ~AnyTarget /\ ~WriteFailedTip /\ ~DemoteTip

-----------------------------------------------------------------------------
(* The inductive invariant.                                                *)

\* The blocks all of whose ancestors have their data in index i.
Complete(i) == {b \in Block : ChainTo[b] \subseteq i.data}

\* What holds of an index, in memory or stored: it is closed under parents, a
\* failure has a cause, and data of an invalid block came with its ancestors'.
IndexInv(i) ==
    /\ Genesis \in i.data
    /\ i.data \subseteq i.known /\ Failed(i) \subseteq i.known
    /\ \A b \in i.known : ChainTo[b] \subseteq i.known
    /\ \A b \in Failed(i) : ChainTo[b] \cap i.fv # {}
    /\ i.fv \cap i.data \subseteq Complete(i)

\* Sequence numbers stay below the counters, which grow with what they count.
CountersInv ==
    /\ \A b \in Block : -rpcs <= seq[b] /\ seq[b] < nextSeq
    /\ -rpcs - 1 <= revSeq
    /\ nextSeq <= Cardinality(linked) + 1

\* nChainTx and mapBlocksUnlinked. The last three conjuncts make it inductive:
\* a failed block that waits for an ancestor waits for a failed one, which
\* AcceptBlock refuses, and only above such a block may data be missing from
\* mapBlocksUnlinked; g_failed_blocks holds blocks that were linked.
LinkInv ==
    /\ IndexInv(idx)
    /\ linked = Complete(idx)
    /\ unlinked \subseteq idx.data \ linked
    /\ \A b \in Failed(idx) \ linked : ChainTo[b] \cap (Failed(idx) \ idx.data) # {}
    /\ \A b \in idx.data \ (linked \cup unlinked) : Parent[b] \in Failed(idx) \ linked
    /\ failed \subseteq linked \cap idx.fv

\* What is not dirty is stored, except marks that FindMostWorkChain made; the
\* stored chain is complete and not failed, and data once stored is kept.
DiskInv ==
    /\ IndexInv(disk)
    /\ disk.known \ dirty = idx.known \ dirty
    /\ disk.data \ dirty = idx.data \ dirty
    /\ disk.fv \ dirty = idx.fv \ dirty
    /\ disk.fc \ dirty \subseteq idx.fc
    /\ ChainTo[diskTip] \subseteq disk.data /\ disk.data \subseteq idx.data
    /\ ChainTo[diskTip] \cap (Failed(disk) \cup BadScripts) = {}

Clean(b) == ChainTo[b] \cap (Failed(idx) \cup BadScripts) = {}

\* Every block not marked failed that is as good as r is a candidate.
Covered(r) == {b \in linked \ Failed(idx) : ~Worse(seq, b, r)} \subseteq candidates

\* No block with good ancestors is better than the one being worked towards.
MostWorkInv ==
    /\ mostWork \in candidates
    /\ tip \in ChainTo[mostWork] /\ tip # mostWork
    /\ ChainTo[mostWork] \cap Failed(idx) = {}
    /\ \A b \in linked : ChainTo[b] \cap Failed(idx) = {} => ~Worse(seq, mostWork, b)

\* Half way through ActivateBestChain the tip may be below the tip it started
\* from: the candidates are then complete from some valid block r upwards.
ChainInv ==
    /\ tip \in linked /\ Clean(tip)
    /\ candidates \subseteq linked
    /\ \A c \in candidates : ~Worse(seq, c, tip)
    /\ ~active => mostWork = Null /\ Covered(tip)
    /\ active => \E r \in linked : Clean(r) /\ Covered(r)
    /\ mostWork # Null => MostWorkInv

IInv == TypeOK /\ CountersInv /\ LinkInv /\ DiskInv /\ ChainInv /\ ~aborted

-----------------------------------------------------------------------------
(* The order of the candidates.                                            *)

\* CBlockIndexWorkComparator is a strict total order: sequence numbers may tie,
\* addresses do not (validation.cpp:169-188).
LEMMA WorseOrder ==
    ASSUME NEW a \in AddrOrders, NEW s \in [Block -> Int]
    PROVE  /\ \A x \in Block : ~WorseAt(a, s, x, x)
           /\ \A x, y \in Block : x # y => WorseAt(a, s, x, y) \/ WorseAt(a, s, y, x)
           /\ \A x, y, z \in Block :
                 WorseAt(a, s, x, y) /\ WorseAt(a, s, y, z) => WorseAt(a, s, x, z)
<1>1. \A x \in Block : Height[x] \in Int /\ s[x] \in Int /\ a[x] \in Int
  BY HeightType, IndexAssumption
<1>2. \A x, y \in Block : a[x] = a[y] => x = y
  BY IndexAssumption
<1>3. ASSUME NEW x \in Block PROVE ~WorseAt(a, s, x, x)
  BY <1>1 DEF WorseAt
<1>4. ASSUME NEW x \in Block, NEW y \in Block, x # y
      PROVE  WorseAt(a, s, x, y) \/ WorseAt(a, s, y, x)
  <2>1. a[x] # a[y]
    BY <1>2, <1>4
  <2> QED
    BY <1>1, <2>1 DEF WorseAt
<1>5. ASSUME NEW x \in Block, NEW y \in Block, NEW z \in Block,
             WorseAt(a, s, x, y), WorseAt(a, s, y, z)
      PROVE  WorseAt(a, s, x, z)
  BY <1>1, <1>5 DEF WorseAt
<1> QED
  BY <1>3, <1>4, <1>5

\* The same of the order in the current state, and its negation is transitive.
LEMMA WorseFacts ==
    ASSUME addr \in AddrOrders, NEW s \in [Block -> Int]
    PROVE  /\ \A x \in Block : ~Worse(s, x, x)
           /\ \A x, y \in Block : x # y => Worse(s, x, y) \/ Worse(s, y, x)
           /\ \A x, y \in Block : Worse(s, x, y) => ~Worse(s, y, x)
           /\ \A x, y, z \in Block : Worse(s, x, y) /\ Worse(s, y, z) => Worse(s, x, z)
           /\ \A x, y, z \in Block : ~Worse(s, x, y) /\ ~Worse(s, y, z) => ~Worse(s, x, z)
<1>1. /\ \A x \in Block : ~Worse(s, x, x)
      /\ \A x, y \in Block : x # y => Worse(s, x, y) \/ Worse(s, y, x)
      /\ \A x, y, z \in Block : Worse(s, x, y) /\ Worse(s, y, z) => Worse(s, x, z)
  BY WorseOrder DEF Worse
<1>2. \A x, y \in Block : Worse(s, x, y) => ~Worse(s, y, x)
  BY <1>1
<1>3. ASSUME NEW x \in Block, NEW y \in Block, NEW z \in Block,
             ~Worse(s, x, y), ~Worse(s, y, z)
      PROVE  ~Worse(s, x, z)
  <2>1. CASE x = y
    BY <1>3, <2>1
  <2>2. CASE y = z
    BY <1>3, <2>2
  <2>3. CASE x # y /\ y # z
    <3>1. Worse(s, y, x) /\ Worse(s, z, y)
      BY <1>1, <1>3, <2>3
    <3>2. Worse(s, z, x)
      BY <1>1, <3>1
    <3> QED
      BY <1>2, <3>2
  <2> QED
    BY <2>1, <2>2, <2>3
<1> QED
  BY <1>1, <1>2, <1>3

\* A proper ancestor has less work.
LEMMA AncestorWorse ==
    ASSUME NEW a, NEW s, NEW y \in Block, NEW x \in ChainTo[y], x # y
    PROVE  WorseAt(a, s, x, y)
<1>1. x \in Block /\ Height[x] <= Height[y] /\ Height[x] # Height[y]
  BY ChainHeights
<1>2. Height[x] \in Int /\ Height[y] \in Int
  BY <1>1, HeightType
<1> QED
  BY <1>1, <1>2 DEF WorseAt

\* A non-empty set of blocks has a last element in this order: the one with
\* the most elements below it (setBlockIndexCandidates.rbegin()).
LEMMA BestIsLast ==
    ASSUME addr \in AddrOrders, seq \in [Block -> Int],
           NEW S, S \subseteq Block, S # {}
    PROVE  /\ Best(S) \in S
           /\ \A x \in S \ {Best(S)} : Worse(seq, x, Best(S))
<1> DEFINE Below(x) == {y \in S : Worse(seq, y, x)}
           N == {Cardinality(S) - Cardinality(Below(x)) : x \in S}
<1>1. IsFiniteSet(S) /\ Cardinality(S) \in Nat
  BY IndexAssumption, FS_Subset, FS_CardinalityType
<1>2. ASSUME NEW x \in S
      PROVE  /\ IsFiniteSet(Below(x)) /\ Cardinality(Below(x)) \in Nat
             /\ Cardinality(Below(x)) <= Cardinality(S)
  <2>1. Below(x) \in SUBSET S
    OBVIOUS
  <2> HIDE DEF Below
  <2> QED
    BY <1>1, <2>1, FS_Subset, FS_CardinalityType
<1>3. N \subseteq Nat /\ N # {}
  <2> HIDE DEF Below
  <2> QED BY <1>1, <1>2
<1>4. PICK n \in N : \A m \in N : n <= m
  <2> HIDE DEF N
  <2> QED BY Zenon, <1>3, LeastNat
<1>5. PICK x \in S : n = Cardinality(S) - Cardinality(Below(x))
  BY <1>4
<1>6. ASSUME NEW y \in S, y # x PROVE Worse(seq, y, x)
  <2>1. SUFFICES ASSUME Worse(seq, x, y) PROVE FALSE
    BY <1>6, WorseFacts
  <2>2. Below(x) \cup {x} \in SUBSET Below(y) /\ x \notin Below(x)
    BY <2>1, WorseFacts
  <2>3. n <= Cardinality(S) - Cardinality(Below(y))
    BY Zenon, <1>4
  <2> HIDE DEF Below
  <2>4. Cardinality(Below(x) \cup {x}) = Cardinality(Below(x)) + 1
    BY Zenon, <1>2, <2>2, FS_AddElement
  <2>5. Cardinality(Below(x) \cup {x}) <= Cardinality(Below(y))
    BY <1>2, <2>2, FS_Subset
  <2>6. Cardinality(Below(x)) \in Nat /\ Cardinality(Below(y)) \in Nat
    BY <1>2
  <2> QED
    BY <1>1, <1>5, <2>3, <2>4, <2>5, <2>6
<1>7. \E c \in S : \A y \in S \ {c} : Worse(seq, y, c)
  BY <1>6
<1> QED
  BY <1>7 DEF Best

\* The lowest of a set of blocks.
LEMMA LowestIs ==
    ASSUME NEW S, S \subseteq Block, S # {}
    PROVE  Lowest(S) \in S /\ \A y \in S : Height[Lowest(S)] <= Height[y]
BY LowestBlock DEF Lowest

\* The highest of a set of ancestors of one block.
LEMMA HighestIs ==
    ASSUME NEW b \in Block, NEW S, S \subseteq ChainTo[b], S # {}
    PROVE  Highest(S) \in S /\ \A y \in S : Height[y] <= Height[Highest(S)]
BY HighestBlock DEF Highest

-----------------------------------------------------------------------------
(* Indexes.                                                                *)

\* A block is complete when it has its data and its parent is complete.
LEMMA CompleteStep ==
    ASSUME NEW i, NEW b \in Block
    PROVE  /\ b \in Complete(i) <=> b \in i.data /\ (Parent[b] = Null \/ Parent[b] \in Complete(i))
           /\ b \in Complete(i) => ChainTo[b] \subseteq Complete(i)
<1>1. ChainTo[b] = {b} \cup ChainTo[Parent[b]] /\ Parent[b] \in Block \cup {Null}
      /\ ChainTo[Null] = {} /\ ChainTo[b] \subseteq Block
  BY ChainToStep
<1>2. b \in Complete(i) <=> b \in i.data /\ (Parent[b] = Null \/ Parent[b] \in Complete(i))
  BY <1>1 DEF Complete
<1>3. ASSUME b \in Complete(i), NEW a \in ChainTo[b] PROVE a \in Complete(i)
  <2>1. ChainTo[a] \subseteq ChainTo[b] /\ a \in Block
    BY <1>1, <1>3, ChainClosed
  <2> QED
    BY <1>3, <2>1 DEF Complete
<1> QED
  BY <1>2, <1>3

\* A block whose chain has no invalid block is not marked failed, nor is any
\* of its ancestors.
LEMMA FailedByCause ==
    ASSUME NEW i, IndexInv(i), NEW b \in Block, ChainTo[b] \cap i.fv = {}
    PROVE  ChainTo[b] \cap Failed(i) = {}
<1>1. ASSUME NEW a \in ChainTo[b], a \in Failed(i) PROVE FALSE
  <2>1. ChainTo[a] \subseteq ChainTo[b]
    BY ChainClosed
  <2>2. ChainTo[a] \cap i.fv # {}
    BY <1>1 DEF IndexInv
  <2> QED
    BY <2>1, <2>2
<1> QED
  BY <1>1

\* Marking blocks failed keeps what holds of an index, if the blocks marked
\* invalid have no data or all of it, and the others have an invalid ancestor.
LEMMA MarkKeepsIndex ==
    ASSUME NEW i, NEW j, NEW V, NEW C, IndexInv(i),
           j.known = i.known, j.data = i.data,
           j.fv = i.fv \cup V, j.fc = i.fc \cup C,
           V \cup C \subseteq i.known, i.known \subseteq Block,
           V \cap i.data \subseteq Complete(i),
           \A c \in C : ChainTo[c] \cap (i.fv \cup V) # {}
    PROVE  IndexInv(j) /\ Complete(j) = Complete(i)
<1>1. Complete(j) = Complete(i)
  BY DEF Complete
<1>2. Failed(j) = Failed(i) \cup V \cup C
  BY DEF Failed
<1>3. j.fv \cap j.data \subseteq Complete(j)
  BY <1>1 DEF IndexInv
<1>4. ASSUME NEW b \in Failed(j) PROVE ChainTo[b] \cap j.fv # {}
  <2>1. CASE b \in Failed(i)
    BY <2>1 DEF IndexInv
  <2>2. CASE b \in V
    <3>1. b \in ChainTo[b]
      BY <2>2, ChainToStep
    <3> QED
      BY <2>2, <3>1
  <2>3. CASE b \in C
    BY <2>3
  <2> QED
    BY <1>2, <1>4, <2>1, <2>2, <2>3
<1> QED
  BY <1>1, <1>2, <1>3, <1>4 DEF IndexInv

\* Between two blocks of one chain: what is above f has f as an ancestor.
LEMMA AboveHas ==
    ASSUME NEW b \in Block, NEW f \in ChainTo[b], NEW x \in ChainTo[b], x \notin ChainTo[f]
    PROVE  x \in Block /\ f \in Block /\ f \in ChainTo[x] /\ x # f
<1>1. x \in Block /\ f \in Block
  BY ChainToStep
<1>2. Height[x] \in Int /\ Height[f] \in Int
  BY <1>1, HeightType
<1>3. ~(Height[x] <= Height[f])
  BY ChainLinear
<1>4. f \in ChainTo[x]
  BY <1>2, <1>3, ChainLinear
<1>5. x # f
  BY <1>1, ChainToStep
<1> QED
  BY <1>1, <1>4, <1>5

-----------------------------------------------------------------------------
(* FindMostWorkChain.                                                      *)

\* The blocks it takes off the candidates lie above a failed block that is not
\* in the active chain; those that were not marked yet it marks.
LEMMA SkippedIs ==
    ASSUME candidates \subseteq Block, tip \in Block
    PROVE  /\ SkippedChildren \subseteq SkippedBlocks
           /\ SkippedBlocks \subseteq SkippedChildren \cup Failed(idx)
           /\ \A x \in SkippedBlocks :
                /\ \E c \in candidates : x \in ChainTo[c]
                /\ x \in Block
                /\ \E h \in ChainTo[x] : h \in Failed(idx) \ ChainTo[tip]
<1>1. ASSUME NEW c \in Skipped
      PROVE  /\ c \in candidates
             /\ Highest(FailedOnPath(c)) \in FailedOnPath(c)
             /\ FailedOnPath(c) \subseteq ChainTo[c]
  <2>1. c \in candidates /\ c \in Block /\ FailedOnPath(c) # {}
    BY <1>1 DEF Skipped, Usable
  <2>2. FailedOnPath(c) \subseteq ChainTo[c]
    BY DEF FailedOnPath
  <2> QED
    BY <2>1, <2>2, HighestIs
<1>2. SkippedChildren \subseteq SkippedBlocks
  BY DEF SkippedChildren, SkippedBlocks
<1>3. SkippedBlocks \subseteq SkippedChildren \cup Failed(idx)
  <2>1. ASSUME NEW c \in Skipped, NEW x \in SkippedFrom(c), x \notin SkippedChildren
        PROVE  x \in Failed(idx)
    <3>1. x = Highest(FailedOnPath(c))
      BY <2>1 DEF SkippedChildren
    <3> QED
      BY <1>1, <3>1 DEF FailedOnPath
  <2> QED
    BY <2>1 DEF SkippedBlocks
<1>4. ASSUME NEW x \in SkippedBlocks
      PROVE  /\ \E c \in candidates : x \in ChainTo[c]
             /\ x \in Block
             /\ \E h \in ChainTo[x] : h \in Failed(idx) \ ChainTo[tip]
  <2>1. PICK c \in Skipped : x \in SkippedFrom(c)
    BY DEF SkippedBlocks
  <2> DEFINE h == Highest(FailedOnPath(c))
  <2>2. x \in ChainTo[c] /\ Height[h] <= Height[x] /\ c \in Block /\ c \in candidates
    <3>1. x \in ChainTo[c] /\ Height[x] >= Height[h]
      BY <2>1 DEF SkippedFrom
    <3>2. h \in Block /\ x \in Block /\ c \in Block
      BY <1>1, <3>1, ChainToStep
    <3> QED
      BY <1>1, <3>1, <3>2, HeightType
  <2>3. h \in ChainTo[c] /\ h \in Failed(idx) \ ChainTo[tip]
    BY <1>1 DEF FailedOnPath
  <2>4. h \in ChainTo[x] /\ x \in Block
    <3> HIDE DEF h
    <3> QED BY <2>2, <2>3, ChainLinear, ChainToStep
  <2> QED
    BY <2>2, <2>3, <2>4
<1> QED
  BY <1>2, <1>3, <1>4

-----------------------------------------------------------------------------
(* The initial state, and what several actions have in common.             *)

\* The types in the form the proofs use.
LEMMA Types ==
    ASSUME TypeOK
    PROVE  /\ idx \in Status /\ disk \in Status
           /\ idx.known \subseteq Block /\ idx.data \subseteq Block /\ idx.scripts \subseteq Block
           /\ idx.fv \subseteq Block /\ idx.fc \subseteq Block /\ Failed(idx) \subseteq Block
           /\ linked \subseteq Block /\ candidates \subseteq Block /\ unlinked \subseteq Block
           /\ failed \subseteq Block /\ dirty \subseteq Block
           /\ seq \in [Block -> Int] /\ addr \in AddrOrders
           /\ tip \in Block /\ diskTip \in Block /\ mostWork \in Block \cup {Null}
           /\ active \in BOOLEAN /\ aborted \in BOOLEAN
<1>1. seq \in [Block -> Int]
  <2>1. (-MaxRpc)..Cardinality(Block) \subseteq Int
    OBVIOUS
  <2>2. seq \in [Block -> (-MaxRpc)..Cardinality(Block)]
    BY DEF TypeOK
  <2> QED
    BY <2>1, <2>2
<1> QED
  BY <1>1 DEF TypeOK, Status, Failed

\* The number of blocks.
LEMMA BlockCount ==
    /\ Cardinality(Block) \in Nat \ {0}
    /\ \A S \in SUBSET Block : /\ IsFiniteSet(S) /\ Cardinality(S) \in Nat
                               /\ Cardinality(S) <= Cardinality(Block)
    /\ \A b \in Block : Height[b] <= Cardinality(Block) - 1
<1>1. IsFiniteSet(Block) /\ Genesis \in Block
  BY IndexAssumption, TreeAssumption
<1>2. Cardinality(Block) \in Nat \ {0}
  BY <1>1, FS_CardinalityType, FS_EmptySet
<1>3. \A S \in SUBSET Block : /\ IsFiniteSet(S) /\ Cardinality(S) \in Nat
                              /\ Cardinality(S) <= Cardinality(Block)
  BY <1>1, FS_Subset, FS_CardinalityType
<1> DEFINE G == {x \in Block : Height[x] = Cardinality(ChainTo[x]) - 1}
<1>4. ASSUME NEW x \in Block, Parent[x] = Null \/ Parent[x] \in G PROVE x \in G
  <2>1. /\ ChainTo[x] = ChainTo[Parent[x]] \cup {x} /\ x \notin ChainTo[Parent[x]]
        /\ ChainTo[Null] = {} /\ ChainTo[Parent[x]] \in SUBSET Block
    BY ChainToStep, ParentBelow
  <2>2. Cardinality(ChainTo[x]) = Cardinality(ChainTo[Parent[x]]) + 1
    BY <1>3, <2>1, FS_AddElement
  <2>3. Height[Parent[x]] = Cardinality(ChainTo[Parent[x]]) - 1
    <3>1. CASE Parent[x] = Null
      <4>1. Cardinality({}) = 0
        BY FS_EmptySet
      <4> QED
        BY <2>1, <3>1, <4>1, HeightType
    <3>2. CASE Parent[x] \in G
      BY <3>2
    <3> QED
      BY <1>4, <3>1, <3>2
  <2>4. Cardinality(ChainTo[Parent[x]]) \in Nat
    BY <1>3, <2>1
  <2> QED
    BY <2>2, <2>3, <2>4, HeightStep
<1>5. Block \subseteq G
  <2> HIDE DEF G
  <2> QED BY <1>4, TreeInduction
<1>6. ASSUME NEW b \in Block PROVE Height[b] <= Cardinality(Block) - 1
  <2>1. ChainTo[b] \in SUBSET Block /\ Height[b] = Cardinality(ChainTo[b]) - 1
    BY <1>5, ChainToStep
  <2> QED
    BY <1>2, <1>3, <2>1
<1> QED
  BY <1>2, <1>3, <1>6

\* The genesis block alone, in memory and on disk (LoadGenesisBlock).
LEMMA InitInv ==
    ASSUME Init
    PROVE  IInv
<1>1. TypeOK
  <2>1. idx \in Status /\ disk \in Status
    BY TreeAssumption, IndexAssumption DEF Init, Status
  <2>2. seq \in [Block -> (-MaxRpc)..Cardinality(Block)]
    BY BlockCount, IndexAssumption DEF Init
  <2>3. {linked, candidates, unlinked, failed, dirty} \subseteq SUBSET Block
    BY TreeAssumption DEF Init
  <2>4. /\ nextSeq \in 1..(Cardinality(Block) + 1)
        /\ revSeq \in (-MaxRpc - 1)..(-1)
        /\ lastPrecious \in 0..Cardinality(Block)
        /\ rpcs \in 0..MaxRpc /\ crashes \in 0..MaxCrashes
    BY BlockCount, IndexAssumption DEF Init
  <2> QED
    BY Zenon, <2>1, <2>2, <2>3, <2>4, TreeAssumption DEF Init, TypeOK
<1>2. CountersInv
  <2>1. Cardinality(linked) = 1
    BY FS_Singleton DEF Init
  <2> QED
    BY <2>1 DEF Init, CountersInv
<1>3. idx.data = {Genesis} /\ idx.known = Headers /\ Failed(idx) = {} /\ idx.fv = {} /\ idx.fc = {}
  BY DEF Init, Failed
<1>4. Complete(idx) = {Genesis}
  BY <1>3, GenesisChain, ChainToStep, TreeAssumption DEF Complete
<1>5. ASSUME NEW b \in Headers PROVE ChainTo[b] \subseteq Headers
  <2> DEFINE G == {x \in Block : x \in Headers => ChainTo[x] \subseteq Headers}
  <2>1. ASSUME NEW x \in Block, Parent[x] = Null \/ Parent[x] \in G PROVE x \in G
    <3>1. ChainTo[x] = {x} \cup ChainTo[Parent[x]] /\ ChainTo[Null] = {}
      BY ChainToStep
    <3>2. x \in Headers => Parent[x] = Null \/ Parent[x] \in Headers
      BY TreeAssumption, IndexAssumption
    <3> QED
      BY <2>1, <3>1, <3>2
  <2>2. Block \subseteq G
    <3> HIDE DEF G
    <3> QED BY <2>1, TreeInduction
  <2> QED
    BY <2>2, IndexAssumption
<1>6. IndexInv(idx)
  BY <1>3, <1>5, IndexAssumption DEF IndexInv
<1>7. LinkInv
  BY Zenon, <1>3, <1>4, <1>6 DEF Init, LinkInv
<1>8. ChainTo[Genesis] \cap (Failed(idx) \cup BadScripts) = {}
  BY <1>3, GenesisChain, IndexAssumption
<1>9. DiskInv
  BY Zenon, <1>3, <1>6, <1>8, GenesisChain DEF Init, DiskInv
<1>10. ChainInv
  <2>1. tip = Genesis /\ linked = {Genesis} /\ candidates = {Genesis} /\ mostWork = Null /\ ~active
    BY DEF Init
  <2>2. ~Worse(seq, Genesis, Genesis)
    BY <1>1, Types, WorseFacts, TreeAssumption
  <2> QED
    BY <1>8, <2>1, <2>2 DEF ChainInv, Clean, Covered
<1> QED
  BY <1>1, <1>2, <1>7, <1>9, <1>10 DEF IInv, Init

\* Blocks V marked invalid and C marked as their descendants: the links stay as
\* they are.
LEMMA MarkKeepsLinks ==
    ASSUME TypeOK, LinkInv, NEW V, NEW C,
           idx'.known = idx.known, idx'.data = idx.data,
           idx'.fv = idx.fv \cup V, idx'.fc = idx.fc \cup C,
           linked' = linked, unlinked' = unlinked, failed' \subseteq linked \cap (idx.fv \cup V),
           V \cup C \subseteq idx.known, V \cap idx.data \subseteq linked,
           \A c \in C : ChainTo[c] \cap (idx.fv \cup V) # {},
           \A c \in (V \cup C) \ linked :
              ChainTo[c] \cap ((Failed(idx) \cup V \cup C) \ idx.data) # {}
    PROVE  LinkInv' /\ Failed(idx)' = Failed(idx) \cup V \cup C
<1>1. Failed(idx)' = Failed(idx) \cup V \cup C
  BY DEF Failed
<1>2. IndexInv(idx') /\ Complete(idx') = Complete(idx)
  BY Zenon, Types, MarkKeepsIndex DEF LinkInv
<1>3. linked' = Complete(idx')
  BY <1>2 DEF LinkInv
<1>4. unlinked' \subseteq idx'.data \ linked'
  BY DEF LinkInv
<1>5. ASSUME NEW c \in Failed(idx') \ linked'
      PROVE  ChainTo[c] \cap (Failed(idx') \ idx'.data) # {}
  <2>1. CASE c \in Failed(idx)
    <3>1. ChainTo[c] \cap (Failed(idx) \ idx.data) # {}
      BY <1>5, <2>1 DEF LinkInv
    <3> QED
      BY <1>1, <3>1
  <2>2. CASE c \in V \cup C
    BY <1>1, <1>5, <2>2
  <2> QED
    BY <1>1, <1>5, <2>1, <2>2
<1>6. \A c \in idx'.data \ (linked' \cup unlinked') : Parent[c] \in Failed(idx') \ linked'
  BY <1>1 DEF LinkInv
<1> QED
  BY <1>1, <1>2, <1>3, <1>4, <1>5, <1>6 DEF LinkInv

\* What is stored stays true while every change of an entry makes it dirty.
LEMMA DirtyKeepsDisk ==
    ASSUME DiskInv, disk' = disk, diskTip' = diskTip, dirty \subseteq dirty',
           idx'.known \ dirty' = idx.known \ dirty',
           idx'.data \ dirty' = idx.data \ dirty', idx.data \subseteq idx'.data,
           idx'.fv \ dirty' = idx.fv \ dirty',
           idx.fc \ dirty' \subseteq idx'.fc
    PROVE  DiskInv'
<1>1. /\ disk.known \ dirty = idx.known \ dirty
      /\ disk.data \ dirty = idx.data \ dirty
      /\ disk.fv \ dirty = idx.fv \ dirty
      /\ disk.fc \ dirty \subseteq idx.fc
  BY DEF DiskInv
<1>2. IndexInv(disk') /\ ChainTo[diskTip'] \subseteq disk'.data /\ disk'.data \subseteq idx'.data
      /\ ChainTo[diskTip'] \cap (Failed(disk') \cup BadScripts) = {}
  BY DEF DiskInv
<1>3. disk'.known \ dirty' = idx'.known \ dirty'
  BY <1>1
<1>4. disk'.data \ dirty' = idx'.data \ dirty'
  BY <1>1
<1>5. disk'.fv \ dirty' = idx'.fv \ dirty'
  BY <1>1
<1>6. disk'.fc \ dirty' \subseteq idx'.fc
  BY <1>1
<1> QED
  BY <1>2, <1>3, <1>4, <1>5, <1>6 DEF DiskInv

\* Marks off the active chain leave the tip and the candidates right.
LEMMA MarkKeepsChain ==
    ASSUME ChainInv, ~active,
           Failed(idx) \subseteq Failed(idx'), ChainTo[tip] \cap Failed(idx') = {},
           UNCHANGED <<linked, seq, addr, tip, candidates, active, mostWork>>
    PROVE  ChainInv'
<1>1. tip' \in linked' /\ Clean(tip)' /\ candidates' \subseteq linked' /\ mostWork' = Null /\ ~active'
  BY DEF ChainInv, Clean
<1>2. \A c \in candidates' : ~Worse(seq, c, tip)'
  BY DEF ChainInv, Worse
<1>3. Covered(tip)'
  BY DEF ChainInv, Covered, Worse
<1> QED
  BY <1>1, <1>2, <1>3 DEF ChainInv

-----------------------------------------------------------------------------
(* Headers and blocks arrive.                                              *)

\* A header is added, or the blocks between a block of g_failed_blocks and its
\* parent are marked (validation.cpp:4013-4115).
LEMMA HeaderKeeps ==
    ASSUME IInv, Regular, NEW b \in Block, AcceptBlockHeader(b)
    PROVE  IInv'
<1> DEFINE prev == Parent[b]
           bad == IF prev \in idx.scripts THEN {} ELSE {f \in failed : Descends(prev, f)}
<1>1. /\ ~active /\ ~aborted /\ b \notin idx.known /\ prev \in idx.known \ Failed(idx)
      /\ UNCHANGED <<linked, seq, nextSeq, candidates, unlinked, failed, tip,
                     rpcVars, diskVars, active, mostWork>>
  BY DEF AcceptBlockHeader, MayRun, Regular
<1>2. /\ TypeOK /\ CountersInv /\ LinkInv /\ DiskInv /\ ChainInv
      /\ UNCHANGED <<linked, seq, nextSeq, candidates, unlinked, failed, tip, revSeq, lastPrecious,
                     rpcs, disk, diskTip, addr, crashes, active, mostWork>>
  BY Zenon, <1>1 DEF IInv, rpcVars, diskVars
<1>3. CountersInv'
  BY <1>2 DEF CountersInv
<1>4. CASE /\ idx' = [idx EXCEPT !.known = @ \cup {b}]
           /\ dirty' = dirty \cup {b}
           /\ aborted' = aborted
  <2>1. /\ idx' \in Status /\ idx'.known = idx.known \cup {b} /\ idx'.data = idx.data
        /\ idx'.fv = idx.fv /\ idx'.fc = idx.fc
    BY <1>2, <1>4, Types DEF Status
  <2>2. TypeOK'
    BY <1>2, <1>4, <2>1 DEF TypeOK
  <2>3. Failed(idx') = Failed(idx) /\ Complete(idx') = Complete(idx)
    BY <2>1 DEF Failed, Complete
  <2>4. ASSUME NEW x \in idx'.known PROVE ChainTo[x] \subseteq idx'.known
    <3>1. CASE x \in idx.known
      BY Zenon, <1>2, <2>1, <3>1 DEF LinkInv, IndexInv
    <3>2. CASE x = b
      <4>1. ChainTo[prev] \subseteq idx.known /\ ChainTo[b] = {b} \cup ChainTo[prev]
        BY Zenon, <1>1, <1>2, ChainToStep DEF LinkInv, IndexInv
      <4> QED
        BY Zenon, <2>1, <3>2, <4>1
    <3> QED
      BY <2>1, <3>1, <3>2
  <2>5. IndexInv(idx')
    BY Zenon, <1>2, <2>1, <2>3, <2>4 DEF LinkInv, IndexInv
  <2>6. LinkInv'
    BY Zenon, <1>2, <2>1, <2>3, <2>5 DEF LinkInv
  <2>7. DiskInv'
    BY Zenon, <1>2, <1>4, <2>1, DirtyKeepsDisk
  <2>8. ChainInv'
    <3>1. ChainTo[tip] \cap Failed(idx') = {}
      BY Zenon, <1>2, <2>3 DEF ChainInv, Clean
    <3> QED
      BY Zenon, <1>1, <1>2, <2>3, <3>1, MarkKeepsChain
  <2> QED
    BY <1>3, <1>4, <2>2, <2>6, <2>7, <2>8 DEF IInv
<1>5. ASSUME NEW f \in bad,
             aborted' = (f \notin idx.fv),
             idx' = [idx EXCEPT !.fc = @ \cup (ChainTo[prev] \ ChainTo[f])],
             dirty' = dirty \cup (ChainTo[prev] \ ChainTo[f])
      PROVE  IInv'
  <2> DEFINE C == ChainTo[prev] \ ChainTo[f]
  <2>1. prev \in Block /\ f \in failed /\ f \in ChainTo[prev] /\ f \in linked /\ f \in idx.fv
        /\ C \subseteq Block
    <3>1. prev \in Block
      BY Zenon, <1>1, <1>2, Types
    <3>2. f \in failed /\ f \in ChainTo[prev]
      BY DEF Descends
    <3> QED
      BY Zenon, <1>2, <3>2, ChainToStep DEF LinkInv
  <2>2. /\ idx' \in Status /\ idx'.known = idx.known /\ idx'.data = idx.data
        /\ idx'.fv = idx.fv \cup {} /\ idx'.fc = idx.fc \cup C
    BY Zenon, <1>2, <1>5, <2>1, Types DEF Status
  <2>3. C \subseteq idx.known
    BY Zenon, <1>1, <1>2 DEF LinkInv, IndexInv
  <2>4. ASSUME NEW c \in C
        PROVE  /\ f \in ChainTo[c]
               /\ c \notin linked => ChainTo[c] \cap (C \ idx.data) # {}
    <3>1. c \in Block /\ f \in ChainTo[c]
      BY <2>1, AboveHas
    <3>2. ASSUME c \notin linked PROVE ChainTo[c] \cap (C \ idx.data) # {}
      <4>1. PICK z \in ChainTo[c] : z \notin idx.data
        BY Zenon, <1>2, <3>1, <3>2 DEF LinkInv, Complete
      <4>2. ChainTo[f] \subseteq idx.data
        BY Zenon, <1>2 DEF LinkInv, Complete
      <4>3. ChainTo[c] \subseteq ChainTo[prev]
        BY <2>1, ChainClosed
      <4> QED
        BY Zenon, <4>1, <4>2, <4>3
    <3> QED
      BY <3>1, <3>2
  <2> HIDE DEF C
  <2>5. TypeOK'
    <3>1. dirty' \subseteq Block /\ aborted' \in BOOLEAN
      BY Zenon, <1>2, <1>5, <2>1, Types DEF C
    <3> QED
      BY <1>2, <2>2, <3>1 DEF TypeOK
  <2>6. LinkInv' /\ Failed(idx)' = Failed(idx) \cup C
    <3>1. failed' \subseteq linked \cap (idx.fv \cup {})
      BY Zenon, <1>2 DEF LinkInv
    <3>2. \A c \in C : ChainTo[c] \cap (idx.fv \cup {}) # {}
      BY Zenon, <2>1, <2>4
    <3>3. \A c \in ({} \cup C) \ linked :
             ChainTo[c] \cap ((Failed(idx) \cup {} \cup C) \ idx.data) # {}
      BY <2>4
    <3>4. {} \cup C \subseteq idx.known /\ {} \cap idx.data \subseteq linked
      BY <2>3
    <3>5. LinkInv' /\ Failed(idx)' = Failed(idx) \cup {} \cup C
      BY Zenon, <1>2, <2>2, <3>1, <3>2, <3>3, <3>4, MarkKeepsLinks
    <3> QED
      BY <3>5
  <2>7. DiskInv'
    <3>1. dirty \subseteq dirty'
      BY <1>5
    <3> QED
      BY Zenon, <1>2, <2>2, <3>1, DirtyKeepsDisk
  <2>8. ChainInv'
    <3>1. ChainTo[tip] \cap Failed(idx) = {} /\ tip \in Block
      BY Zenon, <1>2, Types DEF ChainInv, Clean
    <3>2. ASSUME NEW x \in ChainTo[tip] \cap C PROVE FALSE
      <4>1. f \in ChainTo[x] /\ ChainTo[x] \subseteq ChainTo[tip]
        BY Zenon, <2>4, <3>1, ChainClosed
      <4>2. f \in Failed(idx)
        BY <2>1 DEF Failed
      <4> QED
        BY <3>1, <4>1, <4>2
    <3> QED
      BY Zenon, <1>1, <1>2, <2>6, <3>1, <3>2, MarkKeepsChain
  <2> QED
    BY Zenon, <1>3, <1>5, <2>1, <2>5, <2>6, <2>7, <2>8 DEF IInv
<1> QED
  BY Zenon, <1>4, <1>5 DEF AcceptBlockHeader

\* What all cases of AcceptBlock have in common.
LEMMA AcceptBlockFrame ==
    ASSUME IInv, Regular, NEW b \in Block, AcceptBlock(b)
    PROVE  /\ TypeOK /\ CountersInv /\ LinkInv /\ DiskInv /\ ChainInv /\ ~active /\ ~aborted
           /\ b \in idx.known /\ b \notin idx.data /\ b \notin Failed(idx)
           /\ dirty' = dirty \cup {b}
           /\ UNCHANGED <<failed, tip, revSeq, lastPrecious, rpcs, disk, diskTip, addr, crashes,
                          active, mostWork, aborted>>
           /\ b \notin linked /\ b \notin ChainTo[tip]
           /\ Parent[b] \in Block /\ ChainTo[b] = {b} \cup ChainTo[Parent[b]]
<1>1. /\ TypeOK /\ CountersInv /\ LinkInv /\ DiskInv /\ ChainInv /\ ~active /\ ~aborted
      /\ b \in idx.known /\ b \notin idx.data /\ b \notin Failed(idx)
      /\ dirty' = dirty \cup {b}
      /\ UNCHANGED <<failed, tip, revSeq, lastPrecious, rpcs, disk, diskTip, addr, crashes,
                     active, mostWork, aborted>>
  BY DEF AcceptBlock, MayRun, Regular, IInv, rpcVars, diskVars
<1>2. b \notin linked /\ b \notin ChainTo[tip]
  BY <1>1, ChainToStep DEF LinkInv, ChainInv, Complete
<1>3. b # Genesis
  BY <1>1 DEF LinkInv, IndexInv
<1>4. Parent[b] \in Block
  BY <1>3, TreeAssumption
<1> QED
  BY <1>1, <1>2, <1>4, ChainToStep

\* A block that fails CheckBlock or ContextualCheckBlock is marked.
LEMMA BadBlockKeeps ==
    ASSUME IInv, Regular, NEW b \in Block, AcceptBlock(b), b \in BadBlock
    PROVE  IInv'
<1>1. /\ TypeOK /\ CountersInv /\ LinkInv /\ DiskInv /\ ChainInv /\ ~active /\ ~aborted
      /\ b \in idx.known /\ b \notin idx.data /\ b \notin Failed(idx)
      /\ dirty' = dirty \cup {b}
      /\ UNCHANGED <<failed, tip, revSeq, lastPrecious, rpcs, disk, diskTip, addr, crashes,
                     active, mostWork, aborted>>
      /\ b \notin linked /\ b \notin ChainTo[tip]
  BY Zenon, AcceptBlockFrame
<1>2. idx' = [idx EXCEPT !.fv = @ \cup {b}] /\ UNCHANGED <<linked, seq, nextSeq, candidates, unlinked>>
  BY DEF AcceptBlock
<1>3. /\ idx' \in Status /\ idx'.known = idx.known /\ idx'.data = idx.data
      /\ idx'.fv = idx.fv \cup {b} /\ idx'.fc = idx.fc \cup {}
  BY <1>1, <1>2, Types DEF Status
<1>4. TypeOK'
  BY <1>1, <1>2, <1>3 DEF TypeOK
<1>5. CountersInv'
  BY <1>1, <1>2 DEF CountersInv
<1>6. LinkInv' /\ Failed(idx)' = Failed(idx) \cup {b} \cup {}
  <2>1. failed' \subseteq linked \cap (idx.fv \cup {b})
    BY <1>1 DEF LinkInv
  <2>2. {b} \cup {} \subseteq idx.known /\ {b} \cap idx.data \subseteq linked
    BY <1>1
  <2>3. \A c \in {} : ChainTo[c] \cap (idx.fv \cup {b}) # {}
    OBVIOUS
  <2>4. \A c \in ({b} \cup {}) \ linked :
           ChainTo[c] \cap ((Failed(idx) \cup {b} \cup {}) \ idx.data) # {}
    BY <1>1, ChainToStep
  <2> QED
    BY Zenon, <1>1, <1>2, <1>3, <2>1, <2>2, <2>3, <2>4, MarkKeepsLinks
<1>7. DiskInv'
  BY <1>1, <1>3, DirtyKeepsDisk
<1>8. ChainInv'
  <2>1. ChainTo[tip] \cap Failed(idx') = {}
    BY <1>1, <1>6 DEF ChainInv, Clean
  <2> QED
    BY Zenon, <1>1, <1>2, <1>6, <2>1, MarkKeepsChain
<1> QED
  BY Zenon, <1>1, <1>4, <1>5, <1>6, <1>7, <1>8 DEF IInv

\* A block stored before its parent is linked: nothing is linked by it.
LEMMA UnlinkedKeeps ==
    ASSUME IInv, Regular, NEW b \in Block, AcceptBlock(b), b \notin BadBlock, Unlinked(b)
    PROVE  IInv'
<1>1. /\ TypeOK /\ CountersInv /\ LinkInv /\ DiskInv /\ ChainInv /\ ~active /\ ~aborted
      /\ b \in idx.known /\ b \notin idx.data /\ b \notin Failed(idx)
      /\ dirty' = dirty \cup {b}
      /\ UNCHANGED <<failed, tip, revSeq, lastPrecious, rpcs, disk, diskTip, addr, crashes,
                     active, mostWork, aborted>>
      /\ b \notin linked /\ Parent[b] \in Block /\ ChainTo[b] = {b} \cup ChainTo[Parent[b]]
  BY AcceptBlockFrame
<1>2. /\ idx' = [idx EXCEPT !.data = @ \cup {b}]
      /\ Parent[b] \notin linked
      /\ unlinked' = IF Parent[b] \in Failed(idx) THEN unlinked ELSE unlinked \cup {b}
      /\ UNCHANGED <<linked, seq, nextSeq, candidates>>
  BY DEF AcceptBlock, Unlinked
<1>3. /\ idx' \in Status /\ idx'.known = idx.known /\ idx'.data = idx.data \cup {b}
      /\ idx'.fv = idx.fv /\ idx'.fc = idx.fc
  BY <1>1, <1>2, Types DEF Status
<1>4. TypeOK'
  <2>1. unlinked' \subseteq Block
    BY <1>1, <1>2, Types
  <2> QED
    BY <1>1, <1>2, <1>3, <2>1 DEF TypeOK
<1>5. CountersInv'
  BY <1>1, <1>2 DEF CountersInv
<1>6. Failed(idx') = Failed(idx)
  BY <1>3 DEF Failed
<1>7. Complete(idx') = linked
  <2>1. linked \subseteq Complete(idx')
    BY <1>1, <1>3 DEF LinkInv, Complete
  <2>2. ASSUME NEW x \in Complete(idx'), x \notin linked PROVE FALSE
    <3>1. x \in Block /\ ChainTo[x] \subseteq idx.data \cup {b} /\ b \in ChainTo[x]
      BY <1>1, <1>3, <2>2 DEF LinkInv, Complete
    <3>2. ChainTo[b] \subseteq idx.data \cup {b} /\ b \notin ChainTo[Parent[b]]
      BY <3>1, ChainClosed, ParentBelow
    <3>3. Parent[b] \in Complete(idx)
      BY <1>1, <3>2 DEF Complete
    <3> QED
      BY <1>1, <1>2, <3>3 DEF LinkInv
  <2> QED
    BY <2>1, <2>2
<1>8. LinkInv'
  <2>1. IndexInv(idx')
    BY Zenon, <1>1, <1>3, <1>6, <1>7 DEF LinkInv, IndexInv, Failed
  <2>2. unlinked' \subseteq idx'.data \ linked'
    BY <1>1, <1>2, <1>3 DEF LinkInv
  <2>3. ASSUME NEW c \in Failed(idx') \ linked'
        PROVE  ChainTo[c] \cap (Failed(idx') \ idx'.data) # {}
    <3>1. ChainTo[c] \cap (Failed(idx) \ idx.data) # {}
      BY <1>1, <1>2, <1>6, <2>3 DEF LinkInv
    <3> QED
      BY Zenon, <1>1, <1>3, <1>6, <3>1
  <2>4. \A c \in idx'.data \ (linked' \cup unlinked') : Parent[c] \in Failed(idx') \ linked'
    BY <1>1, <1>2, <1>3, <1>6 DEF LinkInv
  <2>5. failed' \subseteq linked' \cap idx'.fv
    BY <1>1, <1>2, <1>3 DEF LinkInv
  <2> QED
    BY Zenon, <1>2, <1>7, <2>1, <2>2, <2>3, <2>4, <2>5 DEF LinkInv
<1>9. DiskInv'
  BY <1>1, <1>3, DirtyKeepsDisk
<1>10. ChainInv'
  <2>1. ChainTo[tip] \cap Failed(idx') = {}
    BY <1>1, <1>6 DEF ChainInv, Clean
  <2> QED
    BY <1>1, <1>2, <1>6, <2>1, MarkKeepsChain
<1> QED
  BY Zenon, <1>1, <1>4, <1>5, <1>8, <1>9, <1>10 DEF IInv

\* The bounds of TypeOK on the sequence numbers follow from CountersInv.
LEMMA CounterTypes ==
    ASSUME NEW s \in [Block -> Int], NEW n \in Nat \ {0}, NEW r \in 0..MaxRpc, NEW L \in SUBSET Block,
           \A b \in Block : -r <= s[b] /\ s[b] < n,
           n <= Cardinality(L) + 1
    PROVE  /\ s \in [Block -> (-MaxRpc)..Cardinality(Block)]
           /\ n \in 1..(Cardinality(Block) + 1)
<1>1. /\ Cardinality(L) \in Nat /\ Cardinality(Block) \in Nat
      /\ Cardinality(L) <= Cardinality(Block) /\ MaxRpc \in Nat
  BY BlockCount, IndexAssumption
<1>2. \A b \in Block : s[b] \in (-MaxRpc)..Cardinality(Block)
  <2> SUFFICES ASSUME NEW b \in Block PROVE s[b] \in (-MaxRpc)..Cardinality(Block)
    BY Zenon
  <2>1. s[b] \in Int /\ -r <= s[b] /\ s[b] < n
    OBVIOUS
  <2> QED
    BY <1>1, <2>1
<1>3. n \in 1..(Cardinality(Block) + 1)
  BY <1>1
<1> QED
  BY <1>2, <1>3

\* The blocks that AcceptBlock links are those that its data completes
\* (ReceivedBlockTransactions, validation.cpp:3551-3597).
LEMMA JoiningIs ==
    ASSUME TypeOK, LinkInv, NEW b \in Block, b \notin idx.data, b \notin Failed(idx),
           Parent[b] \in linked, NEW j, j.data = idx.data \cup {b}
    PROVE  /\ Complete(j) = linked \cup Joining(b)
           /\ Joining(b) \cap linked = {} /\ Joining(b) \subseteq Block /\ b \in Joining(b)
<1>1. linked \subseteq Complete(j)
  BY DEF LinkInv, Complete
<1>2. b \in Complete(j)
  BY <1>1, CompleteStep
<1>3. ASSUME NEW x \in Joining(b) PROVE x \in Complete(j)
  <2>1. CASE x = b
    BY <1>2, <2>1
  <2>2. CASE x # b
    <3>1. x \in unlinked /\ ChainTo[x] \ ChainTo[b] \subseteq unlinked
      BY <1>3, <2>2 DEF Joining
    <3>2. x \in Block /\ unlinked \subseteq idx.data /\ ChainTo[b] \subseteq j.data
      BY <1>2, <3>1, Types DEF LinkInv, Complete
    <3> QED
      BY <3>1, <3>2 DEF Complete
  <2> QED
    BY <2>1, <2>2
<1>4. ASSUME NEW x \in Complete(j), x \notin linked PROVE x \in Joining(b)
  <2>1. x \in Block /\ ChainTo[x] \subseteq idx.data \cup {b} /\ b \in ChainTo[x]
    BY <1>4 DEF LinkInv, Complete
  <2>2. ASSUME NEW y \in ChainTo[x] \ ChainTo[b], y \notin unlinked PROVE FALSE
    <3>1. y \in Block /\ b \in ChainTo[y] /\ y # b /\ y \in idx.data
      BY <2>1, <2>2, AboveHas
    <3>2. y \notin linked
      BY <3>1 DEF LinkInv, Complete
    <3>3. Parent[y] \in Failed(idx) \ linked
      BY <2>2, <3>1, <3>2 DEF LinkInv
    <3>4. PICK z \in ChainTo[Parent[y]] : z \in Failed(idx) \ idx.data
      BY <3>3 DEF LinkInv
    <3>5. ChainTo[Parent[y]] \subseteq ChainTo[x]
      BY <2>1, <2>2, <3>1, ChainToStep, ChainClosed
    <3> QED
      BY <2>1, <3>4, <3>5
  <2>3. CASE x = b
    BY <2>3 DEF Joining
  <2>4. CASE x # b
    <3>1. x \notin ChainTo[b]
      <4> SUFFICES ASSUME x \in ChainTo[b] PROVE FALSE
        OBVIOUS
      <4>1. Height[x] <= Height[b] /\ Height[b] <= Height[x] /\ Height[x] \in Int /\ Height[b] \in Int
        BY <2>1, ChainHeights, HeightType
      <4> QED
        BY <2>1, <2>4, <4>1, ChainHeights
    <3>2. x \in unlinked
      BY <2>1, <2>2, <3>1, ChainToStep
    <3> QED
      BY <2>1, <2>2, <3>2 DEF Joining, Descends
  <2> QED
    BY <2>3, <2>4
<1>5. Joining(b) \cap linked = {} /\ Joining(b) \subseteq Block /\ b \in Joining(b)
  BY ChainToStep, Types DEF Joining, LinkInv, Complete
<1> QED
  BY <1>1, <1>3, <1>4, <1>5

\* A block stored after its parent is linked: it and those that waited for it
\* get the next sequence numbers and join the candidates.
LEMMA LinkedKeeps ==
    ASSUME IInv, Regular, NEW b \in Block, AcceptBlock(b), b \notin BadBlock, Linked(b)
    PROVE  IInv'
<1> DEFINE joined == Joining(b)
<1>1. /\ TypeOK /\ CountersInv /\ LinkInv /\ DiskInv /\ ChainInv /\ ~active /\ ~aborted
      /\ b \in idx.known /\ b \notin idx.data /\ b \notin Failed(idx)
      /\ dirty' = dirty \cup {b}
      /\ UNCHANGED <<failed, tip, revSeq, lastPrecious, rpcs, disk, diskTip, addr, crashes,
                     active, mostWork, aborted>>
  BY Zenon, AcceptBlockFrame
<1>2. PICK order \in [joined -> 1..Cardinality(joined)] :
        /\ linked' = linked \cup joined
        /\ seq' = [x \in Block |-> IF x \in joined THEN nextSeq - 1 + order[x] ELSE seq[x]]
        /\ nextSeq' = nextSeq + Cardinality(joined)
        /\ candidates' = candidates \cup {x \in joined : ~Worse(seq', x, tip)}
        /\ unlinked' = unlinked \ joined
  BY DEF Linked
<1>3. idx' = [idx EXCEPT !.data = @ \cup {b}] /\ Parent[b] \in linked
  BY Zenon DEF AcceptBlock, Linked
<1>4. /\ idx' \in Status /\ idx'.known = idx.known /\ idx'.data = idx.data \cup {b}
      /\ idx'.fv = idx.fv /\ idx'.fc = idx.fc
  BY Zenon, <1>1, <1>3, Types DEF Status
<1>5. Failed(idx') = Failed(idx)
  BY <1>4 DEF Failed
<1>6. /\ Complete(idx') = linked \cup joined
      /\ joined \cap linked = {} /\ joined \subseteq Block /\ b \in joined
  BY Zenon, <1>1, <1>3, <1>4, JoiningIs
<1> HIDE DEF joined
<1>7. linked' \subseteq Block /\ candidates' \subseteq Block /\ unlinked' \subseteq Block
  BY Zenon, <1>1, <1>2, <1>6, Types
<1>8. /\ Cardinality(joined) \in Nat /\ Cardinality(linked) \in Nat
      /\ Cardinality(linked') = Cardinality(linked) + Cardinality(joined)
  <2>1. IsFiniteSet(joined) /\ IsFiniteSet(linked) /\ Cardinality(joined) \in Nat /\ Cardinality(linked) \in Nat
    BY Zenon, <1>1, <1>6, Types, BlockCount
  <2>2. Cardinality(linked \cup joined) =
          Cardinality(linked) + Cardinality(joined) - Cardinality(linked \cap joined)
    BY <2>1, FS_Union
  <2>3. Cardinality(linked \cap joined) = 0
    BY Zenon, <1>6, FS_EmptySet
  <2> QED
    BY <1>2, <2>1, <2>2, <2>3
<1>9. /\ nextSeq \in Nat \ {0} /\ rpcs \in 0..MaxRpc /\ seq \in [Block -> Int]
      /\ \A x \in Block : -rpcs <= seq[x] /\ seq[x] < nextSeq
      /\ -rpcs - 1 <= revSeq
      /\ nextSeq <= Cardinality(linked) + 1
  BY <1>1 DEF TypeOK, CountersInv
<1>10. /\ nextSeq' \in Nat \ {0} /\ nextSeq' <= Cardinality(linked') + 1
       /\ nextSeq' >= nextSeq
  BY <1>2, <1>8, <1>9
<1>11. ASSUME NEW x \in Block
       PROVE  seq'[x] \in Int /\ -rpcs <= seq'[x] /\ seq'[x] < nextSeq'
  <2>1. CASE x \in joined
    <3>1. order[x] \in 1..Cardinality(joined) /\ seq'[x] = nextSeq - 1 + order[x]
      BY Zenon, <1>2, <2>1
    <3> QED
      BY <1>2, <1>8, <1>9
  <2>2. CASE x \notin joined
    <3>1. seq'[x] = seq[x] /\ seq[x] \in Int
      BY Zenon, <1>2, <1>9, <2>2
    <3>2. -rpcs <= seq[x] /\ seq[x] < nextSeq
      BY Zenon, <1>9
    <3> QED
      BY <1>9, <1>10, <3>1
  <2> QED
    BY Zenon, <2>1, <2>2
<1>12. seq' \in [Block -> Int]
  BY <1>2, <1>11
<1>13. CountersInv'
  BY <1>1, <1>10, <1>11 DEF CountersInv
<1>14. /\ seq' \in [Block -> (-MaxRpc)..Cardinality(Block)]
       /\ nextSeq' \in 1..(Cardinality(Block) + 1)
  BY <1>7, <1>9, <1>10, <1>11, <1>12, CounterTypes
<1>15. TypeOK'
  BY <1>1, <1>4, <1>7, <1>14 DEF TypeOK
<1>16. LinkInv'
  <2>1. IndexInv(idx')
    BY <1>1, <1>4, <1>6 DEF LinkInv, IndexInv, Failed
  <2>2. unlinked' \subseteq idx'.data \ linked'
    BY Zenon, <1>1, <1>2, <1>4 DEF LinkInv
  <2>3. ASSUME NEW c \in Failed(idx') \ linked'
        PROVE  ChainTo[c] \cap (Failed(idx') \ idx'.data) # {}
    <3>1. ChainTo[c] \cap (Failed(idx) \ idx.data) # {}
      BY Zenon, <1>1, <1>2, <1>5 DEF LinkInv
    <3> QED
      BY Zenon, <1>1, <1>4, <1>5, <3>1
  <2>4. ASSUME NEW c \in idx'.data \ (linked' \cup unlinked')
        PROVE  Parent[c] \in Failed(idx') \ linked'
    <3>1. c \in Block /\ c \in idx.data \ (linked \cup unlinked)
      BY Zenon, <1>1, <1>2, <1>4, <1>6, Types
    <3>2. Parent[c] \in Failed(idx) \ linked
      BY Zenon, <1>1, <3>1 DEF LinkInv
    <3>3. c \notin Complete(idx')
      BY Zenon, <1>2, <1>6
    <3>4. Parent[c] \notin Complete(idx')
      BY Zenon, <3>1, <3>3, CompleteStep
    <3> QED
      BY Zenon, <1>2, <1>5, <1>6, <3>2, <3>4
  <2>5. failed' \subseteq linked' \cap idx'.fv
    BY Zenon, <1>1, <1>4 DEF LinkInv
  <2> QED
    BY Zenon, <1>2, <1>6, <2>1, <2>2, <2>3, <2>4, <2>5 DEF LinkInv
<1>17. DiskInv'
  BY Zenon, <1>1, <1>4, DirtyKeepsDisk
<1>18. ChainInv'
  <2>1. \A x \in linked : seq'[x] = seq[x]
    BY Zenon, <1>1, <1>2, <1>6, Types
  <2>2. \A x \in linked : Worse(seq', x, tip) <=> Worse(seq, x, tip)
    BY Zenon, <1>1, <2>1 DEF Worse, WorseAt, ChainInv
  <2>3. \A c \in candidates' : ~Worse(seq', c, tip)
    BY Zenon, <1>1, <1>2, <2>2 DEF ChainInv
  <2>4. {x \in linked' \ Failed(idx') : ~Worse(seq', x, tip)} \subseteq candidates'
    BY Zenon, <1>1, <1>2, <1>5, <2>2 DEF ChainInv, Covered
  <2>5. (\A x, y : Worse(seq, x, y)' <=> Worse(seq', x, y)) /\ Clean(tip)' /\ mostWork' = Null /\ ~active'
    BY Zenon, <1>1, <1>5 DEF Worse, Clean, ChainInv
  <2>6. Covered(tip)' /\ (\A c \in candidates' : ~Worse(seq, c, tip)')
    BY Zenon, <1>1, <2>3, <2>4, <2>5 DEF Covered
  <2>7. tip' \in linked' /\ candidates' \subseteq linked'
    BY Zenon, <1>1, <1>2 DEF ChainInv
  <2> QED
    BY Zenon, <2>5, <2>6, <2>7 DEF ChainInv
<1> QED
  BY Zenon, <1>1, <1>13, <1>15, <1>16, <1>17, <1>18 DEF IInv

\* AcceptBlock, whatever the block turns out to be (validation.cpp:4158-4243).
LEMMA BlockKeeps ==
    ASSUME IInv, Regular, NEW b \in Block, AcceptBlock(b)
    PROVE  IInv'
<1>1. b \in BadBlock \/ (b \notin BadBlock /\ (Unlinked(b) \/ Linked(b)))
  BY DEF AcceptBlock
<1> QED
  BY <1>1, BadBlockKeeps, UnlinkedKeeps, LinkedKeeps

-----------------------------------------------------------------------------
(* The RPCs.                                                               *)

\* invalidateblock cuts the chain below b and refills the candidates.
LEMMA InvalidateKeeps ==
    ASSUME IInv, Regular, NEW b \in Block, InvalidateBlock(b)
    PROVE  IInv'
<1> DEFINE above == IF b \in ChainTo[tip] THEN ChainTo[tip] \ ChainTo[b] ELSE {}
<1>1. /\ TypeOK /\ CountersInv /\ LinkInv /\ DiskInv /\ ChainInv /\ ~active /\ ~aborted
      /\ rpcs < MaxRpc /\ b \in idx.known /\ b # Genesis /\ b \in linked
      /\ tip' = TipBelow(b)
      /\ idx' = [idx EXCEPT !.fv = @ \cup {b}, !.fc = @ \cup above]
      /\ dirty' = dirty \cup above \cup {b}
      /\ failed' = failed \cup {b}
      /\ candidates' = (candidates \ (above \cup {b})) \cup Refill(idx', tip')
      /\ rpcs' = rpcs + 1
      /\ UNCHANGED <<linked, seq, nextSeq, unlinked, revSeq, lastPrecious, disk, diskTip, addr,
                     crashes, active, mostWork, aborted>>
  BY DEF InvalidateBlock, MayRun, Regular, IInv, diskVars
<1>2. tip \in linked /\ ChainTo[tip] \subseteq linked /\ linked \subseteq idx.data
  BY <1>1, ChainToStep, CompleteStep, Types DEF ChainInv, LinkInv, Complete
<1>3. /\ above \subseteq ChainTo[tip]
      /\ \A c \in above : b \in ChainTo[c]
  BY <1>1, AboveHas, Types
<1>4. /\ tip' \in linked /\ ChainTo[tip'] \subseteq ChainTo[tip] /\ tip' \in ChainTo[tip]
      /\ ChainTo[tip'] \cap (above \cup {b}) = {}
  <2>1. CASE b \in ChainTo[tip]
    <3>1. tip' = Parent[b] /\ Parent[b] \in Block
      BY <1>1, <2>1, TreeAssumption DEF TipBelow
    <3>2. ChainTo[b] = {b} \cup ChainTo[Parent[b]] /\ b \notin ChainTo[Parent[b]]
          /\ Parent[b] \in ChainTo[Parent[b]]
      BY <3>1, ChainToStep, ParentBelow
    <3>3. ChainTo[b] \subseteq ChainTo[tip]
      BY <1>1, <2>1, ChainClosed, Types
    <3> QED
      BY <1>2, <2>1, <3>1, <3>2, <3>3
  <2>2. CASE b \notin ChainTo[tip]
    BY <1>1, <1>2, <2>2, ChainToStep, Types DEF TipBelow
  <2> QED
    BY <2>1, <2>2
<1> HIDE DEF above
<1>5. above \subseteq Block /\ tip' \in Block
  BY <1>1, <1>2, <1>3, <1>4, Types
<1>6. /\ idx' \in Status /\ idx'.known = idx.known /\ idx'.data = idx.data
      /\ idx'.fv = idx.fv \cup {b} /\ idx'.fc = idx.fc \cup above
  BY Zenon, <1>1, <1>5, Types DEF Status
<1>7. LinkInv' /\ Failed(idx)' = Failed(idx) \cup {b} \cup above
  <2>1. failed' \subseteq linked \cap (idx.fv \cup {b})
    BY <1>1 DEF LinkInv
  <2>2. {b} \cup above \subseteq idx.known /\ {b} \cap idx.data \subseteq linked
    BY <1>1, <1>2, <1>3 DEF LinkInv, IndexInv
  <2>3. \A c \in above : ChainTo[c] \cap (idx.fv \cup {b}) # {}
    BY <1>3
  <2>4. \A c \in ({b} \cup above) \ linked :
           ChainTo[c] \cap ((Failed(idx) \cup {b} \cup above) \ idx.data) # {}
    BY <1>1, <1>2, <1>3
  <2> QED
    BY Zenon, <1>1, <1>6, <2>1, <2>2, <2>3, <2>4, MarkKeepsLinks
<1>8. DiskInv'
  BY <1>1, <1>6, DirtyKeepsDisk
<1>9. CountersInv'
  BY <1>1 DEF CountersInv, TypeOK
<1>10. Refill(idx', tip') = {x \in linked \ Failed(idx') : ~Worse(seq, x, tip')}
  BY <1>2, <1>6 DEF Refill, Pruned, ValidLinked
<1>11. TypeOK'
  <2>1. candidates' \subseteq Block /\ failed' \subseteq Block /\ dirty' \subseteq Block
    BY <1>1, <1>5, <1>10, Types
  <2>2. rpcs' \in 0..MaxRpc
    BY <1>1, IndexAssumption DEF TypeOK
  <2> QED
    BY <1>1, <1>5, <1>6, <2>1, <2>2 DEF TypeOK
<1>12. ChainInv'
  <2>1. \A c \in candidates' : c \in linked /\ ~Worse(seq, c, tip')
    <3>1. ASSUME NEW c \in candidates, Worse(seq, c, tip') PROVE FALSE
      <4>1. c \in Block /\ tip \in Block /\ ~Worse(seq, c, tip)
        BY <1>1, Types DEF ChainInv
      <4>2. tip' # tip => Worse(seq, tip', tip)
        BY <1>4, <4>1, AncestorWorse DEF Worse
      <4> QED
        BY <1>1, <1>5, <3>1, <4>1, <4>2, Types, WorseFacts
    <3> QED
      BY <1>1, <1>10, <3>1 DEF ChainInv
  <2>2. {x \in linked \ Failed(idx') : ~Worse(seq, x, tip')} \subseteq candidates'
    BY <1>1, <1>10
  <2>3. (\A x, y : Worse(seq, x, y)' <=> Worse(seq, x, y)) /\ mostWork' = Null /\ ~active'
    BY <1>1 DEF Worse, ChainInv
  <2>4. Covered(tip)' /\ (\A c \in candidates' : ~Worse(seq, c, tip)')
    BY <1>1, <2>1, <2>2, <2>3 DEF Covered, Worse
  <2>5. Clean(tip)'
    BY <1>1, <1>4, <1>7 DEF ChainInv, Clean
  <2> QED
    BY <1>1, <1>4, <2>1, <2>3, <2>4, <2>5 DEF ChainInv
<1> QED
  BY <1>1, <1>7, <1>8, <1>9, <1>11, <1>12 DEF IInv

\* reconsiderblock clears b and its descendants; those that are no worse than
\* the tip become candidates again.
LEMMA ReconsiderKeeps ==
    ASSUME IInv, Regular, NEW b \in Block, ResetBlockFailureFlags(b)
    PROVE  IInv'
<1> DEFINE cleared == ClearedBy(b) \cup (ChainTo[b] \cap Failed(idx))
<1>1. /\ TypeOK /\ CountersInv /\ LinkInv /\ DiskInv /\ ChainInv /\ ~active /\ ~aborted
      /\ rpcs < MaxRpc /\ b \in idx.known
      /\ Failed(idx) \cap ChainTo[Parent[b]] = {}
      /\ Failed(idx) \cap ClearedBy(b) \subseteq linked
      /\ idx' = [idx EXCEPT !.fv = @ \ cleared, !.fc = @ \ cleared]
      /\ dirty' = dirty \cup cleared
      /\ candidates' = candidates \cup {x \in ClearedBy(b) \cap ValidLinked(idx', linked) :
                                          Worse(seq, tip, x)}
      /\ failed' = failed \ ClearedBy(b)
      /\ rpcs' = rpcs + 1
      /\ UNCHANGED <<linked, seq, nextSeq, unlinked, tip, revSeq, lastPrecious, disk, diskTip, addr,
                     crashes, active, mostWork, aborted>>
  BY DEF ResetBlockFailureFlags, MayRun, Regular, IInv, diskVars
<1>2. \* what is cleared is b and what is above it
      /\ cleared \subseteq idx.known
      /\ \A x \in cleared : b \in ChainTo[x]
      /\ \A x \in Failed(idx) : b \in ChainTo[x] => x \in ClearedBy(b)
      /\ cleared \cap Failed(idx) \subseteq ClearedBy(b)
  <2>1. ChainTo[b] \cap Failed(idx) \subseteq {b} /\ b \in ChainTo[b]
    BY <1>1, ChainToStep
  <2>2. Failed(idx) \subseteq idx.known
    BY <1>1 DEF LinkInv, IndexInv
  <2> QED
    BY Zenon, <1>1, <2>1, <2>2 DEF ClearedBy, Descends
<1>3. ASSUME NEW x \in Block, b \notin ChainTo[x], NEW y \in ChainTo[x] PROVE y \notin cleared
  BY <1>2, <1>3, ChainClosed
<1>4. ClearedBy(b) \subseteq cleared
  OBVIOUS
<1> HIDE DEF cleared
<1>5. /\ idx' \in Status /\ idx'.known = idx.known /\ idx'.data = idx.data
      /\ idx'.fv = idx.fv \ cleared /\ idx'.fc = idx.fc \ cleared
  BY Zenon, <1>1, Types DEF Status
<1>6. /\ Failed(idx') = Failed(idx) \ cleared /\ Complete(idx') = linked
      /\ Failed(idx) \cap cleared \subseteq linked
      /\ \A x \in Failed(idx') : x \in Block /\ b \notin ChainTo[x]
  BY <1>1, <1>2, <1>4, <1>5, Types DEF Failed, Complete, LinkInv
<1>7. LinkInv'
  <2>1. IndexInv(idx')
    <3>1. ASSUME NEW x \in Failed(idx') PROVE ChainTo[x] \cap idx'.fv # {}
      <4>1. PICK y \in ChainTo[x] : y \in idx.fv
        BY <1>1, <1>6, <3>1 DEF LinkInv, IndexInv
      <4> QED
        BY <1>3, <1>5, <1>6, <4>1
    <3> QED
      BY <1>1, <1>5, <1>6, <3>1 DEF LinkInv, IndexInv
  <2>2. ASSUME NEW x \in Failed(idx') \ linked
        PROVE  ChainTo[x] \cap (Failed(idx') \ idx'.data) # {}
    <3>1. PICK y \in ChainTo[x] : y \in Failed(idx) \ idx.data
      BY <1>1, <1>6, <2>2 DEF LinkInv
    <3> QED
      BY <1>3, <1>5, <1>6, <2>2, <3>1
  <2>3. \A x \in idx'.data \ (linked' \cup unlinked') : Parent[x] \in Failed(idx') \ linked
    BY <1>1, <1>5, <1>6 DEF LinkInv
  <2>4. failed' \subseteq linked \cap idx'.fv
    BY <1>1, <1>2, <1>5 DEF LinkInv, Failed
  <2>5. unlinked' \subseteq idx'.data \ linked'
    BY <1>1, <1>5 DEF LinkInv
  <2> QED
    BY <1>1, <1>6, <2>1, <2>2, <2>3, <2>4, <2>5 DEF LinkInv
<1>8. DiskInv'
  BY <1>1, <1>5, DirtyKeepsDisk
<1>9. CountersInv'
  BY <1>1 DEF CountersInv, TypeOK
<1>10. TypeOK'
  <2>1. candidates' \subseteq Block /\ failed' \subseteq Block /\ dirty' \subseteq Block
    BY <1>1, <1>2, Types DEF ValidLinked
  <2>2. rpcs' \in 0..MaxRpc
    BY <1>1, IndexAssumption DEF TypeOK
  <2> QED
    BY <1>1, <1>5, <2>1, <2>2 DEF TypeOK
<1>11. ChainInv'
  <2>1. \A c \in candidates' : c \in linked /\ ~Worse(seq, c, tip)
    BY <1>1, Types, WorseFacts DEF ChainInv, ValidLinked
  <2>2. ASSUME NEW x \in linked \ Failed(idx'), ~Worse(seq, x, tip) PROVE x \in candidates'
    <3>1. CASE x \notin Failed(idx)
      BY <1>1, <2>2, <3>1 DEF ChainInv, Covered
    <3>2. CASE x \in Failed(idx)
      <4>1. x # tip
        BY <1>1, <3>2, ChainToStep, Types DEF ChainInv, Clean
      <4>2. Worse(seq, tip, x)
        BY <1>1, <2>2, <4>1, Types, WorseFacts
      <4>3. x \in ClearedBy(b) /\ x \in ValidLinked(idx', linked)
        BY <1>1, <1>2, <1>5, <1>6, <2>2, <3>2, ChainToStep, Types DEF ValidLinked, LinkInv, Complete
      <4> QED
        BY <1>1, <4>2, <4>3
    <3> QED
      BY <3>1, <3>2
  <2>3. (\A x, y : Worse(seq, x, y)' <=> Worse(seq, x, y)) /\ mostWork' = Null /\ ~active'
    BY <1>1 DEF Worse, ChainInv
  <2>4. Covered(tip)' /\ (\A c \in candidates' : ~Worse(seq, c, tip)')
    BY <1>1, <2>1, <2>2, <2>3 DEF Covered, Worse
  <2>5. Clean(tip)' /\ tip' \in linked'
    BY <1>1, <1>6 DEF ChainInv, Clean
  <2> QED
    BY <1>1, <2>1, <2>3, <2>4, <2>5 DEF ChainInv
<1> QED
  BY <1>1, <1>7, <1>8, <1>9, <1>10, <1>11 DEF IInv

\* preciousblock gives b the lowest sequence number of its work; the tip, if it
\* is b, does not lose its place, so the candidates stay complete.
LEMMA PreciousKeeps ==
    ASSUME IInv, Regular, NEW b \in Block, PreciousBlock(b)
    PROVE  IInv'
<1> DEFINE id == IF Height[tip] > lastPrecious THEN -1 ELSE revSeq
<1>1. /\ TypeOK /\ CountersInv /\ LinkInv /\ DiskInv /\ ChainInv /\ ~active /\ ~aborted
      /\ rpcs < MaxRpc
      /\ b # tip \/ id <= seq[tip]
      /\ seq' = [seq EXCEPT ![b] = id]
      /\ revSeq' = id - 1
      /\ lastPrecious' = Height[tip]
      /\ IF b \in ValidLinked(idx, linked)
         THEN /\ candidates' = Pruned(candidates \cup {b}, seq', tip)
              /\ aborted' = (candidates' = {})
         ELSE /\ candidates' = candidates \ {b}
              /\ UNCHANGED aborted
      /\ rpcs' = rpcs + 1
      /\ UNCHANGED <<idx, linked, nextSeq, unlinked, failed, tip, dirty, disk, diskTip, addr,
                     crashes, active, mostWork>>
  BY Zenon DEF PreciousBlock, MayRun, Regular, IInv, diskVars
<1>2. /\ id \in Int /\ -rpcs - 1 <= id /\ id <= -1 /\ rpcs \in 0..MaxRpc
      /\ MaxRpc \in Nat /\ nextSeq \in Nat \ {0} /\ seq \in [Block -> Int]
      /\ \A x \in Block : -rpcs <= seq[x] /\ seq[x] < nextSeq
      /\ nextSeq <= Cardinality(linked) + 1 /\ Cardinality(Block) \in Nat
  <2>1. /\ rpcs \in 0..MaxRpc /\ MaxRpc \in Nat /\ nextSeq \in 1..(Cardinality(Block) + 1)
        /\ revSeq \in (-MaxRpc - 1)..(-1) /\ Cardinality(Block) \in Nat
    BY Zenon, <1>1, IndexAssumption, BlockCount DEF TypeOK
  <2>2. /\ \A x \in Block : -rpcs <= seq[x] /\ seq[x] < nextSeq
        /\ -rpcs - 1 <= revSeq /\ nextSeq <= Cardinality(linked) + 1
    BY Zenon, <1>1 DEF CountersInv
  <2>3. nextSeq \in Nat \ {0} /\ revSeq \in Int /\ revSeq <= -1 /\ rpcs \in Nat
    BY <2>1
  <2>4. id \in Int /\ -rpcs - 1 <= id /\ id <= -1
    BY <2>2, <2>3
  <2>5. seq \in [Block -> Int]
    BY Zenon, <1>1, Types
  <2> HIDE DEF id
  <2> QED
    BY Zenon, <2>1, <2>2, <2>3, <2>4, <2>5
<1> HIDE DEF id
<1>3. rpcs' \in 0..MaxRpc /\ -rpcs' <= id /\ id < nextSeq /\ -rpcs' - 1 <= revSeq'
  BY <1>1, <1>2
<1>4. seq' \in [Block -> Int] /\ seq'[b] = id /\ \A x \in Block \ {b} : seq'[x] = seq[x]
  BY Zenon, <1>1, <1>2
<1>5. ASSUME NEW x \in Block PROVE -rpcs' <= seq'[x] /\ seq'[x] < nextSeq
  <2>1. CASE x = b
    BY <1>3, <1>4, <2>1
  <2>2. CASE x # b
    <3>1. seq'[x] = seq[x] /\ seq[x] \in Int /\ -rpcs <= seq[x] /\ seq[x] < nextSeq
      BY Zenon, <1>2, <1>4, <2>2
    <3> QED
      BY <1>1, <1>2
  <2> QED
    BY <2>1, <2>2
<1>6. CountersInv'
  BY Zenon, <1>1, <1>3, <1>5 DEF CountersInv
<1>7. linked \subseteq Block /\ linked \subseteq idx.data /\ tip \in linked \ Failed(idx) /\ tip \in Block
  BY Zenon, <1>1, ChainToStep DEF ChainInv, Clean, LinkInv, Complete
<1>8. TypeOK'
  <2>1. seq' \in [Block -> (-MaxRpc)..Cardinality(Block)]
    BY Zenon, <1>2, <1>3, <1>4, <1>5, <1>7, CounterTypes
  <2>2. revSeq' \in (-MaxRpc - 1)..(-1)
    BY <1>1, <1>2
  <2>3. lastPrecious' \in 0..Cardinality(Block)
    <3>1. Height[tip] \in Nat /\ Height[tip] <= Cardinality(Block) - 1
      BY Zenon, <1>7, HeightType, BlockCount
    <3> QED
      BY <1>1, <1>2, <3>1
  <2>4. candidates' \subseteq Block /\ aborted' \in BOOLEAN
    BY Zenon, <1>1, Types DEF Pruned
  <2> QED
    BY <1>1, <1>3, <2>1, <2>2, <2>3, <2>4 DEF TypeOK
<1>9. LinkInv' /\ DiskInv'
  BY Zenon, <1>1 DEF LinkInv, DiskInv
<1>10. \A x \in Block : x # b /\ ~Worse(seq', x, tip) => ~Worse(seq, x, tip)
  <2> SUFFICES ASSUME NEW x \in Block, x # b, Worse(seq, x, tip) PROVE Worse(seq', x, tip)
    OBVIOUS
  <2>1. /\ seq'[x] = seq[x] /\ seq[x] \in Int /\ seq[tip] \in Int /\ seq'[tip] \in Int
        /\ seq'[tip] <= seq[tip]
    BY <1>1, <1>2, <1>7
  <2>2. addr[x] \in Int /\ addr[tip] \in Int
    BY Zenon, <1>1, Types, IndexAssumption
  <2> QED
    BY <2>1 DEF Worse, WorseAt
<1>11. tip \in candidates /\ ~Worse(seq', tip, tip)
  <2>1. ~Worse(seq, tip, tip)
    BY Zenon, <1>1, Types, WorseFacts
  <2>2. ~Worse(seq', tip, tip)
    BY Zenon, <1>1, <1>4, Types, WorseFacts
  <2> QED
    BY Zenon, <1>1, <1>7, <2>1, <2>2 DEF ChainInv, Covered
<1>12. b = tip => b \in ValidLinked(idx, linked)
  BY Zenon, <1>7 DEF ValidLinked
<1>13. /\ candidates' \subseteq linked /\ ~aborted'
       /\ \A c \in candidates' : ~Worse(seq', c, tip)
       /\ {x \in linked \ Failed(idx) : ~Worse(seq', x, tip)} \subseteq candidates'
  <2>1. CASE b \in ValidLinked(idx, linked)
    BY Zenon, <1>1, <1>7, <1>10, <1>11, <2>1 DEF Pruned, ValidLinked, ChainInv, Covered
  <2>2. CASE b \notin ValidLinked(idx, linked)
    <3>1. b # tip /\ candidates' = candidates \ {b} /\ aborted' = aborted
      BY Zenon, <1>1, <1>12, <2>2
    <3>2. \A x \in Block \ {b} : Worse(seq', x, tip) <=> Worse(seq, x, tip)
      BY <1>4, <1>7, <3>1 DEF Worse, WorseAt
    <3>3. b \notin linked \ Failed(idx)
      BY Zenon, <1>7, <2>2 DEF ValidLinked
    <3> QED
      BY Zenon, <1>1, <1>7, <3>1, <3>2, <3>3 DEF ChainInv, Covered
  <2> QED
    BY <2>1, <2>2
<1>14. ChainInv'
  <2>1. (\A x, y : Worse(seq, x, y)' <=> Worse(seq', x, y)) /\ mostWork' = Null /\ ~active'
    BY <1>1 DEF Worse, ChainInv
  <2>2. Covered(tip)' /\ (\A c \in candidates' : ~Worse(seq, c, tip)')
    BY Zenon, <1>1, <1>13, <2>1 DEF Covered
  <2>3. Clean(tip)' /\ tip' \in linked'
    BY Zenon, <1>1 DEF ChainInv, Clean
  <2> QED
    BY Zenon, <1>1, <1>13, <2>2, <2>3 DEF ChainInv
<1> QED
  BY Zenon, <1>6, <1>8, <1>9, <1>13, <1>14 DEF IInv

-----------------------------------------------------------------------------
(* The disk.                                                               *)

\* The index as FlushStateToDisk writes it is the one in memory, except that
\* some marks of FindMostWorkChain, which are not dirty, are missing.
LEMMA WrittenIs ==
    ASSUME TypeOK, LinkInv, DiskInv
    PROVE  /\ Written \in Status /\ IndexInv(Written)
           /\ Written.known = idx.known /\ Written.data = idx.data /\ Written.fv = idx.fv
           /\ Written.fc \subseteq idx.fc
<1>1. idx \in Status /\ disk \in Status
  BY Types
<1>2. /\ Written.known = (disk.known \ dirty) \cup (idx.known \cap dirty)
      /\ Written.data = (disk.data \ dirty) \cup (idx.data \cap dirty)
      /\ Written.scripts = (disk.scripts \ dirty) \cup (idx.scripts \cap dirty)
      /\ Written.fv = (disk.fv \ dirty) \cup (idx.fv \cap dirty)
      /\ Written.fc = (disk.fc \ dirty) \cup (idx.fc \cap dirty)
  BY Zenon DEF Written, Merged
<1>3. Written \in Status
  BY <1>1, <1>2 DEF Status, Written
<1>4. /\ Written.known = idx.known /\ Written.data = idx.data /\ Written.fv = idx.fv
      /\ Written.fc \subseteq idx.fc
  BY Zenon, <1>2 DEF DiskInv
<1>5. IndexInv(Written)
  <2>1. Failed(Written) \subseteq Failed(idx) /\ Complete(Written) = Complete(idx)
    BY Zenon, <1>4 DEF Failed, Complete
  <2> QED
    BY <1>4, <2>1 DEF LinkInv, IndexInv
<1> QED
  BY <1>3, <1>4, <1>5

\* FlushStateToDisk, of the index alone or of the index and the coins.
LEMMA FlushKeeps ==
    ASSUME IInv, Regular, WriteIndex \/ FlushStateToDisk
    PROVE  IInv'
<1>1. /\ TypeOK /\ CountersInv /\ LinkInv /\ DiskInv /\ ChainInv /\ ~aborted
      /\ disk' = Written /\ dirty' = {}
      /\ UNCHANGED <<idx, linked, seq, nextSeq, candidates, unlinked, failed, tip,
                     revSeq, lastPrecious, rpcs, addr, crashes, active, mostWork, aborted>>
  BY DEF WriteIndex, FlushStateToDisk, IInv, rpcVars
<1>2. /\ Written \in Status /\ IndexInv(Written)
      /\ Written.known = idx.known /\ Written.data = idx.data /\ Written.fv = idx.fv
      /\ Written.fc \subseteq idx.fc
  BY <1>1, WrittenIs
<1>3. /\ diskTip' \in Block /\ ChainTo[diskTip'] \subseteq idx.data
      /\ ChainTo[diskTip'] \cap (Failed(idx) \cup BadScripts) = {}
  <2>1. CASE WriteIndex
    BY Zenon, <1>1, <2>1, Types DEF WriteIndex, Regular, DiskInv
  <2>2. CASE FlushStateToDisk
    BY Zenon, <1>1, <2>2, Types DEF FlushStateToDisk, ChainInv, Clean, LinkInv, Complete
  <2> QED
    BY <2>1, <2>2
<1>4. TypeOK'
  BY <1>1, <1>2, <1>3 DEF TypeOK
<1>5. CountersInv' /\ LinkInv'
  BY <1>1 DEF CountersInv, LinkInv
<1>6. DiskInv'
  <2>1. Failed(disk') \subseteq Failed(idx)
    BY <1>1, <1>2 DEF Failed
  <2> QED
    BY <1>1, <1>2, <1>3, <2>1 DEF DiskInv
<1>7. ChainInv'
  <2>1. (\A x, y : Worse(seq, x, y)' <=> Worse(seq, x, y)) /\ (\A x : Clean(x)' <=> Clean(x))
    BY Zenon, <1>1 DEF Worse, Clean
  <2>2. (\A x : Covered(x)' <=> Covered(x)) /\ (MostWorkInv' <=> MostWorkInv)
    BY <1>1, <2>1 DEF Covered, MostWorkInv
  <2> QED
    BY <1>1, <2>1, <2>2 DEF ChainInv
<1> QED
  BY <1>1, <1>4, <1>5, <1>6, <1>7 DEF IInv

\* The index as LoadBlockIndex reads it: above a failed block all are marked.
LEMMA LoadedIs ==
    ASSUME TypeOK, DiskInv, NEW i, i = Loaded(disk)
    PROVE  /\ i \in Status /\ IndexInv(i)
           /\ i.data = disk.data /\ i.fv = disk.fv
           /\ ChainTo[diskTip] \subseteq i.data
           /\ ChainTo[diskTip] \cap (Failed(i) \cup BadScripts) = {}
           /\ \A b \in Failed(i) \ Complete(i) : ChainTo[b] \cap (Failed(i) \ i.data) # {}
<1> DEFINE marked == {b \in disk.known \ Failed(disk) : ChainTo[b] \cap Failed(disk) # {}}
<1>1. /\ disk \in Status /\ disk.known \subseteq Block /\ disk.fc \subseteq Block
      /\ IndexInv(disk) /\ diskTip \in Block
  BY Types DEF Status, DiskInv
<1>2. /\ i \in Status /\ i.known = disk.known /\ i.data = disk.data /\ i.fv = disk.fv
      /\ i.fc = disk.fc \cup marked
  BY <1>1 DEF Loaded, Status
<1>3. /\ marked \subseteq disk.known
      /\ \A b \in disk.known : ChainTo[b] \cap Failed(disk) # {} => b \in marked \cup Failed(disk)
  OBVIOUS
<1>4. \A c \in marked : c \in Block /\ \E f \in ChainTo[c] : f \in Failed(disk)
  BY <1>1
<1> HIDE DEF marked
<1>5. IndexInv(i) /\ Complete(i) = Complete(disk)
  <2>1. \A c \in marked : ChainTo[c] \cap (disk.fv \cup {}) # {}
    <3> SUFFICES ASSUME NEW c \in marked PROVE ChainTo[c] \cap disk.fv # {}
      OBVIOUS
    <3>1. PICK f \in ChainTo[c] : f \in Failed(disk)
      BY <1>4
    <3>2. ChainTo[f] \cap disk.fv # {} /\ ChainTo[f] \subseteq ChainTo[c]
      BY <1>1, <1>4, <3>1, ChainClosed DEF IndexInv
    <3> QED
      BY <3>2
  <2>2. {} \cup marked \subseteq disk.known /\ {} \cap disk.data \subseteq Complete(disk)
        /\ i.fv = disk.fv \cup {}
    BY <1>2, <1>3
  <2> QED
    BY Zenon, <1>1, <1>2, <2>1, <2>2, MarkKeepsIndex
<1>6. Failed(i) = Failed(disk) \cup marked /\ Failed(i) \subseteq disk.known
  BY <1>1, <1>2, <1>3 DEF Failed, IndexInv
<1>7. ChainTo[diskTip] \subseteq i.data /\ ChainTo[diskTip] \cap (Failed(i) \cup BadScripts) = {}
  <2>1. ASSUME NEW c \in marked, c \in ChainTo[diskTip] PROVE FALSE
    BY <1>1, <1>4, <2>1, ChainClosed DEF DiskInv
  <2> QED
    BY <1>2, <1>6, <2>1 DEF DiskInv
<1>8. ASSUME NEW b \in Failed(i) \ Complete(i) PROVE ChainTo[b] \cap (Failed(i) \ i.data) # {}
  <2>1. b \in Block /\ b \in disk.known
    BY <1>1, <1>6, <1>8
  <2>2. PICK v \in ChainTo[b] : v \in i.fv
    BY <1>5, <1>8 DEF IndexInv
  <2>3. PICK y \in ChainTo[b] : y \notin i.data
    BY <1>8, <2>1 DEF Complete
  <2>4. CASE v \notin i.data
    BY <2>2, <2>4 DEF Failed
  <2>5. CASE v \in i.data
    <3>1. y \notin ChainTo[v]
      BY <1>5, <2>2, <2>3, <2>5 DEF IndexInv, Complete
    <3>2. v \in ChainTo[y] /\ y \in disk.known
      BY <1>1, <2>1, <2>2, <2>3, <3>1, AboveHas DEF IndexInv
    <3>3. v \in Failed(disk)
      BY <1>2, <2>2 DEF Failed
    <3>4. y \in Failed(i)
      BY <1>3, <1>6, <3>2, <3>3
    <3> QED
      BY <2>3, <3>4
  <2> QED
    BY <2>4, <2>5
<1> QED
  BY <1>2, <1>5, <1>7, <1>8

\* A crash and the next start (LoadBlockIndex, LoadChainTip): what was stored
\* is enough to rebuild what was in memory.
LEMMA RestartKeeps ==
    ASSUME IInv, Restart
    PROVE  IInv'
<1>1. /\ TypeOK /\ CountersInv /\ DiskInv
      /\ crashes < MaxCrashes /\ crashes' = crashes + 1
      /\ addr' \in AddrOrders
      /\ seq' = [b \in Block |-> 0]
      /\ idx' = Loaded(disk)
      /\ linked' = {b \in idx'.data : ChainTo[b] \subseteq idx'.data}
      /\ unlinked' = idx'.data \ linked'
      /\ tip' = diskTip
      /\ candidates' = {b \in ValidLinked(idx', linked') : ~WorseAt(addr', seq', b, tip')}
      /\ aborted' = (candidates' = {})
      /\ disk' = idx'
      /\ dirty' = {} /\ failed' = {}
      /\ nextSeq' = 1 /\ revSeq' = -1 /\ lastPrecious' = 0
      /\ active' = FALSE /\ mostWork' = Null
      /\ diskTip' = diskTip /\ rpcs' = rpcs
  BY Zenon DEF Restart, IInv, LoadedUnlinked
<1>2. /\ idx' \in Status /\ IndexInv(idx')
      /\ ChainTo[diskTip] \subseteq idx'.data
      /\ ChainTo[diskTip] \cap (Failed(idx') \cup BadScripts) = {}
      /\ \A b \in Failed(idx') \ Complete(idx') : ChainTo[b] \cap (Failed(idx') \ idx'.data) # {}
  BY Zenon, <1>1, LoadedIs
<1>3. /\ idx'.data \subseteq Block /\ diskTip \in Block /\ linked' = Complete(idx')
      /\ linked' \subseteq idx'.data
  BY Zenon, <1>1, <1>2, ChainToStep, Types DEF Status, Complete
<1>4. /\ rpcs \in 0..MaxRpc /\ MaxRpc \in Nat /\ MaxCrashes \in Nat /\ crashes \in 0..MaxCrashes
      /\ Cardinality(linked') \in Nat /\ Cardinality(Block) \in Nat \ {0}
  BY Zenon, <1>1, <1>3, IndexAssumption, BlockCount DEF TypeOK
<1>5. /\ seq' \in [Block -> {0}] /\ \A b \in Block : seq'[b] = 0
      /\ nextSeq' = 1 /\ revSeq' = -1 /\ rpcs' = rpcs
  BY Zenon, <1>1
<1>6. CountersInv'
  BY <1>4, <1>5 DEF CountersInv
<1>7. TypeOK'
  <2>1. seq' \in [Block -> (-MaxRpc)..Cardinality(Block)]
    <3>1. 0 \in (-MaxRpc)..Cardinality(Block)
      BY <1>4
    <3> QED
      BY Zenon, <1>5, <3>1
  <2>2. /\ crashes' \in 0..MaxCrashes /\ nextSeq' \in 1..(Cardinality(Block) + 1)
        /\ revSeq' \in (-MaxRpc - 1)..(-1) /\ lastPrecious' \in 0..Cardinality(Block)
    BY <1>1, <1>4
  <2>3. {linked', candidates', unlinked', failed', dirty'} \subseteq SUBSET Block
    BY <1>1, <1>3 DEF ValidLinked
  <2>4. {active', aborted'} \subseteq BOOLEAN
    BY Zenon, <1>1
  <2> QED
    BY Zenon, <1>1, <1>2, <1>3, <1>4, <2>1, <2>2, <2>3, <2>4 DEF TypeOK
<1>8. LinkInv'
  BY Zenon, <1>1, <1>2, <1>3 DEF LinkInv
<1>9. DiskInv'
  BY Zenon, <1>1, <1>2 DEF DiskInv
<1>10. tip' \in linked' \ Failed(idx')
  BY Zenon, <1>1, <1>2, <1>3, ChainToStep DEF Complete
<1>11. candidates' = {b \in linked' \ Failed(idx') : ~WorseAt(addr', seq', b, tip')}
  BY Zenon, <1>1, <1>3 DEF ValidLinked
<1>12. ~aborted'
  <2>1. ~WorseAt(addr', seq', tip', tip')
    <3>1. addr' \in AddrOrders /\ tip' \in Block
      BY Zenon, <1>1, <1>3
    <3>2. seq' \in [Block -> Int]
      BY <1>5
    <3> QED
      BY Zenon, <3>1, <3>2, WorseOrder
  <2> QED
    BY Zenon, <1>1, <1>10, <1>11, <2>1
<1>13. ChainInv'
  <2>1. Clean(tip)'
    BY Zenon, <1>1, <1>2 DEF Clean
  <2>2. Covered(tip)' /\ \A c \in candidates' : ~Worse(seq, c, tip)'
    BY <1>11 DEF Covered, Worse
  <2> QED
    BY Zenon, <1>1, <1>10, <1>11, <2>1, <2>2 DEF ChainInv
<1> QED
  BY <1>6, <1>7, <1>8, <1>9, <1>12, <1>13 DEF IInv

-----------------------------------------------------------------------------
(* ActivateBestChain.                                                      *)

\* ActivateBestChain starts with complete candidates.
LEMMA ActivateKeeps ==
    ASSUME IInv, ActivateBestChain
    PROVE  IInv'
<1>1. /\ TypeOK /\ CountersInv /\ LinkInv /\ DiskInv /\ ChainInv /\ ~active /\ ~aborted
      /\ active' = TRUE
      /\ UNCHANGED <<idx, linked, seq, nextSeq, candidates, unlinked, failed, tip, dirty,
                     revSeq, lastPrecious, rpcs, disk, diskTip, addr, crashes, mostWork, aborted>>
  BY DEF ActivateBestChain, IInv, memVars, rpcVars, diskVars
<1>2. TypeOK' /\ CountersInv' /\ LinkInv' /\ DiskInv'
  BY Zenon, <1>1 DEF TypeOK, CountersInv, LinkInv, DiskInv
<1>3. ChainInv'
  <2>1. (\A x, y : Worse(seq, x, y)' <=> Worse(seq, x, y)) /\ (\A x : Clean(x)' <=> Clean(x))
    BY Zenon, <1>1 DEF Worse, Clean
  <2>2. (\A x : Covered(x)' <=> Covered(x))
    BY <1>1, <2>1 DEF Covered
  <2> QED
    BY <1>1, <2>1, <2>2 DEF ChainInv
<1> QED
  BY <1>1, <1>2, <1>3 DEF IInv

\* What a step of ActivateBestChain works with: m is the best of the blocks
\* whose ancestors are all good, i and c are the index and the candidates once
\* the unusable ones are marked and dropped; no good block is marked.
Chosen(m, i, c) ==
    /\ i \in Status /\ i.known = idx.known /\ i.data = idx.data /\ i.fv = idx.fv
    /\ \E K \in SUBSET linked : /\ i.fc = idx.fc \cup K
                                /\ \A k \in K : ChainTo[k] \cap idx.fv # {}
    /\ c \subseteq candidates /\ candidates \ c \subseteq Failed(i)
    /\ \A b \in Block : ChainTo[b] \cap Failed(idx) = {} => ChainTo[b] \cap Failed(i) = {}
    /\ m \in c /\ ChainTo[m] \cap Failed(i) = {}
    /\ \A b \in linked : ChainTo[b] \cap Failed(i) = {} => ~Worse(seq, m, b)

\* FindMostWorkChain always finds a chain: the candidates hold one with good
\* ancestors, and it returns the best of these (validation.cpp:3117-3172).
LEMMA FindChooses ==
    ASSUME TypeOK, LinkInv, ChainInv, active,
           NEW i, i = [idx EXCEPT !.fc = @ \cup SkippedChildren]
    PROVE  Chosen(FindMostWorkChain, i, candidates \ SkippedBlocks)
<1> DEFINE m == FindMostWorkChain
           c == candidates \ SkippedBlocks
<1>1. PICK r \in linked : Clean(r) /\ Covered(r)
  BY DEF ChainInv
<1>2. /\ seq \in [Block -> Int] /\ addr \in AddrOrders /\ candidates \subseteq linked
      /\ linked \subseteq Block /\ tip \in Block /\ ChainTo[tip] \cap Failed(idx) = {}
  BY Types DEF ChainInv, Clean
<1>3. /\ SkippedChildren \subseteq SkippedBlocks
      /\ SkippedBlocks \subseteq SkippedChildren \cup Failed(idx)
      /\ \A x \in SkippedBlocks :
           /\ \E a \in candidates : x \in ChainTo[a]
           /\ x \in Block
           /\ \E h \in ChainTo[x] : h \in Failed(idx) \ ChainTo[tip]
  BY <1>2, SkippedIs
<1>4. /\ i \in Status /\ i.known = idx.known /\ i.data = idx.data /\ i.fv = idx.fv
      /\ i.fc = idx.fc \cup SkippedChildren
  BY <1>3, Types DEF Status
<1>5. Failed(i) = Failed(idx) \cup SkippedChildren
  BY <1>4 DEF Failed
<1>6. SkippedChildren \subseteq linked
  BY Zenon, <1>2, <1>3, CompleteStep DEF LinkInv
<1>7. ASSUME NEW x \in Block, ChainTo[x] \cap Failed(idx) = {}
      PROVE  ChainTo[x] \cap SkippedBlocks = {}
  BY <1>3, <1>7, ChainClosed
<1>8. \A k \in SkippedChildren : ChainTo[k] \cap idx.fv # {}
  <2> SUFFICES ASSUME NEW k \in SkippedChildren PROVE ChainTo[k] \cap idx.fv # {}
    OBVIOUS
  <2>1. PICK h \in ChainTo[k] : h \in Failed(idx)
    BY <1>3
  <2>2. ChainTo[h] \cap idx.fv # {} /\ ChainTo[h] \subseteq ChainTo[k]
    BY <1>3, <2>1, ChainClosed DEF LinkInv, IndexInv
  <2> QED
    BY <2>2
<1>9. \A x \in candidates : ChainTo[x] \cap Failed(idx) = {} <=> x \in Usable
  BY <1>2 DEF Usable, FailedOnPath
<1>10. r \in Usable
  <2>1. r \notin Failed(idx) /\ ~Worse(seq, r, r) /\ ChainTo[r] \cap Failed(idx) = {}
    BY <1>1, <1>2, ChainToStep, WorseFacts DEF Clean
  <2>2. r \in candidates
    BY <1>1, <2>1 DEF Covered
  <2> QED
    BY <1>9, <2>1, <2>2
<1>11. /\ m \in Usable /\ m \in candidates /\ m \in Block
       /\ \A x \in Usable \ {m} : Worse(seq, x, m)
  <2>1. Usable \subseteq candidates /\ m = Best(Usable)
    BY <1>10 DEF Usable, FindMostWorkChain
  <2> HIDE DEF m
  <2> QED
    BY <1>2, <1>10, <2>1, BestIsLast
<1> HIDE DEF m
<1>12. ChainTo[m] \cap Failed(idx) = {} /\ m \in c
  BY <1>7, <1>9, <1>11, ChainToStep
<1>13. ASSUME NEW b \in linked, ChainTo[b] \cap Failed(idx) = {} PROVE ~Worse(seq, m, b)
  <2>1. b \in Block /\ b \notin Failed(idx) /\ r \in Block
    BY <1>2, <1>13, ChainToStep
  <2>2. ~Worse(seq, m, r)
    BY <1>2, <1>10, <1>11, <2>1, WorseFacts
  <2>3. CASE Worse(seq, b, r)
    BY <1>2, <1>11, <2>1, <2>2, <2>3, WorseFacts
  <2>4. CASE ~Worse(seq, b, r)
    <3>1. b \in candidates
      BY <1>1, <2>1, <2>4 DEF Covered
    <3> QED
      BY <1>2, <1>9, <1>11, <1>13, <2>1, <3>1, WorseFacts
  <2> QED
    BY <2>3, <2>4
<1>14. c \subseteq candidates /\ candidates \ c \subseteq Failed(i)
  BY Zenon, <1>3, <1>5
<1>15. \A b \in Block : ChainTo[b] \cap Failed(idx) = {} => ChainTo[b] \cap Failed(i) = {}
  BY <1>3, <1>5, <1>7
<1>16. \A b \in linked : ChainTo[b] \cap Failed(i) = {} => ~Worse(seq, m, b)
  BY <1>5, <1>13
<1> HIDE DEF c
<1>17. Chosen(m, i, c)
  BY Zenon, <1>4, <1>6, <1>8, <1>11, <1>12, <1>14, <1>15, <1>16 DEF Chosen
<1> QED
  BY <1>17 DEF m, c

\* The same when a chain was chosen by an earlier step.
LEMMA StepChooses ==
    ASSUME TypeOK, LinkInv, ChainInv, active,
           NEW m, m = IF mostWork = Null THEN FindMostWorkChain ELSE mostWork,
           NEW i, i = IF mostWork = Null THEN [idx EXCEPT !.fc = @ \cup SkippedChildren] ELSE idx,
           NEW c, c = IF mostWork = Null THEN candidates \ SkippedBlocks ELSE candidates
    PROVE  Chosen(m, i, c)
<1>1. CASE mostWork = Null
  BY <1>1, FindChooses
<1>2. CASE mostWork # Null
  <2>1. MostWorkInv /\ m = mostWork /\ i = idx /\ c = candidates
    BY <1>2 DEF ChainInv
  <2>2. idx \in Status /\ idx.fc = idx.fc \cup {} /\ {} \in SUBSET linked
    BY Types
  <2> QED
    BY Zenon, <2>1, <2>2 DEF MostWorkInv, Chosen
<1> QED
  BY <1>1, <1>2

\* Where the walk towards m stops: on m's chain, off the active one, and no
\* block below it is invalid (ActivateBestChainStep, validation.cpp:3190-3271).
LEMMA ConnectedIs ==
    ASSUME TypeOK, ChainInv, NEW m \in candidates, m # tip
    PROVE  LET last == ConnectedUpTo(m)
           IN  /\ last \in ChainTo[m] /\ last \in Block /\ last \notin ChainTo[tip]
               /\ ChainTo[last] \subseteq ChainTo[m]
               /\ ChainTo[last] \cap BadScripts \subseteq {last}
<1> DEFINE last == ConnectedUpTo(m)
           path == ChainTo[m] \ ChainTo[tip]
           stops == {x \in path : Height[x] > Height[tip] \/ x \in BadScripts}
<1>1. /\ m \in Block /\ tip \in Block /\ seq \in [Block -> Int] /\ addr \in AddrOrders
      /\ ~Worse(seq, m, tip) /\ ChainTo[tip] \cap BadScripts = {} /\ ChainTo[m] \subseteq Block
  BY Zenon, Types, ChainToStep DEF ChainInv, Clean
<1>2. m \in path
  <2>1. m \notin ChainTo[tip]
    BY <1>1, AncestorWorse DEF Worse
  <2> QED
    BY Zenon, <1>1, <2>1, ChainToStep
<1>3. last = IF stops = {} THEN m ELSE Lowest(stops)
  BY DEF ConnectedUpTo
<1>4. stops # {} => Lowest(stops) \in stops /\ \A y \in stops : Height[Lowest(stops)] <= Height[y]
  BY Zenon, <1>1, LowestIs
<1>5. last \in path /\ \A y \in stops : Height[last] <= Height[y]
  BY Zenon, <1>2, <1>3, <1>4
<1>6. last \in Block /\ ChainTo[last] \subseteq ChainTo[m]
  BY <1>1, <1>5, ChainClosed
<1>7. ASSUME NEW y \in ChainTo[last] \cap BadScripts, y # last PROVE FALSE
  <2>1. y \in stops
    BY <1>1, <1>6, <1>7
  <2>2. Height[last] <= Height[y]
    BY <1>5, <2>1
  <2> HIDE DEF last, stops
  <2>3. Height[y] <= Height[last] /\ (Height[y] = Height[last] => y = last)
        /\ Height[y] \in Int /\ Height[last] \in Int
    BY <1>6, <1>7, ChainHeights, HeightType
  <2> QED
    BY <1>7, <2>2, <2>3
<1> QED
  BY <1>5, <1>6, <1>7

\* When the tip moves to t the candidates are complete from r or t upwards,
\* whichever is better: F and C are the failed blocks and the candidates left.
LEMMA StillCovered ==
    ASSUME TypeOK, NEW r \in linked, Covered(r), NEW t \in linked, NEW F, NEW c, NEW C,
           Failed(idx) \subseteq F, candidates \ c \subseteq F,
           {x \in c \ F : ~Worse(seq, x, t)} \subseteq C
    PROVE  /\ ~Worse(seq, t, r) => {b \in linked \ F : ~Worse(seq, b, t)} \subseteq C
           /\ Worse(seq, t, r) => {b \in linked \ F : ~Worse(seq, b, r)} \subseteq C
<1>1. linked \subseteq Block /\ seq \in [Block -> Int] /\ addr \in AddrOrders
  BY Types
<1>2. ASSUME NEW b \in linked \ F, ~Worse(seq, b, r) PROVE b \in c
  BY <1>2 DEF Covered
<1>3. ASSUME NEW b \in linked \ F, ~Worse(seq, t, r), ~Worse(seq, b, t) PROVE b \in C
  <2>1. ~Worse(seq, b, r)
    BY <1>1, <1>3, WorseFacts
  <2> QED
    BY <1>2, <1>3, <2>1
<1>4. ASSUME NEW b \in linked \ F, Worse(seq, t, r), ~Worse(seq, b, r) PROVE b \in C
  <2>1. ~Worse(seq, b, t)
    BY <1>1, <1>4, WorseFacts
  <2> QED
    BY <1>2, <1>4, <2>1
<1> QED
  BY <1>3, <1>4

\* What every outcome of a step leaves alone.
LEMMA StepFrame ==
    ASSUME TypeOK, CountersInv, LinkInv, DiskInv, NEW m, NEW i, NEW c, Chosen(m, i, c), NEW V,
           V \subseteq linked, idx' \in Status,
           idx'.known = i.known, idx'.data = i.data, idx'.fv = i.fv \cup V, idx'.fc = i.fc,
           dirty \cup V \subseteq dirty', dirty' \subseteq Block,
           failed' = failed \cup V,
           UNCHANGED <<linked, seq, nextSeq, unlinked, revSeq, lastPrecious, rpcs,
                       disk, diskTip, addr, crashes>>
    PROVE  /\ CountersInv' /\ LinkInv' /\ DiskInv'
           /\ Failed(idx') = Failed(i) \cup V
           /\ candidates' \subseteq linked /\ tip' \in linked /\ mostWork' \in Block \cup {Null}
              /\ {active', aborted'} \subseteq BOOLEAN => TypeOK'
<1>1. PICK K \in SUBSET linked : /\ i.fc = idx.fc \cup K
                                 /\ \A k \in K : ChainTo[k] \cap idx.fv # {}
  BY Zenon DEF Chosen
<1>2. i.known = idx.known /\ i.data = idx.data /\ i.fv = idx.fv
  BY Zenon DEF Chosen
<1>3. CountersInv'
  BY Zenon DEF CountersInv
<1>4. LinkInv'
  <2>1. linked \subseteq idx.known
    BY Zenon, ChainToStep, Types DEF LinkInv, IndexInv, Complete
  <2>2. failed' \subseteq linked \cap (idx.fv \cup V)
    BY Zenon DEF LinkInv
  <2>3. V \cup K \subseteq idx.known /\ V \cap idx.data \subseteq linked
    BY Zenon, <1>1, <2>1
  <2>4. \A k \in K : ChainTo[k] \cap (idx.fv \cup V) # {}
    BY <1>1
  <2>5. \A k \in (V \cup K) \ linked : ChainTo[k] \cap ((Failed(idx) \cup V \cup K) \ idx.data) # {}
    BY Zenon, <1>1
  <2>6. /\ idx'.known = idx.known /\ idx'.data = idx.data
        /\ idx'.fv = idx.fv \cup V /\ idx'.fc = idx.fc \cup K
    BY <1>1, <1>2
  <2> QED
    BY Zenon, <2>2, <2>3, <2>4, <2>5, <2>6, MarkKeepsLinks
<1>5. DiskInv'
  <2>1. /\ idx'.known \ dirty' = idx.known \ dirty'
        /\ idx'.data \ dirty' = idx.data \ dirty' /\ idx.data \subseteq idx'.data
        /\ idx'.fv \ dirty' = idx.fv \ dirty'
        /\ idx.fc \ dirty' \subseteq idx'.fc
    BY <1>1, <1>2
  <2> QED
    BY <2>1, DirtyKeepsDisk
<1>6. Failed(idx') = Failed(i) \cup V
  BY Zenon DEF Failed
<1>7. ASSUME candidates' \subseteq linked, tip' \in linked, mostWork' \in Block \cup {Null},
             {active', aborted'} \subseteq BOOLEAN
      PROVE  TypeOK'
  <2>1. linked' \subseteq Block /\ unlinked' \subseteq Block /\ failed' \subseteq Block
        /\ candidates' \subseteq Block /\ tip' \in Block
    BY Zenon, <1>7, Types
  <2> QED
    BY Zenon, <1>7, <2>1 DEF TypeOK
<1> QED
  BY Zenon, <1>3, <1>4, <1>5, <1>6, <1>7

\* No linked block with good ancestors is better than the new tip.
TipIsBest ==
    \A b \in linked : ChainTo[b] \cap Failed(idx') = {} => ~Worse(seq, tip', b)

\* ActivateBestChain returns only at the best block.
LEMMA NothingKeeps ==
    ASSUME IInv, active, NEW m, NEW i, NEW c, Chosen(m, i, c), NothingToDo(m, i, c),
           UNCHANGED <<linked, seq, nextSeq, unlinked, revSeq, lastPrecious, rpcs,
                       disk, diskTip, addr, crashes>>
    PROVE  IInv' /\ TipIsBest
<1>1. /\ TypeOK /\ CountersInv /\ LinkInv /\ DiskInv /\ ChainInv /\ ~aborted
      /\ idx' = i /\ candidates' = c /\ active' = FALSE /\ mostWork' = Null
      /\ UNCHANGED <<tip, dirty, failed, aborted>>
  BY DEF NothingToDo, IInv
<1>2. linked \subseteq Block /\ candidates \subseteq linked /\ seq \in [Block -> Int]
      /\ addr \in AddrOrders /\ tip \in linked /\ dirty \subseteq Block
  BY Zenon, <1>1, Types DEF ChainInv
<1>3. m = tip
  <2>1. m \in Block
    BY Zenon, <1>2 DEF Chosen
  <2> QED
    BY <2>1, TreeAssumption DEF NothingToDo
<1>4. /\ CountersInv' /\ LinkInv' /\ DiskInv' /\ Failed(idx') = Failed(i) /\ TypeOK'
  <2> DEFINE V == {}
  <2>1. /\ idx' \in Status /\ idx'.known = i.known /\ idx'.data = i.data
        /\ idx'.fv = i.fv \cup V /\ idx'.fc = i.fc /\ V \subseteq linked
        /\ dirty \cup V \subseteq dirty' /\ dirty' \subseteq Block /\ failed' = failed \cup V
    BY Zenon, <1>1, <1>2 DEF Chosen
  <2>2. candidates' \subseteq linked /\ tip' \in linked
    BY Zenon, <1>1, <1>2 DEF Chosen
  <2>3. {active', aborted'} \subseteq BOOLEAN /\ mostWork' \in Block \cup {Null}
    BY Zenon, <1>1, Types
  <2> HIDE DEF V
  <2>4. /\ CountersInv' /\ LinkInv' /\ DiskInv' /\ Failed(idx') = Failed(i) \cup V /\ TypeOK'
    BY Zenon, <1>1, <2>1, <2>2, <2>3, StepFrame
  <2> QED
    BY <2>4 DEF V
<1>5. Failed(idx') = Failed(i) /\ Failed(idx) \subseteq Failed(i)
  BY Zenon, <1>1 DEF Chosen, Failed
<1>6. PICK r \in linked : Clean(r) /\ Covered(r)
  BY <1>1 DEF ChainInv
<1>7. {b \in linked \ Failed(i) : ~Worse(seq, b, tip)} \subseteq c
  <2>1. ChainTo[r] \cap Failed(i) = {}
    BY Zenon, <1>2, <1>6 DEF Clean, Chosen
  <2>2. ~Worse(seq, tip, r)
    BY Zenon, <1>3, <2>1 DEF Chosen
  <2>3. candidates \ c \subseteq Failed(i) /\ {x \in c \ Failed(i) : ~Worse(seq, x, tip)} \subseteq c
    BY Zenon DEF Chosen
  <2> QED
    BY Zenon, <1>1, <1>2, <1>5, <1>6, <2>2, <2>3, StillCovered
<1>8. ChainInv'
  <2>1. \A x, y : Worse(seq, x, y)' <=> Worse(seq, x, y)
    BY <1>1 DEF Worse
  <2>2. Covered(tip)'
    BY <1>1, <1>5, <1>7, <2>1 DEF Covered, Worse
  <2>3. Clean(tip)'
    <3>1. ChainTo[tip] \cap Failed(i) = {}
      BY Zenon, <1>3 DEF Chosen
    <3> QED
      BY Zenon, <1>1, <1>5, <3>1 DEF Clean, ChainInv
  <2>4. candidates' \subseteq linked' /\ \A x \in candidates' : ~Worse(seq, x, tip)'
    BY Zenon, <1>1, <1>2, <2>1 DEF ChainInv, Chosen, Worse
  <2> QED
    BY <1>1, <1>2, <2>2, <2>3, <2>4 DEF ChainInv
<1>9. TipIsBest
  BY Zenon, <1>1, <1>3, <1>5 DEF TipIsBest, Chosen
<1> QED
  BY <1>1, <1>4, <1>8, <1>9 DEF IInv

\* A step that connects up to last: the tip is valid, a candidate is left, and
\* if the walk has not reached m the next step goes on towards it.
LEMMA ConnectsKeeps ==
    ASSUME IInv, active, NEW m, NEW i, NEW c, Chosen(m, i, c), m # tip,
           NEW last, last = ConnectedUpTo(m), last \notin BadScripts, StepConnects(last, m, i, c),
           UNCHANGED <<linked, seq, nextSeq, unlinked, revSeq, lastPrecious, rpcs,
                       disk, diskTip, addr, crashes>>
    PROVE  IInv' /\ (~active' => TipIsBest)
<1> DEFINE new == ChainTo[last] \ ChainTo[tip]
<1>1. /\ TypeOK /\ CountersInv /\ LinkInv /\ DiskInv /\ ChainInv /\ ~aborted
      /\ tip' = last
      /\ idx' = [i EXCEPT !.scripts = @ \cup (new \ Failed(i))]
      /\ dirty' = dirty \cup (new \ i.scripts) \cup (i.fv \ idx.fv)
      /\ aborted' = (new # {} /\ LeftAt(last, c) = {})
      /\ candidates' = LeftAt(last, c)
      /\ mostWork' = IF last = m THEN Null ELSE m
      /\ active' = (last # m)
      /\ failed' = failed
  BY DEF StepConnects, WalkTo, IInv
<1>2. /\ linked \subseteq Block /\ candidates \subseteq linked /\ seq \in [Block -> Int]
      /\ addr \in AddrOrders /\ tip \in linked /\ dirty \subseteq Block
      /\ m \in candidates /\ m \in linked /\ m \in Block /\ c \subseteq candidates
  BY <1>1, Types DEF ChainInv, Chosen
<1>3. /\ last \in ChainTo[m] /\ last \in Block /\ last \notin ChainTo[tip]
      /\ ChainTo[last] \subseteq ChainTo[m]
      /\ ChainTo[last] \cap BadScripts = {}
  BY <1>1, <1>2, ConnectedIs
<1>4. last \in linked
  BY Zenon, <1>1, <1>2, <1>3, CompleteStep DEF LinkInv
<1>5. new # {} /\ new \subseteq Block /\ candidates' = {x \in c : ~Worse(seq, x, last)}
  BY <1>1, <1>3, ChainToStep DEF LeftAt, Pruned
<1> HIDE DEF new
<1>6. m \in candidates' /\ ~aborted'
  <2>1. last # m => Worse(seq, last, m)
    BY Zenon, <1>2, <1>3, AncestorWorse DEF Worse
  <2>2. ~Worse(seq, m, last)
    BY Zenon, <1>2, <1>3, <2>1, WorseFacts
  <2> QED
    BY Zenon, <1>1, <1>5, <2>2 DEF Chosen
<1>7. /\ idx' \in Status /\ idx'.known = i.known /\ idx'.data = i.data
      /\ idx'.fv = i.fv /\ idx'.fc = i.fc
  BY <1>1, <1>5 DEF Chosen, Status
<1>8. /\ CountersInv' /\ LinkInv' /\ DiskInv' /\ Failed(idx') = Failed(i) /\ TypeOK'
  <2> DEFINE V == {}
  <2>1. /\ idx'.fv = i.fv \cup V /\ V \subseteq linked
        /\ dirty \cup V \subseteq dirty' /\ failed' = failed \cup V
    BY <1>1, <1>7
  <2>2. dirty' \subseteq Block
    BY <1>1, <1>2, <1>5 DEF Chosen
  <2>3. candidates' \subseteq linked /\ tip' \in linked
    BY <1>1, <1>2, <1>4, <1>5
  <2>4. {active', aborted'} \subseteq BOOLEAN /\ mostWork' \in Block \cup {Null}
    BY <1>1, <1>2, <1>6
  <2> HIDE DEF V
  <2>5. /\ CountersInv' /\ LinkInv' /\ DiskInv' /\ Failed(idx') = Failed(i) \cup V /\ TypeOK'
    BY <1>1, <1>7, <2>1, <2>2, <2>3, <2>4, StepFrame
  <2> QED
    BY <2>5 DEF V
<1>9. Failed(idx') = Failed(i) /\ Failed(idx) \subseteq Failed(i)
  BY Zenon, <1>8 DEF Chosen, Failed
<1>10. PICK r \in linked : Clean(r) /\ Covered(r)
  BY <1>1 DEF ChainInv
<1>11. ChainTo[r] \cap (Failed(i) \cup BadScripts) = {} /\ ~Worse(seq, m, r)
  BY Zenon, <1>2, <1>10 DEF Clean, Chosen
<1>12. /\ ~Worse(seq, last, r) => {b \in linked \ Failed(i) : ~Worse(seq, b, last)} \subseteq candidates'
       /\ Worse(seq, last, r) => {b \in linked \ Failed(i) : ~Worse(seq, b, r)} \subseteq candidates'
  <2>1. /\ candidates \ c \subseteq Failed(i)
        /\ {x \in c \ Failed(i) : ~Worse(seq, x, last)} \subseteq candidates'
    BY Zenon, <1>5 DEF Chosen
  <2> QED
    <3>1. TypeOK /\ Covered(r) /\ Failed(idx) \subseteq Failed(i)
      BY Zenon, <1>1, <1>9, <1>10
    <3> QED
      BY Zenon, <1>4, <2>1, <3>1, StillCovered
<1>13. ChainInv'
  <2>1. \A x, y : Worse(seq, x, y)' <=> Worse(seq, x, y)
    BY DEF Worse
  <2>2. Clean(last)' /\ Clean(r)'
    BY Zenon, <1>3, <1>9, <1>11 DEF Clean, Chosen
  <2>3. /\ ~Worse(seq, last, r) => Covered(last)'
        /\ Worse(seq, last, r) => Covered(r)'
    BY <1>9, <1>12, <2>1 DEF Covered, Worse
  <2>4. \E q \in linked' : Clean(q)' /\ Covered(q)'
    BY <1>4, <1>10, <2>2, <2>3
  <2>5. ~active' => mostWork' = Null /\ Covered(last)'
    BY Zenon, <1>1, <1>11, <2>3
  <2>6. candidates' \subseteq linked' /\ \A x \in candidates' : ~Worse(seq, x, last)'
    BY <1>2, <1>5, <2>1
  <2>7. mostWork' # Null => MostWorkInv'
    <3>1. CASE last = m
      BY <1>1, <3>1
    <3>2. CASE last # m
      <4>1. mostWork' = m /\ ChainTo[m] \cap Failed(idx') = {}
        BY <1>1, <1>9, <3>2 DEF Chosen
      <4>2. \A b \in linked' : ChainTo[b] \cap Failed(idx') = {} => ~Worse(seq, m, b)'
        BY Zenon, <1>9, <2>1 DEF Chosen
      <4> QED
        BY Zenon, <1>1, <1>3, <1>6, <3>2, <4>1, <4>2 DEF MostWorkInv, Worse
    <3> QED
      BY <3>1, <3>2
  <2>8. Clean(tip)' /\ (Covered(last)' => Covered(tip)') /\ (\A x \in candidates' : ~Worse(seq, x, tip)')
    BY <1>1, <2>2, <2>6 DEF Clean, Covered, Worse
  <2> QED
    BY <1>1, <1>4, <2>4, <2>5, <2>6, <2>7, <2>8 DEF ChainInv
<1>14. ~active' => TipIsBest
  BY Zenon, <1>1, <1>9 DEF TipIsBest, Chosen
<1> QED
  BY <1>6, <1>8, <1>13, <1>14 DEF IInv

\* A step that meets an invalid block: the tip is its parent, and a block at
\* least as good as the tip that ActivateBestChain started from is left.
LEMMA FailsKeeps ==
    ASSUME IInv, active, NEW m, NEW i, NEW c, Chosen(m, i, c), m # tip,
           NEW last, last = ConnectedUpTo(m), last \in BadScripts, StepFails(last, i, c),
           UNCHANGED <<linked, seq, nextSeq, unlinked, revSeq, lastPrecious, rpcs,
                       disk, diskTip, addr, crashes>>
    PROVE  IInv' /\ active'
<1> DEFINE t == Parent[last]
           j == [i EXCEPT !.fv = @ \cup {last}]
           new == ChainTo[t] \ ChainTo[tip]
<1>1. /\ TypeOK /\ CountersInv /\ LinkInv /\ DiskInv /\ ChainInv /\ ~aborted
      /\ tip' = t
      /\ idx' = [j EXCEPT !.scripts = @ \cup (new \ Failed(j))]
      /\ dirty' = dirty \cup (new \ j.scripts) \cup (j.fv \ idx.fv)
      /\ aborted' = (new # {} /\ LeftAt(t, c) = {})
      /\ candidates' = LeftAt(t, c) \ {last}
      /\ mostWork' = Null
      /\ active' = active
      /\ failed' = failed \cup {last}
  BY DEF StepFails, WalkTo, IInv
<1>2. /\ linked \subseteq Block /\ candidates \subseteq linked /\ seq \in [Block -> Int]
      /\ addr \in AddrOrders /\ tip \in linked /\ tip \in Block /\ dirty \subseteq Block
      /\ m \in candidates /\ m \in linked /\ m \in Block /\ c \subseteq candidates
  BY <1>1, Types DEF ChainInv, Chosen
<1>3. /\ last \in ChainTo[m] /\ last \in Block /\ last \notin ChainTo[tip]
      /\ ChainTo[last] \subseteq ChainTo[m]
      /\ ChainTo[last] \cap BadScripts \subseteq {last}
  BY Zenon, <1>1, <1>2, ConnectedIs
<1>4. t \in Block /\ ChainTo[last] = {last} \cup ChainTo[t] /\ last \notin ChainTo[t]
      /\ t \in ChainTo[t]
  <2>1. last # Genesis
    BY Zenon, IndexAssumption
  <2>2. t \in Block
    BY Zenon, <1>3, <2>1, TreeAssumption
  <2> QED
    BY Zenon, <1>3, <2>2, ChainToStep, ParentBelow
<1>5. last \in linked /\ t \in linked /\ t \in ChainTo[m] /\ t # m
  <2>1. ChainTo[m] \subseteq linked
    BY Zenon, <1>1, <1>2, CompleteStep DEF LinkInv
  <2>2. ChainTo[last] \subseteq ChainTo[m] /\ t # m
    BY Zenon, <1>3, <1>4
  <2> QED
    BY Zenon, <1>3, <1>4, <2>1
<1>6. \* the candidates left
      /\ LeftAt(t, c) \subseteq c
      /\ \A x \in LeftAt(t, c) : ~Worse(seq, x, t)
      /\ {x \in c : ~Worse(seq, x, t)} \subseteq LeftAt(t, c)
  <2>1. CASE ChainTo[t] \subseteq ChainTo[tip]
    <3>1. LeftAt(t, c) = c
      BY Zenon, <2>1 DEF LeftAt
    <3>2. t # tip => Worse(seq, t, tip)
      BY Zenon, <1>2, <1>4, <2>1, AncestorWorse DEF Worse
    <3>3. \A x \in c : ~Worse(seq, x, tip) /\ x \in Block
      BY Zenon, <1>1, <1>2 DEF ChainInv
    <3>4. \A x \in c : ~Worse(seq, x, t)
      <4>1. tip \in Block /\ seq \in [Block -> Int] /\ addr \in AddrOrders
        BY Zenon, <1>2
      <4>2. ASSUME NEW x \in c, t # tip, Worse(seq, t, tip) PROVE ~Worse(seq, x, t)
        BY Zenon, <1>4, <3>3, <4>1, <4>2, WorseFacts
      <4> QED
        BY Zenon, <3>2, <3>3, <4>2
    <3> QED
      BY Zenon, <3>1, <3>4
  <2>2. CASE ~(ChainTo[t] \subseteq ChainTo[tip])
    BY Zenon, <2>2 DEF LeftAt, Pruned
  <2> QED
    BY Zenon, <2>1, <2>2
<1>7. j \in Status /\ j.known = i.known /\ j.data = i.data /\ j.fv = i.fv \cup {last} /\ j.fc = i.fc
  BY <1>3 DEF Chosen, Status
<1>8. new \subseteq Block
  BY Zenon, <1>4, ChainToStep
<1> HIDE DEF t, j, new
<1>9. /\ idx' \in Status /\ idx'.known = i.known /\ idx'.data = i.data
      /\ idx'.fv = i.fv \cup {last} /\ idx'.fc = i.fc
  BY Zenon, <1>1, <1>7, <1>8 DEF Status
<1>10. ~aborted'
  <2>1. Worse(seq, t, m)
    BY Zenon, <1>2, <1>5, AncestorWorse DEF Worse
  <2>2. m \in LeftAt(t, c)
    BY Zenon, <1>2, <1>4, <1>6, <2>1, WorseFacts DEF Chosen
  <2> QED
    BY Zenon, <1>1, <2>2
<1>11. /\ CountersInv' /\ LinkInv' /\ DiskInv' /\ Failed(idx') = Failed(i) \cup {last} /\ TypeOK'
  <2> DEFINE V == {last}
  <2>1. {last} \subseteq linked /\ dirty \cup {last} \subseteq dirty'
    <3>1. last \in idx.fv => last \in dirty'
      <4>1. ChainTo[m] \cap idx.fv = {}
        BY Zenon DEF Chosen, Failed
      <4> QED
        BY Zenon, <1>3, <4>1
    <3>2. last \notin idx.fv => last \in dirty'
      BY Zenon, <1>1, <1>7
    <3> QED
      BY Zenon, <1>1, <1>5, <3>1, <3>2
  <2>2. dirty' \subseteq Block
    BY Zenon, <1>1, <1>2, <1>7, <1>8 DEF Status
  <2>3. candidates' \subseteq linked /\ tip' \in linked
    BY Zenon, <1>1, <1>2, <1>5, <1>6
  <2>4. {active', aborted'} \subseteq BOOLEAN /\ mostWork' \in Block \cup {Null}
    BY Zenon, <1>1
  <2>5. /\ V \subseteq linked /\ dirty \cup V \subseteq dirty' /\ failed' = failed \cup V
        /\ idx'.fv = i.fv \cup V
    BY <1>1, <1>9, <2>1
  <2>6. TypeOK /\ CountersInv /\ LinkInv /\ DiskInv
    BY <1>1
  <2> HIDE DEF V
  <2>7. /\ CountersInv' /\ LinkInv' /\ DiskInv' /\ Failed(idx') = Failed(i) \cup V /\ TypeOK'
    BY Zenon, <1>9, <2>2, <2>3, <2>4, <2>5, <2>6, StepFrame
  <2> QED
    BY <2>7 DEF V
<1>12. Failed(idx) \subseteq Failed(idx')
  BY Zenon, <1>11 DEF Chosen, Failed
<1>13. PICK r \in linked : Clean(r) /\ Covered(r)
  BY Zenon, <1>1 DEF ChainInv
<1>14. ChainTo[r] \cap (Failed(idx') \cup BadScripts) = {}
  BY Zenon, <1>2, <1>11, <1>13 DEF Clean, Chosen
<1>15. ChainTo[t] \cap (Failed(idx') \cup BadScripts) = {}
  <2>1. ChainTo[m] \cap Failed(i) = {} /\ Failed(idx') = Failed(i) \cup {last}
    BY Zenon, <1>11 DEF Chosen
  <2>2. ASSUME NEW x \in ChainTo[t] PROVE x \notin Failed(idx') /\ x \notin BadScripts
    <3>1. x \in ChainTo[last] /\ x # last
      BY Zenon, <1>4
    <3> QED
      BY Zenon, <1>3, <2>1, <3>1
  <2> QED
    BY Zenon, <2>2
<1>16. /\ ~Worse(seq, t, r) => {b \in linked \ Failed(idx') : ~Worse(seq, b, t)} \subseteq candidates'
       /\ Worse(seq, t, r) => {b \in linked \ Failed(idx') : ~Worse(seq, b, r)} \subseteq candidates'
  <2>1. candidates \ c \subseteq Failed(idx')
    BY Zenon, <1>11 DEF Chosen
  <2>2. {x \in c \ Failed(idx') : ~Worse(seq, x, t)} \subseteq candidates'
    BY Zenon, <1>1, <1>6, <1>11
  <2>3. TypeOK /\ t \in linked
    BY Zenon, <1>1, <1>5
  <2> DEFINE F == Failed(idx')
             C == candidates'
  <2>4. Failed(idx) \subseteq F /\ candidates \ c \subseteq F /\ {x \in c \ F : ~Worse(seq, x, t)} \subseteq C
    BY <1>12, <2>1, <2>2
  <2> HIDE DEF F, C
  <2>5. /\ ~Worse(seq, t, r) => {b \in linked \ F : ~Worse(seq, b, t)} \subseteq C
        /\ Worse(seq, t, r) => {b \in linked \ F : ~Worse(seq, b, r)} \subseteq C
    BY Zenon, <1>13, <2>3, <2>4, StillCovered
  <2> QED
    BY Zenon, <2>5 DEF F, C
<1>17. ChainInv'
  <2>1. \A x, y : Worse(seq, x, y)' <=> Worse(seq, x, y)
    BY DEF Worse
  <2>2. Clean(t)' /\ Clean(r)'
    BY Zenon, <1>14, <1>15 DEF Clean, t
  <2>3. /\ ~Worse(seq, t, r) => Covered(t)'
        /\ Worse(seq, t, r) => Covered(r)'
    BY <1>16 DEF Covered, Worse
  <2>4. \E q \in linked' : Clean(q)' /\ Covered(q)'
    BY Zenon, <1>5, <2>2, <2>3
  <2>5. candidates' \subseteq linked' /\ \A x \in candidates' : ~Worse(seq, x, tip)'
    BY Zenon, <1>1, <1>2, <1>6 DEF Worse
  <2>6. Clean(tip)' /\ tip' \in linked'
    BY Zenon, <1>1, <1>5, <1>15 DEF Clean
  <2> QED
    BY Zenon, <1>1, <2>4, <2>5, <2>6 DEF ChainInv
<1> QED
  BY <1>1, <1>10, <1>11, <1>17 DEF IInv

\* One pass of ActivateBestChain's loop.
LEMMA StepKeeps ==
    ASSUME IInv, ActivateBestChainStep
    PROVE  IInv' /\ (~active' => TipIsBest)
<1>1. /\ TypeOK /\ LinkInv /\ ChainInv /\ active
      /\ UNCHANGED <<linked, seq, nextSeq, unlinked, revSeq, lastPrecious, rpcs,
                     disk, diskTip, addr, crashes>>
  BY DEF IInv, ActivateBestChainStep, rpcVars, diskVars
<1>2. PICK m \in {IF mostWork = Null THEN FindMostWorkChain ELSE mostWork},
          i \in {IF mostWork = Null THEN [idx EXCEPT !.fc = @ \cup SkippedChildren] ELSE idx},
          c \in {IF mostWork = Null THEN candidates \ SkippedBlocks ELSE candidates} :
         \/ NothingToDo(m, i, c)
         \/ /\ m \notin {Null, tip}
            /\ \E last \in {ConnectedUpTo(m)} :
                 \/ last \in BadScripts /\ StepFails(last, i, c)
                 \/ last \notin BadScripts /\ StepConnects(last, m, i, c)
  BY DEF ActivateBestChainStep
<1>3. Chosen(m, i, c)
  BY <1>1, <1>2, StepChooses
<1>4. CASE NothingToDo(m, i, c)
  BY <1>1, <1>3, <1>4, NothingKeeps
<1>5. CASE m \notin {Null, tip} /\ ConnectedUpTo(m) \in BadScripts /\ StepFails(ConnectedUpTo(m), i, c)
  BY <1>1, <1>3, <1>5, FailsKeeps
<1>6. CASE m \notin {Null, tip} /\ ConnectedUpTo(m) \notin BadScripts
           /\ StepConnects(ConnectedUpTo(m), m, i, c)
  BY <1>1, <1>3, <1>6, ConnectsKeeps
<1> QED
  BY <1>2, <1>4, <1>5, <1>6

-----------------------------------------------------------------------------
(* The theorems.                                                           *)

\* IInv is an invariant, whatever the tree, the invalid blocks, the order of
\* arrival and the number of calls and crashes, outside the findings' cases.
THEOREM InductiveInvariant ==
    ASSUME Regular
    PROVE  Spec => []IInv
<1>1. Init => IInv
  BY InitInv
<1>2. IInv /\ [Next]_vars => IInv'
  <2> SUFFICES ASSUME IInv, [Next]_vars PROVE IInv'
    OBVIOUS
  <2>1. ASSUME NEW b \in Block, AcceptBlockHeader(b) PROVE IInv'
    BY <2>1, HeaderKeeps
  <2>2. ASSUME NEW b \in Block, AcceptBlock(b) PROVE IInv'
    BY <2>2, BlockKeeps
  <2>3. ASSUME NEW b \in Block, InvalidateBlock(b) PROVE IInv'
    BY <2>3, InvalidateKeeps
  <2>4. ASSUME NEW b \in Block, ResetBlockFailureFlags(b) PROVE IInv'
    BY <2>4, ReconsiderKeeps
  <2>5. ASSUME NEW b \in Block, PreciousBlock(b) PROVE IInv'
    BY <2>5, PreciousKeeps
  <2>6. CASE ActivateBestChain
    BY <2>6, ActivateKeeps
  <2>7. CASE ActivateBestChainStep
    BY <2>7, StepKeeps
  <2>8. CASE WriteIndex \/ FlushStateToDisk
    BY <2>8, FlushKeeps
  <2>9. CASE Restart
    BY <2>9, RestartKeeps
  <2>10. CASE UNCHANGED vars
    <3>1. UNCHANGED <<idx, linked, seq, nextSeq, candidates, unlinked, failed, tip, dirty,
                      revSeq, lastPrecious, rpcs, disk, diskTip, addr, crashes, active,
                      mostWork, aborted>>
      BY <2>10 DEF vars, memVars, rpcVars, diskVars
    <3>2. TypeOK' /\ CountersInv' /\ LinkInv' /\ DiskInv' /\ ~aborted'
      BY Zenon, <3>1 DEF IInv, TypeOK, CountersInv, LinkInv, DiskInv
    <3>3. (\A x, y : Worse(seq, x, y)' <=> Worse(seq, x, y)) /\ (\A x : Clean(x)' <=> Clean(x))
      BY Zenon, <3>1 DEF Worse, Clean
    <3>4. (\A x : Covered(x)' <=> Covered(x)) /\ (MostWorkInv' <=> MostWorkInv)
      BY Zenon, <3>1, <3>3 DEF Covered, MostWorkInv
    <3>5. ChainInv'
      BY <3>1, <3>3, <3>4 DEF IInv, ChainInv
    <3> QED
      BY <3>2, <3>5 DEF IInv
  <2> QED
    BY <2>1, <2>2, <2>3, <2>4, <2>5, <2>6, <2>7, <2>8, <2>9, <2>10 DEF Next
<1> QED
  BY <1>1, <1>2, PTL DEF Spec

\* What IInv says of a state.
LEMMA InvariantImplies ==
    ASSUME IInv
    PROVE  /\ TypeOK /\ CandidatesExact /\ LinkedExact
           /\ FailureHasCause /\ ActiveChainValid /\ NoAssertFails
<1>1. TypeOK /\ LinkInv /\ DiskInv /\ ChainInv /\ ~aborted
  BY DEF IInv
<1>2. FailureHasCause
  BY <1>1 DEF FailureHasCause, LinkInv, DiskInv, IndexInv
<1>3. ActiveChainValid
  BY <1>1 DEF ActiveChainValid, ChainInv, Clean
<1>4. CandidatesExact
  <2> SUFFICES ASSUME ~active
               PROVE  /\ candidates \subseteq {b \in linked : ~Worse(seq, b, tip)}
                      /\ \A b \in linked : ~Worse(seq, b, tip) /\ ChainTo[b] \cap idx.fv = {}
                                             => b \in candidates
    BY DEF CandidatesExact
  <2>1. ASSUME NEW b \in linked, ~Worse(seq, b, tip), ChainTo[b] \cap idx.fv = {}
        PROVE  b \in candidates
    <3>1. ChainTo[b] \cap Failed(idx) = {} /\ b \in ChainTo[b]
      BY Zenon, <1>1, <2>1, ChainToStep, Types, FailedByCause DEF LinkInv
    <3> QED
      BY <1>1, <2>1, <3>1 DEF ChainInv, Covered
  <2> QED
    BY <1>1, <2>1 DEF ChainInv
<1>5. LinkedExact
  <2> SUFFICES /\ linked = Complete(idx)
               /\ unlinked \subseteq idx.data \ linked
               /\ \A b \in idx.data \ linked : ChainTo[b] \cap idx.fv = {} => b \in unlinked
    BY DEF LinkedExact, Complete
  <2>1. ASSUME NEW b \in idx.data \ linked, ChainTo[b] \cap idx.fv = {}, b \notin unlinked
        PROVE  FALSE
    <3>1. b \in Block /\ Parent[b] \in Failed(idx)
      BY <1>1, <2>1, Types DEF LinkInv
    <3>2. Parent[b] \in ChainTo[b]
      BY Zenon, <1>1, <3>1, ChainToStep, Types
    <3> QED
      BY <1>1, <2>1, <3>1, <3>2, FailedByCause DEF LinkInv
  <2> QED
    BY Zenon, <1>1, <2>1 DEF LinkInv
<1> QED
  BY <1>1, <1>2, <1>3, <1>4, <1>5 DEF NoAssertFails

\* The variables keep their types; the sequence numbers stay within the number
\* of blocks and of calls, and the chain always has a tip.
THEOREM TypesHold ==
    ASSUME Regular
    PROVE  Spec => []TypeOK
<1>1. IInv => TypeOK
  BY InvariantImplies
<1> QED
  BY <1>1, InductiveInvariant, PTL

\* Outside ActivateBestChain setBlockIndexCandidates holds every linked block
\* that is no worse than the tip and has no invalid ancestor, and nothing worse
\* than the tip (CheckBlockIndex, validation.cpp:5309-5327).
THEOREM CandidatesAreExact ==
    ASSUME Regular
    PROVE  Spec => []CandidatesExact
<1>1. IInv => CandidatesExact
  BY InvariantImplies
<1> QED
  BY <1>1, InductiveInvariant, PTL

\* nChainTx is set exactly when all ancestors have their data, in whatever order
\* the blocks arrive, and mapBlocksUnlinked loses none of those that wait.
THEOREM LinksAreExact ==
    ASSUME Regular
    PROVE  Spec => []LinkedExact
<1>1. IInv => LinkedExact
  BY InvariantImplies
<1> QED
  BY <1>1, InductiveInvariant, PTL

\* In memory and on disk a block marked failed descends from an invalid one, so
\* no crash and no reconsiderblock leaves a valid branch locked out.
THEOREM FailuresHaveCauses ==
    ASSUME Regular
    PROVE  Spec => []FailureHasCause
<1>1. IInv => FailureHasCause
  BY InvariantImplies
<1> QED
  BY <1>1, InductiveInvariant, PTL

\* The active chain has no failed and no invalid block, in the middle of
\* ActivateBestChain and after a restart too.
THEOREM ActiveChainIsValid ==
    ASSUME Regular
    PROVE  Spec => []ActiveChainValid
<1>1. IInv => ActiveChainValid
  BY InvariantImplies
<1> QED
  BY <1>1, InductiveInvariant, PTL

\* PruneBlockIndexCandidates always leaves a candidate and a block of
\* g_failed_blocks is marked invalid: the assertions never fail.
THEOREM NoAssertionFails ==
    ASSUME Regular
    PROVE  Spec => []NoAssertFails
<1>1. IInv => NoAssertFails
  BY InvariantImplies
<1> QED
  BY <1>1, InductiveInvariant, PTL

\* When ActivateBestChain returns, no linked block with good ancestors sorts
\* better than the tip.
THEOREM ActivationReachesTheBest ==
    ASSUME Regular
    PROVE  Spec => BestChainActivated
<1> DEFINE A == active /\ ~active' /\ crashes' = crashes =>
                  \A b \in linked' : (ChainTo[b] \cap Failed(idx)' = {}) => ~Worse(seq, tip', b)
<1>1. IInv /\ [Next]_vars => [A]_vars
  <2> SUFFICES ASSUME IInv, Next, active, ~active', crashes' = crashes
               PROVE  \A b \in linked' : (ChainTo[b] \cap Failed(idx)' = {}) => ~Worse(seq, tip', b)
    OBVIOUS
  <2>1. ~Restart
    <3>1. crashes \in 0..MaxCrashes /\ MaxCrashes \in Nat
      BY Zenon, IndexAssumption DEF IInv, TypeOK
    <3>2. crashes' # crashes + 1
      BY <3>1
    <3> QED
      BY Zenon, <3>2 DEF Restart
  <2>2. ActivateBestChainStep
    BY Zenon, <2>1 DEF Next, AcceptBlockHeader, AcceptBlock, InvalidateBlock, ResetBlockFailureFlags,
                PreciousBlock, ActivateBestChain, WriteIndex, FlushStateToDisk, MayRun, Regular
  <2>3. TipIsBest /\ linked' = linked
    BY Zenon, <2>2, StepKeeps DEF ActivateBestChainStep
  <2> QED
    BY <2>3 DEF TipIsBest
<1> QED
  BY <1>1, InductiveInvariant, PTL DEF Spec, BestChainActivated
=============================================================================
