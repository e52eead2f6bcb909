--------------------------- MODULE BlockTreeProof ---------------------------
(***************************************************************************)
(* What the proofs about BlockIndex, ChainRecovery and BlockDownload need  *)
(* to know of the block tree, for any tree of blocks.  Induction along     *)
(* pprev is the last conjunct of TreeAssumption applied to the set of      *)
(* counterexamples.  The recursive functions Height and ChainTo are        *)
(* well-defined because a fixpoint can be given outright: the chain to b   *)
(* is what every set with b that is closed under Parent has in common, and *)
(* the height of b is its number when its chain is numbered from 0.        *)
(***************************************************************************)
EXTENDS BlockTree, WellFoundedInduction, TLAPS

Closed(S) == \A x \in S : Parent[x] \in S \cup {Null}

Ancestry(b) ==
    IF b = Null THEN {}
    ELSE {a \in Block : \A S \in SUBSET Block : (b \in S /\ Closed(S)) => a \in S}

\* h numbers the chain of b.
Numbers(h, b) ==
    /\ h \in [ChainTo[b] -> Int]
    /\ \A x \in ChainTo[b] : h[x] = IF Parent[x] = Null THEN 0 ELSE h[Parent[x]] + 1

Numbering(b) == CHOOSE h : Numbers(h, b)

\* Induction along pprev: a set that holds every block whose parent it holds,
\* or that has none, holds all blocks.
LEMMA TreeInduction ==
    ASSUME NEW S,
           \A b \in Block : (Parent[b] = Null \/ Parent[b] \in S) => b \in S
    PROVE  Block \subseteq S
<1>1. ASSUME Block \ S # {} PROVE FALSE
  <2>1. PICK x \in Block \ S : Parent[x] \notin Block \ S
    BY <1>1, TreeAssumption
  <2>2. Parent[x] = Null \/ Parent[x] \in S
    BY <2>1, TreeAssumption
  <2> QED
    BY <2>1, <2>2
<1> QED
  BY <1>1

\* The closed form of the chain satisfies the equation of ChainTo.
LEMMA AncestryStep ==
    ASSUME NEW b \in Block
    PROVE  /\ Parent[b] \in Block \cup {Null}
           /\ Ancestry(b) = {b} \cup Ancestry(Parent[b])
<1>1. b # Null /\ Parent[b] \in Block \cup {Null}
  BY TreeAssumption
<1>2. ASSUME NEW a \in Ancestry(b), a # b PROVE a \in Ancestry(Parent[b])
  <2>1. a \in Block
    BY <1>1, <1>2 DEF Ancestry
  <2>2. CASE Parent[b] = Null
    <3>1. Closed({b}) /\ {b} \in SUBSET Block
      BY <2>2 DEF Closed
    <3> QED
      BY <1>1, <1>2, <3>1 DEF Ancestry
  <2>3. CASE Parent[b] # Null
    <3>1. ASSUME NEW S \in SUBSET Block, Parent[b] \in S, Closed(S) PROVE a \in S
      <4>1. S \cup {b} \in SUBSET Block /\ Closed(S \cup {b})
        BY <3>1 DEF Closed
      <4> QED
        BY <1>1, <1>2, <4>1 DEF Ancestry
    <3> QED
      BY <2>1, <2>3, <3>1 DEF Ancestry
  <2> QED
    BY <2>2, <2>3
<1>3. b \in Ancestry(b)
  BY <1>1 DEF Ancestry
<1>4. ASSUME NEW a \in Ancestry(Parent[b]) PROVE a \in Ancestry(b)
  <2>1. Parent[b] # Null /\ a \in Block
    BY <1>4 DEF Ancestry
  <2>2. ASSUME NEW S \in SUBSET Block, b \in S, Closed(S) PROVE a \in S
    <3>1. Parent[b] \in S
      BY <2>1, <2>2 DEF Closed
    <3> QED
      BY <1>4, <2>1, <2>2, <3>1 DEF Ancestry
  <2> QED
    BY <1>1, <2>1, <2>2 DEF Ancestry
<1> QED
  BY <1>1, <1>2, <1>3, <1>4

\* ChainTo is its closed form, so its equation holds: the walk along pprev
\* visits the block and what the walk from its parent visits.
LEMMA ChainToIs ==
    /\ ChainTo = [b \in Block \cup {Null} |-> ChainTo[b]]
    /\ \A b \in Block \cup {Null} : ChainTo[b] = Ancestry(b)
<1> DEFINE D == Block \cup {Null}
           Step(f) == [b \in D |-> IF b = Null THEN {} ELSE {b} \cup f[Parent[b]]]
           A == [b \in D |-> Ancestry(b)]
<1>1. A = Step(A)
  <2>1. ASSUME NEW b \in D PROVE A[b] = Step(A)[b]
    <3>1. CASE b = Null
      BY <3>1 DEF Ancestry
    <3>2. CASE b \in Block
      <4>1. b # Null /\ Parent[b] \in D /\ Ancestry(b) = {b} \cup Ancestry(Parent[b])
        BY <3>2, AncestryStep, TreeAssumption
      <4> QED
        BY <4>1
    <3> QED
      BY <3>1, <3>2
  <2> QED
    BY <2>1
<1>2. ChainTo = CHOOSE f : f = Step(f)
  BY DEF ChainTo
<1>3. ChainTo = Step(ChainTo)
  BY <1>1, <1>2
<1> DEFINE G == {b \in Block : ChainTo[b] = Ancestry(b)}
<1>4. ChainTo[Null] = Ancestry(Null)
  BY <1>3 DEF Ancestry
<1>5. ASSUME NEW b \in Block, Parent[b] = Null \/ Parent[b] \in G PROVE b \in G
  <2>1. b # Null /\ ChainTo[b] = {b} \cup ChainTo[Parent[b]]
    BY <1>3, TreeAssumption
  <2>2. ChainTo[Parent[b]] = Ancestry(Parent[b])
    BY <1>4, <1>5
  <2> QED
    BY <2>1, <2>2, AncestryStep
<1>6. Block \subseteq G
  <2> HIDE DEF G
  <2> QED BY <1>5, TreeInduction
<1> QED
  BY <1>3, <1>4, <1>6

\* The two equations of ChainTo, and its type.
LEMMA ChainToStep ==
    /\ ChainTo[Null] = {}
    /\ \A b \in Block : /\ Parent[b] \in Block \cup {Null}
                        /\ ChainTo[b] = {b} \cup ChainTo[Parent[b]]
                        /\ b \in ChainTo[b]
    /\ \A b \in Block \cup {Null} : ChainTo[b] \subseteq Block
<1>1. ChainTo[Null] = {}
  BY ChainToIs DEF Ancestry
<1>2. ASSUME NEW b \in Block
      PROVE  /\ Parent[b] \in Block \cup {Null}
             /\ ChainTo[b] = {b} \cup ChainTo[Parent[b]]
  <2>1. Parent[b] \in Block \cup {Null} /\ Ancestry(b) = {b} \cup Ancestry(Parent[b])
    BY AncestryStep
  <2>2. ChainTo[b] = Ancestry(b) /\ ChainTo[Parent[b]] = Ancestry(Parent[b])
    BY <2>1, ChainToIs
  <2> QED
    BY <2>1, <2>2
<1>3. ASSUME NEW b \in Block \cup {Null} PROVE ChainTo[b] \subseteq Block
  BY ChainToIs DEF Ancestry
<1> QED
  BY <1>1, <1>2, <1>3

\* The ancestors of an ancestor are ancestors (CBlockIndex::GetAncestor).
LEMMA ChainClosed ==
    ASSUME NEW b \in Block \cup {Null}, NEW a \in ChainTo[b]
    PROVE  ChainTo[a] \subseteq ChainTo[b]
<1> DEFINE G == {x \in Block : \A y \in ChainTo[x] : ChainTo[y] \subseteq ChainTo[x]}
<1>1. ASSUME NEW x \in Block, Parent[x] = Null \/ Parent[x] \in G PROVE x \in G
  <2>1. ChainTo[x] = {x} \cup ChainTo[Parent[x]]
    BY ChainToStep
  <2>2. \A y \in ChainTo[Parent[x]] : ChainTo[y] \subseteq ChainTo[Parent[x]]
    BY <1>1, ChainToStep
  <2> QED
    BY <2>1, <2>2
<1>2. Block \subseteq G
  <2> HIDE DEF G
  <2> QED BY <1>1, TreeInduction
<1> QED
  BY <1>2, ChainToStep

\* A block is not among its parent's ancestors.
LEMMA ParentBelow ==
    ASSUME NEW b \in Block
    PROVE  b \notin ChainTo[Parent[b]]
<1> DEFINE G == {x \in Block : x \notin ChainTo[Parent[x]]}
<1>1. ASSUME NEW x \in Block, Parent[x] = Null \/ Parent[x] \in G PROVE x \in G
  <2>1. SUFFICES ASSUME x \in ChainTo[Parent[x]] PROVE FALSE
    OBVIOUS
  <2>2. Parent[x] \in Block /\ Parent[x] \notin ChainTo[Parent[Parent[x]]]
    BY <1>1, <2>1, ChainToStep
  <2>3. ChainTo[x] \subseteq ChainTo[Parent[x]]
    BY <2>1, <2>2, ChainClosed
  <2>4. ChainTo[Parent[x]] = {Parent[x]} \cup ChainTo[Parent[Parent[x]]]
    BY <2>2, ChainToStep
  <2>5. CASE x = Parent[x]
    BY <2>1, <2>2, <2>5
  <2>6. CASE x \in ChainTo[Parent[Parent[x]]]
    <3>1. Parent[Parent[x]] \in Block \cup {Null}
      BY <2>2, ChainToStep
    <3>2. ChainTo[x] \subseteq ChainTo[Parent[Parent[x]]]
      BY <2>6, <3>1, ChainClosed
    <3>3. Parent[x] \in ChainTo[x]
      BY <2>2, ChainToStep
    <3> QED
      BY <2>2, <3>2, <3>3
  <2> QED
    BY <2>1, <2>4, <2>5, <2>6
<1>2. Block \subseteq G
  <2> HIDE DEF G
  <2> QED BY <1>1, TreeInduction
<1> QED
  BY <1>2

\* The parent of an ancestor is an ancestor.
LEMMA ParentInChain ==
    ASSUME NEW b \in Block, NEW a \in ChainTo[b]
    PROVE  Parent[a] = Null \/ Parent[a] \in ChainTo[b]
BY ChainToStep, ChainClosed

\* The equation of Height has a solution, and Height solves it: the chain of a
\* block can be numbered from the genesis block on, and two such numberings agree.
LEMMA HeightIs ==
    /\ Height[Null] = -1
    /\ \A b \in Block : Height[b] = 1 + Height[Parent[b]]
<1> DEFINE D == Block \cup {Null}
           Step(f) == [b \in D |-> IF b = Null THEN -1 ELSE 1 + f[Parent[b]]]
           Exists == {b \in Block : \E h : Numbers(h, b)}
           Unique == {x \in Block : \A b, c \in Block : \A h, k :
                          Numbers(h, b) /\ Numbers(k, c) /\ x \in ChainTo[b] \cap ChainTo[c]
                          => h[x] = k[x]}
           H == [b \in D |-> IF b = Null THEN -1 ELSE Numbering(b)[b]]
<1>1. ASSUME NEW b \in Block, Parent[b] = Null \/ Parent[b] \in Exists PROVE b \in Exists
  <2>1. b # Null /\ ChainTo[b] = {b} \cup ChainTo[Parent[b]] /\ ChainTo[Null] = {}
    BY ChainToStep, TreeAssumption
  <2>2. CASE Parent[b] = Null
    <3>1. Numbers([x \in ChainTo[b] |-> 0], b)
      BY <2>1, <2>2 DEF Numbers
    <3> QED
      BY <3>1
  <2>3. CASE Parent[b] \in Exists
    <3>1. PICK h : Numbers(h, Parent[b])
      BY <2>3
    <3> DEFINE k == [x \in ChainTo[b] |-> IF x = b THEN h[Parent[b]] + 1 ELSE h[x]]
    <3>2. Parent[b] \in ChainTo[Parent[b]] /\ Parent[b] # Null /\ b \notin ChainTo[Parent[b]]
      BY <2>3, ChainToStep, ParentBelow, TreeAssumption
    <3>3. \A x \in ChainTo[Parent[b]] : Parent[x] = Null \/ Parent[x] \in ChainTo[Parent[b]]
      BY <2>3, ParentInChain
    <3>4. k \in [ChainTo[b] -> Int]
      BY <2>1, <3>1, <3>2 DEF Numbers
    <3>5. k[b] = k[Parent[b]] + 1
      BY <2>1, <3>2
    <3>6. ASSUME NEW x \in ChainTo[Parent[b]]
          PROVE  k[x] = IF Parent[x] = Null THEN 0 ELSE k[Parent[x]] + 1
      BY <2>1, <3>1, <3>2, <3>3 DEF Numbers
    <3> HIDE DEF k
    <3>7. Numbers(k, b)
      BY <2>1, <3>2, <3>4, <3>5, <3>6 DEF Numbers
    <3> QED
      BY <3>7
  <2> QED
    BY <1>1, <2>2, <2>3
<1>2. Block \subseteq Exists
  <2> HIDE DEF Exists
  <2> QED BY <1>1, TreeInduction
<1>3. ASSUME NEW x \in Block, Parent[x] = Null \/ Parent[x] \in Unique PROVE x \in Unique
  <2> SUFFICES ASSUME NEW b \in Block, NEW c \in Block, NEW h, NEW k,
                      Numbers(h, b), Numbers(k, c), x \in ChainTo[b] \cap ChainTo[c]
               PROVE  h[x] = k[x]
    OBVIOUS
  <2>1. /\ h[x] = IF Parent[x] = Null THEN 0 ELSE h[Parent[x]] + 1
        /\ k[x] = IF Parent[x] = Null THEN 0 ELSE k[Parent[x]] + 1
    BY DEF Numbers
  <2>2. Parent[x] = Null \/ Parent[x] \in ChainTo[b] \cap ChainTo[c]
    BY ParentInChain
  <2>3. Parent[x] # Null => h[Parent[x]] = k[Parent[x]]
    BY <1>3, <2>2
  <2> QED
    BY <2>1, <2>3
<1>4. Block \subseteq Unique
  <2> HIDE DEF Unique
  <2> QED BY <1>3, TreeInduction
<1>5. ASSUME NEW b \in Block PROVE Numbers(Numbering(b), b)
  BY <1>2 DEF Numbering
<1>6. H = Step(H)
  <2>1. ASSUME NEW b \in Block PROVE H[b] = 1 + H[Parent[b]]
    <3>1. /\ b # Null /\ b \in ChainTo[b] /\ Parent[b] \in D
          /\ Parent[b] = Null \/ Parent[b] \in ChainTo[b] \cap ChainTo[Parent[b]]
      BY ChainToStep, TreeAssumption
    <3>2. /\ Numbering(b)[b] = IF Parent[b] = Null THEN 0 ELSE Numbering(b)[Parent[b]] + 1
          /\ \A x \in ChainTo[b] : Numbering(b)[x] \in Int
      BY <1>5, <3>1 DEF Numbers
    <3>3. CASE Parent[b] = Null
      BY <3>1, <3>2, <3>3
    <3>4. CASE Parent[b] # Null
      <4>1. Numbering(b)[Parent[b]] = Numbering(Parent[b])[Parent[b]]
        BY <1>4, <1>5, <3>1, <3>4
      <4> QED
        BY <3>1, <3>2, <3>4, <4>1
    <3> QED
      BY <3>3, <3>4
  <2>2. \A b \in D : H[b] = Step(H)[b]
    BY <2>1, TreeAssumption
  <2> HIDE DEF H
  <2>3. H = [b \in D |-> H[b]]
    BY DEF H
  <2> QED
    BY <2>2, <2>3
<1>7. Height = CHOOSE f : f = Step(f)
  BY DEF Height
<1>8. Height = Step(Height)
  <2> HIDE DEF H
  <2> QED BY <1>6, <1>7
<1> QED
  BY <1>8, TreeAssumption

\* A height is a natural number, and -1 for no block.
LEMMA HeightType ==
    /\ Height[Null] = -1
    /\ \A b \in Block : Height[b] \in Nat
    /\ \A b \in Block \cup {Null} : Height[b] \in Int
<1> DEFINE G == {x \in Block : Height[x] \in Nat}
<1>1. ASSUME NEW b \in Block, Parent[b] = Null \/ Parent[b] \in G PROVE b \in G
  BY <1>1, HeightIs
<1>2. Block \subseteq G
  <2> HIDE DEF G
  <2> QED BY <1>1, TreeInduction
<1> QED
  BY <1>2, HeightIs

\* A block is one higher than its parent.
LEMMA HeightStep ==
    ASSUME NEW b \in Block
    PROVE  /\ Height[b] = Height[Parent[b]] + 1
           /\ Height[b] \in Nat /\ Height[Parent[b]] \in Int
BY HeightIs, HeightType, ChainToStep

\* A proper ancestor is an ancestor of the parent.
LEMMA ProperAncestor ==
    ASSUME NEW b \in Block, NEW a \in ChainTo[b], a # b
    PROVE  a \in ChainTo[Parent[b]] /\ Parent[b] \in Block
BY ChainToStep

\* A proper ancestor is lower.
LEMMA ChainHeights ==
    ASSUME NEW b \in Block, NEW a \in ChainTo[b]
    PROVE  /\ a \in Block /\ Height[a] <= Height[b]
           /\ Height[a] = Height[b] => a = b
<1> DEFINE G == {x \in Block : \A y \in ChainTo[x] : y # x => Height[y] < Height[x]}
<1>1. ASSUME NEW x \in Block, Parent[x] = Null \/ Parent[x] \in G PROVE x \in G
  <2>1. SUFFICES ASSUME NEW y \in ChainTo[x], y # x PROVE Height[y] < Height[x]
    OBVIOUS
  <2>2. y \in ChainTo[Parent[x]] /\ Parent[x] \in G /\ Parent[x] \in Block /\ y \in Block
    BY <1>1, <2>1, ProperAncestor, ChainToStep
  <2>3. y = Parent[x] \/ Height[y] < Height[Parent[x]]
    BY <2>2
  <2>4. Height[x] = Height[Parent[x]] + 1 /\ Height[Parent[x]] \in Int /\ Height[y] \in Int
    BY <2>2, HeightStep, HeightType
  <2> QED
    BY <2>3, <2>4
<1>2. Block \subseteq G
  <2> HIDE DEF G
  <2> QED BY <1>1, TreeInduction
<1>3. a \in Block /\ (a # b => Height[a] < Height[b])
  BY <1>2, ChainToStep
<1>4. Height[a] \in Int /\ Height[b] \in Int
  BY <1>3, HeightType
<1> QED
  BY <1>3, <1>4

\* The ancestors of one block are on one line: of two of them the lower one is
\* an ancestor of the other.
LEMMA ChainLinear ==
    ASSUME NEW b \in Block, NEW a \in ChainTo[b], NEW c \in ChainTo[b],
           Height[a] <= Height[c]
    PROVE  a \in ChainTo[c]
<1> DEFINE G == {x \in Block : \A y, z \in ChainTo[x] : y \in ChainTo[z] \/ z \in ChainTo[y]}
<1>1. ASSUME NEW x \in Block, Parent[x] = Null \/ Parent[x] \in G PROVE x \in G
  <2>1. ChainTo[x] = {x} \cup ChainTo[Parent[x]] /\ ChainTo[Null] = {}
    BY ChainToStep
  <2>2. \A y, z \in ChainTo[Parent[x]] : y \in ChainTo[z] \/ z \in ChainTo[y]
    BY <1>1, <2>1
  <2> QED
    BY <2>1, <2>2
<1>2. Block \subseteq G
  <2> HIDE DEF G
  <2> QED BY <1>1, TreeInduction
<1>3. a \in ChainTo[c] \/ c \in ChainTo[a]
  BY <1>2
<1>4. a \in Block /\ c \in Block
  BY ChainToStep
<1>5. CASE c \in ChainTo[a]
  <2>1. Height[c] <= Height[a] /\ (Height[c] = Height[a] => c = a)
    BY <1>4, <1>5, ChainHeights
  <2>2. Height[c] \in Int /\ Height[a] \in Int
    BY <1>4, HeightType
  <2>3. c = a
    BY <2>1, <2>2
  <2> QED
    BY <1>5, <2>3
<1> QED
  BY <1>3, <1>5

\* Two ancestors of one block that have the same height are the same.
LEMMA ChainAtHeight ==
    ASSUME NEW b \in Block, NEW a \in ChainTo[b], NEW c \in ChainTo[b],
           Height[a] = Height[c]
    PROVE  a = c
<1>1. a \in Block /\ c \in Block /\ Height[a] \in Int
  BY ChainToStep, HeightType
<1>2. a \in ChainTo[c]
  BY <1>1, ChainLinear
<1> QED
  BY <1>1, <1>2, ChainHeights

\* The genesis block is alone in its chain, is in every other one, and is the
\* only block of height 0.
LEMMA GenesisChain ==
    /\ ChainTo[Genesis] = {Genesis} /\ Height[Genesis] = 0
    /\ \A b \in Block : Genesis \in ChainTo[b]
    /\ \A b \in Block : Height[b] = 0 => b = Genesis
<1>1. ChainTo[Genesis] = {Genesis} /\ Height[Genesis] = 0
  BY TreeAssumption, ChainToStep, HeightStep, HeightType
<1> DEFINE G == {x \in Block : Genesis \in ChainTo[x]}
<1>2. ASSUME NEW x \in Block, Parent[x] = Null \/ Parent[x] \in G PROVE x \in G
  <2>1. CASE Parent[x] = Null
    <3>1. x = Genesis
      BY <2>1, TreeAssumption
    <3> QED
      BY <1>1, <3>1
  <2>2. CASE Parent[x] \in G
    BY <2>2, ChainToStep
  <2> QED
    BY <1>2, <2>1, <2>2
<1>3. Block \subseteq G
  <2> HIDE DEF G
  <2> QED BY <1>2, TreeInduction
<1>4. \A b \in Block : Genesis \in ChainTo[b]
  BY <1>3
<1>5. \A b \in Block : Height[b] = 0 => b = Genesis
  BY <1>1, <1>4, ChainHeights
<1> QED
  BY <1>1, <1>4, <1>5

\* A block has an ancestor at every height up to its own (GetAncestor).
LEMMA AncestorAt ==
    ASSUME NEW b \in Block, NEW h \in Nat, h <= Height[b]
    PROVE  \E a \in ChainTo[b] : Height[a] = h
<1> DEFINE G == {x \in Block : \A k \in Nat : k <= Height[x] => \E a \in ChainTo[x] : Height[a] = k}
<1>1. ASSUME NEW x \in Block, Parent[x] = Null \/ Parent[x] \in G PROVE x \in G
  <2>1. SUFFICES ASSUME NEW k \in Nat, k <= Height[x] PROVE \E a \in ChainTo[x] : Height[a] = k
    OBVIOUS
  <2>2. /\ Height[x] \in Nat /\ Height[Parent[x]] \in Int
        /\ Height[x] = Height[Parent[x]] + 1 /\ Height[Null] = -1
    BY HeightStep, HeightType
  <2>3. CASE k = Height[x]
    BY <2>3, ChainToStep
  <2>4. CASE k # Height[x]
    <3>1. k <= Height[Parent[x]]
      BY <2>1, <2>2, <2>4
    <3>2. Parent[x] \in G
      BY <1>1, <2>2, <3>1
    <3>3. PICK a \in ChainTo[Parent[x]] : Height[a] = k
      BY <3>1, <3>2
    <3> QED
      BY <3>3, ChainToStep
  <2> QED
    BY <2>3, <2>4
<1>2. Block \subseteq G
  <2> HIDE DEF G
  <2> QED BY <1>1, TreeInduction
<1> QED
  BY <1>2

\* A set of natural numbers has a least one.
LEMMA LeastNat ==
    ASSUME NEW S, S \subseteq Nat, S # {}
    PROVE  \E n \in S : \A m \in S : n <= m
<1> DEFINE R == OpToRel(<, Nat)
<1>1. PICK n \in S : \A m \in S : <<m, n>> \notin R
  <2>1. IsWellFoundedOn(R, Nat)
    BY NatLessThanWellFounded
  <2> HIDE DEF R
  <2> QED BY <2>1, WFMin
<1>2. ASSUME NEW m \in S PROVE n <= m
  <2>1. m \in Nat /\ n \in Nat /\ <<m, n>> \notin R
    BY <1>1
  <2>2. ~(m < n)
    BY <2>1, Zenon DEF OpToRel
  <2> HIDE DEF R
  <2> QED
    BY <2>1, <2>2
<1> QED
  BY <1>2

\* A set of blocks has a lowest one.
LEMMA LowestBlock ==
    ASSUME NEW S, S \subseteq Block, S # {}
    PROVE  \E x \in S : \A y \in S : Height[x] <= Height[y]
<1> DEFINE H == {Height[x] : x \in S}
<1>1. H \subseteq Nat /\ H # {}
  BY HeightType
<1>2. PICK n \in H : \A m \in H : n <= m
  <2> HIDE DEF H
  <2> QED BY <1>1, LeastNat
<1>3. PICK x \in S : Height[x] = n
  BY <1>2
<1> QED
  BY <1>2, <1>3

\* So has a chain, or a part of one, a highest one.
LEMMA HighestBlock ==
    ASSUME NEW b \in Block, NEW S, S \subseteq ChainTo[b], S # {}
    PROVE  \E x \in S : \A y \in S : Height[y] <= Height[x]
<1> DEFINE H == {Height[b] - Height[x] : x \in S}
<1>1. \A x \in S : Height[x] \in Nat /\ Height[x] <= Height[b]
  BY ChainHeights, HeightType
<1>2. Height[b] \in Nat
  BY HeightType
<1>3. H \subseteq Nat /\ H # {}
  BY <1>1, <1>2
<1>4. PICK n \in H : \A m \in H : n <= m
  <2> HIDE DEF H
  <2> QED BY <1>3, LeastNat
<1>5. PICK x \in S : Height[b] - Height[x] = n
  BY <1>4
<1>6. ASSUME NEW y \in S PROVE Height[y] <= Height[x]
  <2>1. Height[b] - Height[x] <= Height[b] - Height[y]
    BY <1>4, <1>5
  <2> QED
    BY <1>1, <1>2, <2>1
<1> QED
  BY <1>6
=============================================================================
