------------------------ MODULE BlockDownloadProof -------------------------
(***************************************************************************)
(* Proofs about BlockDownload, for any finite sets of peers and blocks.    *)
(* The bookkeeping of requests is a value f of the variable flight; what   *)
(* MarkBlockAsReceived, MarkBlockAsInFlight, FinalizeNode and the blame of *)
(* a staller do to it is proved once each, for any f, and every handler    *)
(* is a combination of them.                                               *)
(***************************************************************************)
EXTENDS BlockDownload, BlockTreeProof, FiniteSetTheorems, SequenceTheorems

Typed(f) ==
    f \in [queue : [Peer -> Seq(Block)], partial : SUBSET Block,
           inFlight : [Block -> Peer \cup {Nobody}],
           nBlocksInFlight : [Peer -> Nat], nValidHeaders : [Peer -> Nat], nPeers : Nat,
           stalling : [Peer -> Int], since : [Peer -> Int]]

Stalls(f) == \A p \in Peer : f.stalling[p] # Off => f.queue[p] # <<>>

FlightOK(f) == Typed(f) /\ QueuesExact(f) /\ CountersExact(f) /\ Stalls(f)

Asked(f) == {p \in Peer : f.queue[p] # <<>>}

SyncOK(s, N, R) ==
    /\ s \in [preferred : SUBSET Peer, nPreferredDownload : Int, started : SUBSET Peer,
              nSyncStarted : Int, timer : [Peer -> Int]]
    /\ s.preferred \subseteq R /\ s.nPreferredDownload = Cardinality(s.preferred)
    /\ s.started \subseteq N /\ s.nSyncStarted = Cardinality(s.started)

\* The blocks a peer is known to have are blocks of the index.
AvailOK(a) ==
    \E best, unknown \in [Peer -> Block \cup {Null}] : \E common :
      a = [best |-> best, unknown |-> unknown, common |-> common]

NodesOK ==
    /\ nodes \subseteq used /\ used \subseteq Peer
    /\ closing \subseteq nodes /\ ready \subseteq nodes

IInv ==
    /\ NodesOK
    /\ SyncOK(sync, nodes, ready)
    /\ AvailOK(avail)
    /\ FlightOK(flight) /\ Asked(flight) \subseteq nodes

\* The index part of the state: the tip's chain has been downloaded.
ChainOK(c) ==
    /\ c \in [known : SUBSET Block, data : SUBSET Block, invalid : SUBSET Block, tip : Block]
    /\ Genesis \in c.data /\ ChainTo[c.tip] \subseteq c.data

Full(c) == {x \in Block \cup {Null} : ChainTo[x] \subseteq c.data}

Timed(f) ==
    /\ f.stalling \in [Peer -> Off..(StallTimeout + 1)]
    /\ f.since \in [Peer -> 0..MaxAge]

\* What IInv leaves open: the ages, and which blocks the node has.
Bounds ==
    /\ peerBlocks \in ClaimedHeights \cup {0}
    /\ sync.timer \in [Peer -> Off..(HeadersTimeout + 1)]
    /\ avail.common \in [Peer -> Full(chain)]
    /\ Timed(flight)
    /\ ChainOK(chain)

-----------------------------------------------------------------------------
(* Finite sets and sequences.                                              *)

\* A set of peers is finite; one peer joins or leaves it.
LEMMA PeerCount ==
    ASSUME NEW S, S \subseteq Peer, NEW x
    PROVE  /\ IsFiniteSet(S) /\ Cardinality(S) \in Nat
           /\ x \notin S => Cardinality(S \cup {x}) = Cardinality(S) + 1
           /\ x \in S => Cardinality(S \ {x}) = Cardinality(S) - 1
<1>1. IsFiniteSet(S)
  BY DownloadAssumption, FS_Subset
<1> QED BY <1>1, FS_AddElement, FS_RemoveElement, FS_CardinalityType

\* A peer is counted out of a set that it may or may not be in.
LEMMA PeerLeaves ==
    ASSUME NEW S, S \subseteq Peer, NEW x
    PROVE  /\ Cardinality(S) - (IF x \in S THEN 1 ELSE 0) = Cardinality(S \ {x})
           /\ Cardinality(S) - (IF x \in S THEN 1 ELSE 0) \in Int
<1>1. Cardinality(S) \in Nat /\ (x \in S => Cardinality(S \ {x}) = Cardinality(S) - 1)
  BY Zenon, PeerCount
<1> DEFINE T == S \ {x}
<1>2. x \notin S => T = S
  OBVIOUS
<1> HIDE DEF T
<1>3. /\ Cardinality(S) - (IF x \in S THEN 1 ELSE 0) = Cardinality(T)
      /\ Cardinality(S) - (IF x \in S THEN 1 ELSE 0) \in Int
  <2>1. x \in S => Cardinality(T) = Cardinality(S) - 1
    BY <1>1 DEF T
  <2> QED BY <1>1, <1>2, <2>1
<1> QED BY <1>3 DEF T

\* A function on 1..n is a sequence of length n.
LEMMA FunctionIsSeq ==
    ASSUME NEW S, NEW n \in Nat, NEW w \in [1..n -> S]
    PROVE  w \in Seq(S) /\ Len(w) = n /\ DOMAIN w = 1..n
<1>1. w \in Seq(S)
  BY SeqDef
<1>2. Len(w) \in Nat /\ 1..Len(w) = 1..n
  BY <1>1, LenProperties
<1>3. Len(w) = n
  <2>1. CASE Len(w) < n
    <3>1. n \in 1..n /\ n \notin 1..Len(w)
      BY <2>1, <1>2
    <3> QED BY <3>1, <1>2
  <2>2. CASE n < Len(w)
    <3>1. Len(w) \in 1..Len(w) /\ Len(w) \notin 1..n
      BY <2>2, <1>2
    <3> QED BY <3>1, <1>2
  <2> QED BY <2>1, <2>2, <1>2
<1> QED BY <1>1, <1>3

\* Taking one entry out of a queue without repetition takes its block out.
LEMMA WithoutOne ==
    ASSUME NEW q \in Seq(Block), NEW i \in DOMAIN q,
           \A j, k \in DOMAIN q : q[j] = q[k] => j = k
    PROVE  /\ Without(q, i) \in Seq(Block)
           /\ Len(Without(q, i)) = Len(q) - 1
           /\ \A j, k \in DOMAIN Without(q, i) :
                Without(q, i)[j] = Without(q, i)[k] => j = k
           /\ \A b : (\E j \in DOMAIN Without(q, i) : Without(q, i)[j] = b)
                       <=> (b # q[i] /\ \E j \in DOMAIN q : q[j] = b)
<1> DEFINE w == Without(q, i)
           n == Len(q)
<1>1. n \in Nat /\ DOMAIN q = 1..n /\ i \in 1..n /\ n - 1 \in Nat
  OBVIOUS
<1>2. w = [j \in 1..(n - 1) |-> IF j < i THEN q[j] ELSE q[j + 1]]
  BY DEF Without
<1>3. \A j \in 1..(n - 1) : w[j] = (IF j < i THEN q[j] ELSE q[j + 1]) /\ w[j] \in Block
  BY <1>1, <1>2
<1>4. w \in Seq(Block) /\ Len(w) = n - 1 /\ DOMAIN w = 1..(n - 1)
  <2>1. w \in [1..(n - 1) -> Block]
    BY <1>2, <1>3
  <2> HIDE DEF w
  <2> QED BY Zenon, <2>1, <1>1, FunctionIsSeq
<1>5. \A j, k \in DOMAIN w : w[j] = w[k] => j = k
  <2> DEFINE at(j) == IF j < i THEN j ELSE j + 1
  <2> HIDE DEF w
  <2> TAKE j, k \in DOMAIN w
  <2>1. at(j) \in DOMAIN q /\ at(k) \in DOMAIN q /\ w[j] = q[at(j)] /\ w[k] = q[at(k)]
    BY <1>1, <1>3, <1>4
  <2>2. w[j] = w[k] => at(j) = at(k)
    <3> HIDE DEF at
    <3> QED BY Zenon, <2>1
  <2>3. at(j) = at(k) => j = k
    BY <1>1, <1>4
  <2> QED BY <2>2, <2>3
<1>6. ASSUME NEW j \in DOMAIN w
      PROVE  w[j] # q[i] /\ \E k \in DOMAIN q : q[k] = w[j]
  <2> HIDE DEF w
  <2>1. CASE j < i
    <3>1. w[j] = q[j] /\ j \in DOMAIN q /\ j # i
      BY <2>1, <1>1, <1>3, <1>4
    <3> QED BY <3>1
  <2>2. CASE ~(j < i)
    <3>1. w[j] = q[j + 1] /\ j + 1 \in DOMAIN q /\ j + 1 # i
      BY <2>2, <1>1, <1>3, <1>4
    <3> QED BY <3>1
  <2> QED BY <2>1, <2>2
<1>7. ASSUME NEW k \in DOMAIN q, q[k] # q[i]
      PROVE  \E j \in DOMAIN w : w[j] = q[k]
  <2> HIDE DEF w
  <2>1. CASE k < i
    <3>1. k \in DOMAIN w /\ w[k] = q[k]
      BY <2>1, <1>1, <1>3, <1>4
    <3> QED BY <3>1
  <2>2. CASE ~(k < i)
    <3>1. k # i
      BY <1>7
    <3>2. k - 1 \in DOMAIN w /\ w[k - 1] = q[k]
      BY <2>2, <3>1, <1>1, <1>3, <1>4
    <3> QED BY <3>2
  <2> QED BY <2>1, <2>2
<1> HIDE DEF w
<1>8. \A b : (\E j \in DOMAIN w : w[j] = b) <=> (b # q[i] /\ \E j \in DOMAIN q : q[j] = b)
  BY <1>6, <1>7
<1> QED BY <1>4, <1>5, <1>8 DEF w

\* Appending a list that has no element in common with a list without repetitions.
LEMMA ConcatOnce ==
    ASSUME NEW S, NEW q \in Seq(S), NEW l \in Seq(S),
           \A j, k \in DOMAIN q : q[j] = q[k] => j = k,
           \A j, k \in DOMAIN l : l[j] = l[k] => j = k,
           \A j \in DOMAIN q, k \in DOMAIN l : q[j] # l[k]
    PROVE  LET w == q \o l IN
           /\ w \in Seq(S) /\ Len(w) = Len(q) + Len(l)
           /\ \A j, k \in DOMAIN w : w[j] = w[k] => j = k
           /\ \A x : (\E j \in DOMAIN w : w[j] = x)
                      <=> (\E j \in DOMAIN q : q[j] = x) \/ (\E j \in DOMAIN l : l[j] = x)
<1> DEFINE w == q \o l
<1>1. /\ w \in Seq(S) /\ Len(w) = Len(q) + Len(l)
      /\ Len(q) \in Nat /\ Len(l) \in Nat
      /\ DOMAIN q = 1..Len(q) /\ DOMAIN l = 1..Len(l) /\ DOMAIN w = 1..(Len(q) + Len(l))
      /\ \A j \in 1..(Len(q) + Len(l)) : w[j] = IF j <= Len(q) THEN q[j] ELSE l[j - Len(q)]
  OBVIOUS
<1> HIDE DEF w
<1>2. ASSUME NEW j \in DOMAIN w
      PROVE  \/ j \in DOMAIN q /\ w[j] = q[j]
             \/ j - Len(q) \in DOMAIN l /\ w[j] = l[j - Len(q)] /\ j > Len(q)
  BY <1>1
<1>3. \A j, k \in DOMAIN w : w[j] = w[k] => j = k
  <2> SUFFICES ASSUME NEW j \in DOMAIN w, NEW k \in DOMAIN w, w[j] = w[k] PROVE j = k
    OBVIOUS
  <2>1. CASE j \in DOMAIN q /\ k \in DOMAIN q
    BY <1>1, <1>2, <2>1
  <2>2. CASE j \notin DOMAIN q /\ k \notin DOMAIN q
    <3>1. j - Len(q) \in DOMAIN l /\ k - Len(q) \in DOMAIN l /\ l[j - Len(q)] = l[k - Len(q)]
      BY <1>2, <2>2
    <3>2. j - Len(q) = k - Len(q)
      BY <3>1
    <3> QED BY <1>1, <3>2
  <2>3. CASE j \in DOMAIN q /\ k \notin DOMAIN q
    BY <1>1, <1>2, <2>3
  <2>4. CASE j \notin DOMAIN q /\ k \in DOMAIN q
    BY <1>1, <1>2, <2>4
  <2> QED BY <2>1, <2>2, <2>3, <2>4
<1>4. ASSUME NEW j \in DOMAIN q PROVE j \in DOMAIN w /\ w[j] = q[j]
  BY <1>1
<1>5. ASSUME NEW j \in DOMAIN l PROVE j + Len(q) \in DOMAIN w /\ w[j + Len(q)] = l[j]
  BY <1>1
<1>6. \A x : (\E j \in DOMAIN w : w[j] = x)
             <=> (\E j \in DOMAIN q : q[j] = x) \/ (\E j \in DOMAIN l : l[j] = x)
  BY <1>2, <1>4, <1>5
<1> QED BY Zenon, <1>1, <1>3, <1>6 DEF w

-----------------------------------------------------------------------------
(* What each operation does to the requests.                               *)

\* A peer was asked for blocks iff its counter is not 0; the count of such peers.
LEMMA AskedCount ==
    ASSUME NEW f, FlightOK(f)
    PROVE  /\ \A p \in Peer : f.queue[p] \in Seq(Block) /\ Len(f.queue[p]) \in Nat
                              /\ (f.queue[p] = <<>> <=> Len(f.queue[p]) = 0)
           /\ Asked(f) \subseteq Peer /\ f.nPeers = Cardinality(Asked(f))
<1>1. \A p \in Peer : f.queue[p] \in Seq(Block)
  BY DEF FlightOK, Typed
<1>2. \A p \in Peer : Len(f.queue[p]) \in Nat /\ (f.queue[p] = <<>> <=> Len(f.queue[p]) = 0)
  BY <1>1, EmptySeq, LenProperties
<1>3. Asked(f) \subseteq Peer /\ f.nPeers = Cardinality(Asked(f))
  BY DEF FlightOK, CountersExact, Asked
<1> QED BY <1>1, <1>2, <1>3

\* MarkBlockAsReceived keeps the bookkeeping exact, whichever peer had the block.
LEMMA ReceivedOK ==
    ASSUME NEW f, FlightOK(f), NEW b \in Block
    PROVE  /\ FlightOK(MarkBlockAsReceived(f, b))
           /\ Asked(MarkBlockAsReceived(f, b)) \subseteq Asked(f)
<1> DEFINE p == f.inFlight[b]
           i == CHOOSE i \in DOMAIN f.queue[p] : f.queue[p][i] = b
           g == MarkBlockAsReceived(f, b)
<1>1. CASE p = Nobody
  BY <1>1 DEF MarkBlockAsReceived
<1>2. CASE p # Nobody
  <2> DEFINE q == f.queue[p]
  <2>1. p \in Peer /\ q \in Seq(Block)
    BY <1>2 DEF FlightOK, Typed
  <2>2. i \in DOMAIN q /\ q[i] = b
    BY <2>1 DEF FlightOK, QueuesExact
  <2>3. /\ g.queue = [f.queue EXCEPT ![p] = Without(q, i)]
        /\ g.partial = f.partial \ {b}
        /\ g.inFlight = [f.inFlight EXCEPT ![b] = Nobody]
        /\ g.nBlocksInFlight = [f.nBlocksInFlight EXCEPT ![p] = @ - 1]
        /\ g.nValidHeaders = [f.nValidHeaders EXCEPT ![p] = @ - 1]
        /\ g.nPeers = IF f.nValidHeaders[p] = 1 THEN f.nPeers - 1 ELSE f.nPeers
        /\ g.stalling = [f.stalling EXCEPT ![p] = Off]
        /\ g.since = [f.since EXCEPT ![p] = IF i = 1 THEN 0 ELSE @]
        /\ g = [queue |-> g.queue, partial |-> g.partial, inFlight |-> g.inFlight,
                nBlocksInFlight |-> g.nBlocksInFlight, nValidHeaders |-> g.nValidHeaders,
                nPeers |-> g.nPeers, stalling |-> g.stalling, since |-> g.since]
    BY Zenon, <1>2 DEF MarkBlockAsReceived, NotStalling, FlightOK, Typed
  <2> DEFINE w == Without(q, i)
  <2>4. /\ w \in Seq(Block) /\ Len(w) = Len(q) - 1
        /\ \A j, k \in DOMAIN w : w[j] = w[k] => j = k
        /\ \A x : (\E j \in DOMAIN w : w[j] = x) <=> (x # b /\ \E j \in DOMAIN q : q[j] = x)
    <3>1. \A j, k \in DOMAIN q : q[j] = q[k] => j = k
      BY <2>1 DEF FlightOK, QueuesExact
    <3> HIDE DEF i, q
    <3>2. /\ w \in Seq(Block) /\ Len(w) = Len(q) - 1
          /\ \A j, k \in DOMAIN w : w[j] = w[k] => j = k
          /\ \A x : (\E j \in DOMAIN w : w[j] = x) <=> (x # q[i] /\ \E j \in DOMAIN q : q[j] = x)
      BY Zenon, <2>1, <2>2, <3>1, WithoutOne
    <3> HIDE DEF w
    <3> QED BY <2>2, <3>2
  <2>5. Len(q) \in Nat \ {0} /\ f.nBlocksInFlight[p] = Len(q) /\ f.nValidHeaders[p] = Len(q)
    <3>1. f.nBlocksInFlight[p] = Len(q) /\ f.nValidHeaders[p] = Len(q)
      BY <2>1 DEF FlightOK, CountersExact
    <3> HIDE DEF i, q, p
    <3>2. Len(q) \in Nat /\ Len(q) # 0
      BY <2>1, <2>2, LenProperties
    <3> QED BY <3>1, <3>2
  <2>6. /\ g.queue[p] = w
        /\ \A r \in Peer : r # p => g.queue[r] = f.queue[r]
        /\ \A x \in Block : g.inFlight[x] = IF x = b THEN Nobody ELSE f.inFlight[x]
    <3> HIDE DEF g
    <3>1. f.queue \in [Peer -> Seq(Block)] /\ f.inFlight \in [Block -> Peer \cup {Nobody}]
      BY DEF FlightOK, Typed
    <3>2. g.queue = [f.queue EXCEPT ![p] = w] /\ g.inFlight = [f.inFlight EXCEPT ![b] = Nobody]
      BY Zenon, <2>3
    <3>3. p \in Peer
      BY <2>1
    <3> HIDE DEF p, q, i, w
    <3> QED BY <3>1, <3>2, <3>3
  <2>7. f.queue[p] = q /\ f.inFlight[b] = p
    OBVIOUS
  <2> HIDE DEF g, i, p, q, w
  <2>8. w = <<>> <=> Len(q) = 1
    BY <2>4, <2>5, EmptySeq
  <2>9. Asked(g) = (IF Len(q) = 1 THEN Asked(f) \ {p} ELSE Asked(f)) /\ p \in Asked(f)
    BY <2>1, <2>5, <2>6, <2>7, <2>8, AskedCount DEF Asked
  <2>10. g.nPeers = Cardinality(Asked(g)) /\ g.nPeers \in Nat
    <3>1. Asked(f) \subseteq Peer /\ f.nPeers = Cardinality(Asked(f))
      BY AskedCount
    <3>2. Cardinality(Asked(f)) \in Nat /\ Cardinality(Asked(f) \ {p}) = Cardinality(Asked(f)) - 1
      BY <3>1, <2>9, PeerCount
    <3>3. Asked(f) \ {p} \subseteq Peer
      BY <3>1
    <3>4. Cardinality(Asked(f) \ {p}) \in Nat
      BY Zenon, <3>3, PeerCount
    <3> QED BY <2>3, <2>5, <2>9, <3>1, <3>2, <3>4
  <2>11. Typed(g)
    <3>1. g.queue \in [Peer -> Seq(Block)] /\ g.partial \in SUBSET Block
      <4>1. f.queue \in [Peer -> Seq(Block)] /\ f.partial \in SUBSET Block
        BY DEF FlightOK, Typed
      <4>2. g.queue = [f.queue EXCEPT ![p] = w] /\ g.partial = f.partial \ {b}
        BY <2>3 DEF w
      <4>3. w \in Seq(Block)
        BY <2>4
      <4> QED BY Zenon, <4>1, <4>2, <4>3
    <3>2. g.inFlight \in [Block -> Peer \cup {Nobody}]
      BY <2>3 DEF FlightOK, Typed
    <3>3. g.nBlocksInFlight \in [Peer -> Nat] /\ g.nValidHeaders \in [Peer -> Nat]
      BY <2>1, <2>3, <2>5 DEF FlightOK, Typed
    <3>4. g.stalling \in [Peer -> Int] /\ g.since \in [Peer -> Int]
      <4>1. f.stalling \in [Peer -> Int] /\ f.since \in [Peer -> Int] /\ Off \in Int
        BY DEF FlightOK, Typed, Off
      <4>2. g.stalling = [f.stalling EXCEPT ![p] = Off]
        BY <2>3
      <4>3. g.since = [f.since EXCEPT ![p] = IF i = 1 THEN 0 ELSE f.since[p]]
        BY <2>3
      <4>4. g.stalling \in [Peer -> Int]
        BY Zenon, <4>1, <4>2
      <4>5. (IF i = 1 THEN 0 ELSE f.since[p]) \in Int
        BY <2>1, <4>1
      <4>6. g.since \in [Peer -> Int]
        BY Zenon, <4>1, <4>3, <4>5
      <4> QED BY <4>4, <4>6
    <3> QED BY Zenon, <2>3, <2>10, <3>1, <3>2, <3>3, <3>4 DEF Typed
  <2>12. QueuesExact(g)
    <3>1. ASSUME NEW r \in Peer, NEW x \in Block
          PROVE  (g.inFlight[x] = r) <=> (\E j \in DOMAIN g.queue[r] : g.queue[r][j] = x)
      <4>1. (f.inFlight[x] = r) <=> (\E j \in DOMAIN f.queue[r] : f.queue[r][j] = x)
        BY DEF FlightOK, QueuesExact
      <4>2. CASE r = p
        <5>1. (g.inFlight[x] = p) <=> (x # b /\ f.inFlight[x] = p)
          BY <2>1, <2>6, DownloadAssumption
        <5>2. (\E j \in DOMAIN w : w[j] = x) <=> (x # b /\ \E j \in DOMAIN q : q[j] = x)
          BY Zenon, <2>4
        <5> QED BY <2>6, <2>7, <4>1, <4>2, <5>1, <5>2
      <4>3. CASE r # p
        BY <2>6, <2>7, <4>1, <4>3, DownloadAssumption
      <4> QED BY <4>2, <4>3
    <3>2. ASSUME NEW r \in Peer, NEW j \in DOMAIN g.queue[r], NEW k \in DOMAIN g.queue[r],
                 g.queue[r][j] = g.queue[r][k]
          PROVE  j = k
      BY <2>4, <2>6, <3>2 DEF FlightOK, QueuesExact
    <3> QED BY <3>1, <3>2 DEF QueuesExact
  <2>13. CountersExact(g)
    <3>1. g.nBlocksInFlight[p] = Len(w) /\ g.nValidHeaders[p] = Len(w)
      BY <2>1, <2>3, <2>4, <2>5 DEF FlightOK, Typed
    <3>2. ASSUME NEW r \in Peer, r # p
          PROVE  g.nBlocksInFlight[r] = Len(g.queue[r]) /\ g.nValidHeaders[r] = Len(g.queue[r])
      BY <2>3, <2>6, <3>2 DEF FlightOK, CountersExact, Typed
    <3> QED BY <2>6, <2>10, <3>1, <3>2 DEF CountersExact, Asked
  <2>14. Stalls(g)
    BY <2>1, <2>3, <2>6 DEF FlightOK, Stalls, Typed
  <2>15. FlightOK(g) /\ Asked(g) \subseteq Asked(f)
    BY <2>9, <2>11, <2>12, <2>13, <2>14 DEF FlightOK
  <2> QED BY <2>15 DEF g
<1> QED BY <1>1, <1>2

\* Asking p for blocks that nobody was asked for keeps the bookkeeping exact.
LEMMA RequestedOK ==
    ASSUME NEW f, FlightOK(f), NEW p \in Peer, NEW list \in Seq(Block),
           \A j, k \in DOMAIN list : list[j] = list[k] => j = k,
           \A j \in DOMAIN list : f.inFlight[list[j]] = Nobody
    PROVE  /\ FlightOK(MarkBlocksAsInFlight(f, p, list))
           /\ Asked(MarkBlocksAsInFlight(f, p, list)) \subseteq Asked(f) \cup {p}
           /\ Asked(f) \subseteq Asked(MarkBlocksAsInFlight(f, p, list))
<1> DEFINE g == MarkBlocksAsInFlight(f, p, list)
           q == f.queue[p]
           w == q \o list
           in(x) == \E j \in DOMAIN list : list[j] = x
<1>1. /\ g.queue = [f.queue EXCEPT ![p] = w]
      /\ g.partial = f.partial
      /\ g.inFlight = [x \in Block |-> IF in(x) THEN p ELSE f.inFlight[x]]
      /\ g.nBlocksInFlight = [f.nBlocksInFlight EXCEPT ![p] = f.nBlocksInFlight[p] + Len(list)]
      /\ g.nValidHeaders = [f.nValidHeaders EXCEPT ![p] = f.nValidHeaders[p] + Len(list)]
      /\ g.nPeers = IF f.nValidHeaders[p] = 0 /\ list # <<>> THEN f.nPeers + 1 ELSE f.nPeers
      /\ g.stalling = f.stalling
      /\ g.since = [f.since EXCEPT ![p] = IF f.nBlocksInFlight[p] = 0 THEN 0 ELSE f.since[p]]
      /\ g = [queue |-> g.queue, partial |-> g.partial, inFlight |-> g.inFlight,
              nBlocksInFlight |-> g.nBlocksInFlight, nValidHeaders |-> g.nValidHeaders,
              nPeers |-> g.nPeers, stalling |-> g.stalling, since |-> g.since]
  <2>1. g.inFlight = [x \in Block |-> IF in(x) THEN p ELSE f.inFlight[x]]
    BY DEF MarkBlocksAsInFlight, FlightOK, Typed
  <2>2. /\ g.queue = [f.queue EXCEPT ![p] = w]
        /\ g.partial = f.partial /\ g.stalling = f.stalling
    BY DEF MarkBlocksAsInFlight, FlightOK, Typed
  <2>3. /\ g.nBlocksInFlight = [f.nBlocksInFlight EXCEPT ![p] = f.nBlocksInFlight[p] + Len(list)]
        /\ g.nValidHeaders = [f.nValidHeaders EXCEPT ![p] = f.nValidHeaders[p] + Len(list)]
        /\ g.since = [f.since EXCEPT ![p] = IF f.nBlocksInFlight[p] = 0 THEN 0 ELSE f.since[p]]
    BY DEF MarkBlocksAsInFlight, FlightOK, Typed
  <2>4. g.nPeers = IF f.nValidHeaders[p] = 0 /\ list # <<>> THEN f.nPeers + 1 ELSE f.nPeers
    BY DEF MarkBlocksAsInFlight, FlightOK, Typed
  <2>5. g = [queue |-> g.queue, partial |-> g.partial, inFlight |-> g.inFlight,
             nBlocksInFlight |-> g.nBlocksInFlight, nValidHeaders |-> g.nValidHeaders,
             nPeers |-> g.nPeers, stalling |-> g.stalling, since |-> g.since]
    <3> DEFINE F == [x \in Block |-> IF in(x) THEN p ELSE f.inFlight[x]]
               n == IF f.nValidHeaders[p] = 0 /\ list # <<>> THEN f.nPeers + 1 ELSE f.nPeers
               t == IF f.nBlocksInFlight[p] = 0 THEN 0 ELSE f.since[p]
    <3>1. g = [f EXCEPT !.queue[p] = f.queue[p] \o list,
                 !.nBlocksInFlight[p] = f.nBlocksInFlight[p] + Len(list),
                 !.nValidHeaders[p] = f.nValidHeaders[p] + Len(list),
                 !.since[p] = t, !.nPeers = n, !.inFlight = F]
      BY DEF MarkBlocksAsInFlight
    <3> HIDE DEF g, F, n, t
    <3> QED BY Zenon, <3>1 DEF FlightOK, Typed
  <2> QED BY <2>1, <2>2, <2>3, <2>4, <2>5
<1>2. /\ f.queue \in [Peer -> Seq(Block)] /\ f.partial \in SUBSET Block
      /\ f.inFlight \in [Block -> Peer \cup {Nobody}]
      /\ f.nBlocksInFlight \in [Peer -> Nat] /\ f.nValidHeaders \in [Peer -> Nat]
      /\ f.stalling \in [Peer -> Int] /\ f.since \in [Peer -> Int] /\ f.nPeers \in Nat
  BY DEF FlightOK, Typed
<1>3. /\ q \in Seq(Block) /\ Len(q) \in Nat /\ (q = <<>> <=> Len(q) = 0)
      /\ f.nBlocksInFlight[p] = Len(q) /\ f.nValidHeaders[p] = Len(q)
  BY AskedCount DEF FlightOK, CountersExact
<1>4. \A x \in Block, r \in Peer :
        (f.inFlight[x] = r) <=> (\E j \in DOMAIN f.queue[r] : f.queue[r][j] = x)
  BY DEF FlightOK, QueuesExact
<1>5. \A r \in Peer : \A j, k \in DOMAIN f.queue[r] : f.queue[r][j] = f.queue[r][k] => j = k
  BY DEF FlightOK, QueuesExact
<1>6. /\ w \in Seq(Block) /\ Len(w) = Len(q) + Len(list)
      /\ \A j, k \in DOMAIN w : w[j] = w[k] => j = k
      /\ \A x : (\E j \in DOMAIN w : w[j] = x) <=> (\E j \in DOMAIN q : q[j] = x) \/ in(x)
  <2>1. \A j, k \in DOMAIN q : q[j] = q[k] => j = k
    BY <1>5
  <2>2. ASSUME NEW j \in DOMAIN q, NEW k \in DOMAIN list PROVE q[j] # list[k]
    <3>1. list[k] \in Block /\ f.inFlight[list[k]] = Nobody
      OBVIOUS
    <3> QED BY <3>1, <1>4, DownloadAssumption
  <2> HIDE DEF q
  <2> QED BY Zenon, <1>3, <2>1, <2>2, ConcatOnce
<1>7. Len(list) \in Nat /\ (list = <<>> <=> Len(list) = 0)
  BY EmptySeq, LenProperties
<1>8. ASSUME NEW x, in(x) PROVE x \in Block /\ f.inFlight[x] = Nobody
  BY <1>8
<1>9. f.queue[p] = q
  OBVIOUS
<1> HIDE DEF g, q, w
<1>10. w = <<>> <=> Len(w) = 0
  BY <1>6, EmptySeq
<1>11. g.queue[p] = w /\ \A r \in Peer : r # p => g.queue[r] = f.queue[r]
  BY <1>1, <1>2
<1>12. Asked(g) = IF list = <<>> THEN Asked(f) ELSE Asked(f) \cup {p}
  BY <1>3, <1>6, <1>7, <1>9, <1>10, <1>11 DEF Asked
<1>13. g.nPeers = Cardinality(Asked(g)) /\ g.nPeers \in Nat
  <2>1. Asked(f) \subseteq Peer /\ f.nPeers = Cardinality(Asked(f))
    BY AskedCount
  <2>2. p \in Asked(f) <=> Len(q) # 0
    BY <1>3, <1>9 DEF Asked
  <2>3. p \notin Asked(f) => Cardinality(Asked(f) \cup {p}) = Cardinality(Asked(f)) + 1
    BY <2>1, PeerCount
  <2>4. CASE list = <<>>
    BY <1>1, <1>2, <1>12, <2>1, <2>4
  <2>5. CASE list # <<>> /\ p \in Asked(f)
    <3>1. Asked(f) \cup {p} = Asked(f)
      BY <2>5
    <3> QED BY Zenon, <1>1, <1>2, <1>3, <1>12, <2>1, <2>2, <2>5, <3>1
  <2>6. CASE list # <<>> /\ p \notin Asked(f)
    <3>1. g.nPeers = f.nPeers + 1
      BY <1>1, <1>3, <2>2, <2>6
    <3> QED BY <1>2, <1>12, <2>1, <2>3, <2>6, <3>1
  <2> QED BY <2>4, <2>5, <2>6
<1>14. Typed(g)
  <2>1. g.queue \in [Peer -> Seq(Block)]
    BY <1>1, <1>2, <1>6
  <2>2. g.inFlight \in [Block -> Peer \cup {Nobody}]
    BY <1>1, <1>2
  <2>3. g.nBlocksInFlight \in [Peer -> Nat] /\ g.nValidHeaders \in [Peer -> Nat]
    BY <1>1, <1>2, <1>7
  <2>4. g.since \in [Peer -> Int]
    BY <1>1, <1>2
  <2> QED BY Zenon, <1>1, <1>2, <1>13, <2>1, <2>2, <2>3, <2>4 DEF Typed
<1>15. QueuesExact(g)
  <2>1. ASSUME NEW r \in Peer, NEW x \in Block
        PROVE  (g.inFlight[x] = r) <=> (\E j \in DOMAIN g.queue[r] : g.queue[r][j] = x)
    <3>1. (f.inFlight[x] = r) <=> (\E j \in DOMAIN f.queue[r] : f.queue[r][j] = x)
      BY <1>4
    <3>2. g.inFlight[x] = IF in(x) THEN p ELSE f.inFlight[x]
      BY <1>1
    <3>3. in(x) => f.inFlight[x] # r
      BY <1>8, DownloadAssumption
    <3>4. CASE r = p
      <4>1. (\E j \in DOMAIN w : w[j] = x) <=> (\E j \in DOMAIN q : q[j] = x) \/ in(x)
        BY Zenon, <1>6
      <4> QED BY <1>9, <1>11, <3>1, <3>2, <3>4, <4>1
    <3>5. CASE r # p
      BY <1>11, <3>1, <3>2, <3>3, <3>5
    <3> QED BY <3>4, <3>5
  <2>2. ASSUME NEW r \in Peer, NEW j \in DOMAIN g.queue[r], NEW k \in DOMAIN g.queue[r],
               g.queue[r][j] = g.queue[r][k]
        PROVE  j = k
    BY <1>5, <1>6, <1>11, <2>2
  <2> QED BY <2>1, <2>2 DEF QueuesExact
<1>16. CountersExact(g)
  <2>1. g.nBlocksInFlight[p] = Len(w) /\ g.nValidHeaders[p] = Len(w)
    BY <1>1, <1>2, <1>3, <1>6
  <2>2. ASSUME NEW r \in Peer, r # p
        PROVE  g.nBlocksInFlight[r] = Len(g.queue[r]) /\ g.nValidHeaders[r] = Len(g.queue[r])
    BY Zenon, <1>1, <1>2, <1>11, <2>2 DEF FlightOK, CountersExact
  <2> QED BY <1>11, <1>13, <2>1, <2>2 DEF CountersExact, Asked
<1>17. Stalls(g)
  <2>1. \A r \in Peer : f.queue[r] # <<>> => g.queue[r] # <<>>
    BY <1>3, <1>6, <1>7, <1>9, <1>10, <1>11
  <2> QED BY <1>1, <2>1 DEF FlightOK, Stalls
<1>18. FlightOK(g) /\ Asked(g) \subseteq Asked(f) \cup {p} /\ Asked(f) \subseteq Asked(g)
  BY <1>12, <1>14, <1>15, <1>16, <1>17 DEF FlightOK
<1> QED BY <1>18 DEF g

\* FinalizeNode keeps the bookkeeping of the other peers.
LEMMA ReleasedOK ==
    ASSUME NEW f, FlightOK(f), NEW p \in Peer
    PROVE  FlightOK(Released(f, p)) /\ Asked(Released(f, p)) = Asked(f) \ {p}
<1> DEFINE g == Released(f, p)
           S == {x \in f.partial : f.inFlight[x] # p}
           F == OtherRequests(f, p)
           n == OtherDownloads(f, p)
<1>1. g = [f EXCEPT !.queue[p] = <<>>, !.partial = S, !.inFlight = F, !.nPeers = n,
             !.nBlocksInFlight[p] = 0, !.nValidHeaders[p] = 0, !.stalling[p] = Off, !.since[p] = 0]
  BY DEF Released
<1>2. /\ f.queue \in [Peer -> Seq(Block)] /\ f.partial \in SUBSET Block
      /\ f.inFlight \in [Block -> Peer \cup {Nobody}]
      /\ f.nBlocksInFlight \in [Peer -> Nat] /\ f.nValidHeaders \in [Peer -> Nat]
      /\ f.stalling \in [Peer -> Int] /\ f.since \in [Peer -> Int] /\ f.nPeers \in Nat
  BY DEF FlightOK, Typed
<1>3. S \in SUBSET Block /\ F \in [Block -> Peer \cup {Nobody}]
      /\ \A x \in Block : F[x] = IF f.inFlight[x] = p THEN Nobody ELSE f.inFlight[x]
  BY <1>2 DEF OtherRequests
<1>4. n = IF f.nValidHeaders[p] # 0 THEN f.nPeers - 1 ELSE f.nPeers
  BY DEF OtherDownloads
<1> HIDE DEF g, S, F, n
<1>5. /\ g.queue = [f.queue EXCEPT ![p] = <<>>] /\ g.partial = S /\ g.inFlight = F
      /\ g.nPeers = n /\ g.nBlocksInFlight = [f.nBlocksInFlight EXCEPT ![p] = 0]
      /\ g.nValidHeaders = [f.nValidHeaders EXCEPT ![p] = 0]
      /\ g.stalling = [f.stalling EXCEPT ![p] = Off] /\ g.since = [f.since EXCEPT ![p] = 0]
      /\ g = [queue |-> g.queue, partial |-> g.partial, inFlight |-> g.inFlight,
              nBlocksInFlight |-> g.nBlocksInFlight, nValidHeaders |-> g.nValidHeaders,
              nPeers |-> g.nPeers, stalling |-> g.stalling, since |-> g.since]
  BY Zenon, <1>1 DEF FlightOK, Typed
<1>6. g.queue[p] = <<>> /\ \A r \in Peer : r # p => g.queue[r] = f.queue[r]
  BY <1>2, <1>5
<1>7. Asked(g) = Asked(f) \ {p}
  BY <1>6 DEF Asked
<1>8. n = Cardinality(Asked(g)) /\ n \in Nat
  <2>1. Asked(f) \subseteq Peer /\ f.nPeers = Cardinality(Asked(f))
    BY AskedCount
  <2>2. p \in Asked(f) <=> f.nValidHeaders[p] # 0
    BY AskedCount DEF Asked, FlightOK, CountersExact
  <2>3. CASE p \in Asked(f)
    <3>1. Cardinality(Asked(f) \ {p}) = Cardinality(Asked(f)) - 1
      BY <2>1, <2>3, PeerCount
    <3>2. Asked(f) \ {p} \subseteq Peer
      BY <2>1
    <3>3. Cardinality(Asked(f) \ {p}) \in Nat
      BY Zenon, <3>2, PeerCount
    <3> QED BY <1>4, <1>7, <2>1, <2>2, <2>3, <3>1, <3>3
  <2>4. CASE p \notin Asked(f)
    <3>1. Asked(f) \ {p} = Asked(f)
      BY <2>4
    <3> QED BY Zenon, <1>2, <1>4, <1>7, <2>1, <2>2, <2>4, <3>1
  <2> QED BY <2>3, <2>4
<1>9. Typed(g)
  <2>1. g.queue \in [Peer -> Seq(Block)]
    BY <1>2, <1>5
  <2>2. g.nBlocksInFlight \in [Peer -> Nat] /\ g.nValidHeaders \in [Peer -> Nat]
    BY <1>2, <1>5
  <2>3. g.stalling \in [Peer -> Int] /\ g.since \in [Peer -> Int]
    BY <1>2, <1>5 DEF Off
  <2> QED BY Zenon, <1>3, <1>5, <1>8, <2>1, <2>2, <2>3 DEF Typed
<1>10. QueuesExact(g)
  <2>1. ASSUME NEW r \in Peer, NEW x \in Block
        PROVE  (g.inFlight[x] = r) <=> (\E j \in DOMAIN g.queue[r] : g.queue[r][j] = x)
    <3>1. (f.inFlight[x] = r) <=> (\E j \in DOMAIN f.queue[r] : f.queue[r][j] = x)
      BY DEF FlightOK, QueuesExact
    <3>2. g.inFlight[x] = IF f.inFlight[x] = p THEN Nobody ELSE f.inFlight[x]
      BY <1>3, <1>5
    <3>3. CASE r = p
      BY <1>6, <3>2, <3>3, DownloadAssumption
    <3>4. CASE r # p
      BY <1>6, <3>1, <3>2, <3>4, DownloadAssumption
    <3> QED BY <3>3, <3>4
  <2>2. ASSUME NEW r \in Peer, NEW j \in DOMAIN g.queue[r], NEW k \in DOMAIN g.queue[r],
               g.queue[r][j] = g.queue[r][k]
        PROVE  j = k
    BY <1>6, <2>2 DEF FlightOK, QueuesExact
  <2> QED BY <2>1, <2>2 DEF QueuesExact
<1>11. CountersExact(g)
  <2>1. \A r \in Peer : g.nBlocksInFlight[r] = Len(g.queue[r]) /\ g.nValidHeaders[r] = Len(g.queue[r])
    BY <1>2, <1>5, <1>6 DEF FlightOK, CountersExact
  <2> QED BY <1>5, <1>8, <2>1 DEF CountersExact, Asked
<1>12. Stalls(g)
  BY <1>2, <1>5, <1>6 DEF FlightOK, Stalls
<1>13. FlightOK(g)
  BY <1>9, <1>10, <1>11, <1>12 DEF FlightOK
<1> QED BY <1>7, <1>13 DEF g

\* Timers and partial blocks do not concern the queues; a timer of nStallingSince
\* may run only for a peer with a queue.
LEMMA OthersOK ==
    ASSUME NEW f, FlightOK(f), NEW g, Typed(g),
           g.queue = f.queue, g.inFlight = f.inFlight, g.nPeers = f.nPeers,
           g.nBlocksInFlight = f.nBlocksInFlight, g.nValidHeaders = f.nValidHeaders,
           \A p \in Peer : g.stalling[p] # Off => f.queue[p] # <<>>
    PROVE  FlightOK(g) /\ Asked(g) = Asked(f)
<1>1. QueuesExact(g) /\ CountersExact(g) /\ Stalls(g)
  BY DEF FlightOK, QueuesExact, CountersExact, Stalls
<1> QED BY <1>1 DEF FlightOK, Asked

\* The list of a set of blocks in the order of their heights has each block once.
LEMMA AscendingList ==
    ASSUME NEW S, S \subseteq Block, NEW list \in Ascending(S)
    PROVE  /\ list \in Seq(Block)
           /\ \A j, k \in DOMAIN list : list[j] = list[k] => j = k
           /\ \A j \in DOMAIN list : list[j] \in S
<1> DEFINE n == Cardinality(S)
<1>1. n \in Nat
  BY DownloadAssumption, FS_Subset, FS_CardinalityType
<1>2. list \in [1..n -> S] /\ \A i, j \in DOMAIN list : i < j => Height[list[i]] < Height[list[j]]
  BY DEF Ascending
<1> HIDE DEF n
<1>3. list \in [1..n -> Block] /\ DOMAIN list = 1..n
  BY <1>2
<1>4. list \in Seq(Block)
  BY <1>1, <1>3, FunctionIsSeq
<1>5. ASSUME NEW j \in DOMAIN list, NEW k \in DOMAIN list, list[j] = list[k] PROVE j = k
  <2>1. Height[list[j]] \in Int /\ j \in Int /\ k \in Int
    BY <1>3, HeightType
  <2> QED BY <1>2, <1>5, <2>1
<1> QED BY <1>2, <1>4, <1>5

\* nStallingSince set for peers that were asked for blocks.
LEMMA BlamedOK ==
    ASSUME NEW f, FlightOK(f), NEW p \in Peer, NEW stallers, stallers \cap Peer \subseteq Asked(f)
    PROVE  FlightOK(Blame(f, p, stallers)) /\ Asked(Blame(f, p, stallers)) = Asked(f)
<1> DEFINE s == [q \in Peer |-> IF f.nBlocksInFlight[p] = 0 /\ q \in stallers /\ f.stalling[q] = Off
                                THEN 0 ELSE f.stalling[q]]
           g == Blame(f, p, stallers)
<1>1. s \in [Peer -> Int] /\ \A q \in Peer : s[q] # Off => f.queue[q] # <<>>
  BY DEF FlightOK, Typed, Stalls, Asked
<1>2. g = [f EXCEPT !.stalling = s]
  BY DEF Blame
<1> HIDE DEF s, g
<1>3. /\ Typed(g) /\ g.queue = f.queue /\ g.inFlight = f.inFlight /\ g.nPeers = f.nPeers
      /\ g.nBlocksInFlight = f.nBlocksInFlight /\ g.nValidHeaders = f.nValidHeaders /\ g.stalling = s
  BY Zenon, <1>1, <1>2 DEF FlightOK, Typed
<1>4. FlightOK(g) /\ Asked(g) = Asked(f)
  BY <1>1, <1>3, OthersOK
<1> QED BY <1>4 DEF g

\* ProcessBlockAvailability and UpdateBlockAvailability record blocks.
LEMMA AvailabilityOK ==
    ASSUME NEW a, AvailOK(a), NEW K, NEW p \in Peer
    PROVE  /\ AvailOK(ProcessBlockAvailability(a, K, p))
           /\ \A b \in Block : AvailOK(UpdateBlockAvailability(a, K, p, b))
<1>1. ASSUME NEW b \in Block \cup {Null}, NEW x \in Block \cup {Null}
      PROVE  Better(x, b) \in Block \cup {Null}
  BY DEF Better
<1>2. ASSUME NEW z, AvailOK(z), NEW b \in Block \cup {Null}
      PROVE  AvailOK([z EXCEPT !.best[p] = Better(z.best[p], b)])
  <2>1. PICK best \in [Peer -> Block \cup {Null}], unknown \in [Peer -> Block \cup {Null}] : \E common :
          z = [best |-> best, unknown |-> unknown, common |-> common]
    BY Zenon, <1>2 DEF AvailOK
  <2>2. PICK common : z = [best |-> best, unknown |-> unknown, common |-> common]
    BY Zenon, <2>1
  <2>3. Better(z.best[p], b) \in Block \cup {Null}
    BY <1>1, <2>2
  <2> DEFINE y == Better(z.best[p], b)
  <2> HIDE DEF y
  <2>4. [best EXCEPT ![p] = y] \in [Peer -> Block \cup {Null}]
    BY <2>3 DEF y
  <2>5. [z EXCEPT !.best[p] = y]
          = [best |-> [best EXCEPT ![p] = y], unknown |-> unknown, common |-> common]
    BY <2>2
  <2> QED BY Zenon, <2>4, <2>5 DEF AvailOK, y
<1>3. ASSUME NEW z, AvailOK(z), NEW b \in Block \cup {Null}
      PROVE  AvailOK([z EXCEPT !.unknown[p] = b]) /\ z.unknown[p] \in Block \cup {Null}
  <2>1. PICK best \in [Peer -> Block \cup {Null}], unknown \in [Peer -> Block \cup {Null}] : \E common :
          z = [best |-> best, unknown |-> unknown, common |-> common]
    BY Zenon, <1>3 DEF AvailOK
  <2>2. PICK common : z = [best |-> best, unknown |-> unknown, common |-> common]
    BY Zenon, <2>1
  <2>3. [z EXCEPT !.unknown[p] = b]
          = [best |-> best, unknown |-> [unknown EXCEPT ![p] = b], common |-> common]
    BY <2>2
  <2>4. [unknown EXCEPT ![p] = b] \in [Peer -> Block \cup {Null}] /\ z.unknown[p] \in Block \cup {Null}
    BY <2>2
  <2> QED BY Zenon, <2>3, <2>4 DEF AvailOK
<1>4. AvailOK(ProcessBlockAvailability(a, K, p))
  <2> DEFINE y == Better(a.best[p], a.unknown[p])
             z == [a EXCEPT !.best[p] = y]
  <2>1. a.unknown[p] \in Block \cup {Null}
    BY Zenon, <1>3
  <2>2. AvailOK(z)
    BY <1>2, <2>1
  <2>3. AvailOK([z EXCEPT !.unknown[p] = Null])
    <3> HIDE DEF z
    <3> QED BY <1>3, <2>2
  <2>4. [a EXCEPT !.best[p] = y, !.unknown[p] = Null] = [z EXCEPT !.unknown[p] = Null]
    <3> HIDE DEF y
    <3> QED BY DEF AvailOK
  <2> QED BY <2>3, <2>4 DEF ProcessBlockAvailability
<1>5. ASSUME NEW b \in Block PROVE AvailOK(UpdateBlockAvailability(a, K, p, b))
  <2> DEFINE z == ProcessBlockAvailability(a, K, p)
  <2>1. AvailOK(z)
    BY <1>4
  <2>2. UpdateBlockAvailability(a, K, p, b) =
          IF b \in K THEN [z EXCEPT !.best[p] = Better(z.best[p], b)] ELSE [z EXCEPT !.unknown[p] = b]
    BY DEF UpdateBlockAvailability
  <2> HIDE DEF z
  <2> QED BY <1>2, <1>3, <2>1, <2>2
<1> QED BY <1>4, <1>5

\* The best block of a peer, and changes of pindexLastCommonBlock.
LEMMA CommonOK ==
    ASSUME NEW a, AvailOK(a), NEW p \in Peer, NEW x
    PROVE  AvailOK([a EXCEPT !.common[p] = x]) /\ a.best[p] \in Block \cup {Null}
<1>1. PICK best \in [Peer -> Block \cup {Null}], unknown \in [Peer -> Block \cup {Null}] : \E common :
        a = [best |-> best, unknown |-> unknown, common |-> common]
  BY Zenon DEF AvailOK
<1>2. PICK common : a = [best |-> best, unknown |-> unknown, common |-> common]
  BY Zenon, <1>1
<1>3. [a EXCEPT !.common[p] = x]
        = [best |-> best, unknown |-> unknown, common |-> [common EXCEPT ![p] = x]]
  BY <1>2
<1>4. AvailOK([a EXCEPT !.common[p] = x])
  <2> DEFINE c == [common EXCEPT ![p] = x]
  <2> HIDE DEF c
  <2> QED BY Zenon, <1>3 DEF AvailOK, c
<1> QED BY <1>2, <1>4

-----------------------------------------------------------------------------
(* Every step keeps the invariant.                                         *)

\* One peer more or less in the totals of the headers sync.
LEMMA StartSyncOK ==
    ASSUME IInv, NEW p \in nodes
    PROVE  SyncOK(StartSync(p), nodes, ready)
<1>1. p \in Peer /\ sync.started \subseteq Peer
  BY DEF IInv, NodesOK, SyncOK
<1>2. p \notin sync.started => Cardinality(sync.started \cup {p}) = Cardinality(sync.started) + 1
  BY <1>1, PeerCount
<1>3. Cardinality(sync.started) \in Nat
  BY Zenon, <1>1, PeerCount
<1> DEFINE s == [sync EXCEPT !.started = @ \cup {p}, !.nSyncStarted = @ + 1, !.timer[p] = 0]
<1>4. p \notin sync.started => SyncOK(s, nodes, ready)
  <2> SUFFICES ASSUME p \notin sync.started PROVE SyncOK(s, nodes, ready)
    OBVIOUS
  <2>1. /\ s.preferred = sync.preferred /\ s.nPreferredDownload = sync.nPreferredDownload
        /\ s.started = sync.started \cup {p} /\ s.nSyncStarted = sync.nSyncStarted + 1
    BY DEF IInv, SyncOK
  <2>2. s \in [preferred : SUBSET Peer, nPreferredDownload : Int, started : SUBSET Peer,
               nSyncStarted : Int, timer : [Peer -> Int]]
    <3>1. s = [preferred |-> sync.preferred, nPreferredDownload |-> sync.nPreferredDownload,
               started |-> sync.started \cup {p}, nSyncStarted |-> sync.nSyncStarted + 1,
               timer |-> [sync.timer EXCEPT ![p] = 0]]
      <4> DEFINE u == sync.started \cup {p}
                 n == sync.nSyncStarted + 1
      <4>1. s = [sync EXCEPT !.started = u, !.nSyncStarted = n, !.timer[p] = 0]
        OBVIOUS
      <4> HIDE DEF s, u, n
      <4> QED BY Zenon, <4>1 DEF IInv, SyncOK, u, n
    <3>2. [sync.timer EXCEPT ![p] = 0] \in [Peer -> Int] /\ sync.started \cup {p} \subseteq Peer
      BY <1>1 DEF IInv, SyncOK
    <3>3. sync.preferred \subseteq Peer /\ sync.nPreferredDownload \in Int /\ sync.nSyncStarted + 1 \in Int
      BY DEF IInv, SyncOK
    <3> HIDE DEF s
    <3> QED BY <3>1, <3>2, <3>3
  <2> HIDE DEF s
  <2> QED BY <1>2, <2>1, <2>2 DEF IInv, SyncOK
<1> QED BY <1>4 DEF StartSync, IInv

\* The headers timer keeps the set of syncing peers and its count in step.
LEMMA SyncAfterOK ==
    ASSUME NEW N, NEW R, NEW s, SyncOK(s, N, R), NEW p
    PROVE  SyncOK(SyncAfter(s, p), N, R)
<1> DEFINE g == [s EXCEPT !.started = @ \ {p}, !.nSyncStarted = @ - 1, !.timer[p] = Off]
           h == [s EXCEPT !.timer[p] = Off]
<1>1. p \in s.started => SyncOK(g, N, R)
  <2> SUFFICES ASSUME p \in s.started PROVE SyncOK(g, N, R)
    OBVIOUS
  <2>1. s.started \subseteq Peer
    BY DEF SyncOK
  <2>2. Cardinality(s.started \ {p}) = Cardinality(s.started) - 1
    BY <2>1, PeerCount
  <2>3. /\ g.preferred = s.preferred /\ g.nPreferredDownload = s.nPreferredDownload
        /\ g.started = s.started \ {p} /\ g.nSyncStarted = s.nSyncStarted - 1
    BY DEF SyncOK
  <2>4. g \in [preferred : SUBSET Peer, nPreferredDownload : Int, started : SUBSET Peer,
               nSyncStarted : Int, timer : [Peer -> Int]]
    <3>1. g = [preferred |-> s.preferred, nPreferredDownload |-> s.nPreferredDownload,
               started |-> s.started \ {p}, nSyncStarted |-> s.nSyncStarted - 1,
               timer |-> [s.timer EXCEPT ![p] = Off]]
      <4> DEFINE u == s.started \ {p}
                 n == s.nSyncStarted - 1
      <4>1. g = [s EXCEPT !.started = u, !.nSyncStarted = n, !.timer[p] = Off]
        OBVIOUS
      <4> HIDE DEF g, u, n
      <4> QED BY Zenon, <4>1 DEF SyncOK, u, n
    <3>2. [s.timer EXCEPT ![p] = Off] \in [Peer -> Int] /\ s.started \ {p} \subseteq Peer
      BY DEF SyncOK, Off
    <3>3. s.preferred \subseteq Peer /\ s.nPreferredDownload \in Int /\ s.nSyncStarted - 1 \in Int
      BY DEF SyncOK
    <3> HIDE DEF g
    <3> QED BY <3>1, <3>2, <3>3
  <2> HIDE DEF g
  <2> QED BY <2>2, <2>3, <2>4 DEF SyncOK
<1>2. SyncOK(h, N, R)
  <2>1. /\ h.preferred = s.preferred /\ h.nPreferredDownload = s.nPreferredDownload
        /\ h.started = s.started /\ h.nSyncStarted = s.nSyncStarted
        /\ h \in [preferred : SUBSET Peer, nPreferredDownload : Int, started : SUBSET Peer,
                  nSyncStarted : Int, timer : [Peer -> Int]]
    BY DEF SyncOK, Off
  <2> HIDE DEF h
  <2> QED BY <2>1 DEF SyncOK
<1>3. HeadersExpired(s, p) => p \in s.started
  BY DEF HeadersExpired
<1> QED BY <1>1, <1>2, <1>3 DEF SyncAfter

\* The step of a handler that leaves the connections and the headers sync alone.
LEMMA HandlerKeeps ==
    ASSUME IInv, NEW p \in Talking,
           UNCHANGED <<nodes, used, ready, sync>>, closing' \subseteq closing \cup {p},
           AvailOK(avail'), FlightOK(flight'), Asked(flight') \subseteq nodes
    PROVE  IInv'
<1>1. NodesOK'
  BY DEF IInv, NodesOK, Talking
<1> QED BY <1>1 DEF IInv

\* Direct fetch after headers.
LEMMA HeadersKeep ==
    ASSUME IInv, NEW c, NEW p \in Talking, NEW b \in Block, HeadersAccepted(c, p, b)
    PROVE  IInv'
<1>1. p \in Peer /\ p \in nodes
  BY DEF IInv, NodesOK, Talking
<1> DEFINE S == DirectFetch(c, p, b)
<1>2. S \subseteq Block /\ \A x \in S : flight.inFlight[x] = Nobody
  BY ChainToStep DEF DirectFetch, LowestOf
<1>3. PICK list \in Ascending(S) : flight' = MarkBlocksAsInFlight(flight, p, list)
  BY DEF HeadersAccepted
<1> HIDE DEF S
<1>4. /\ list \in Seq(Block)
      /\ \A j, k \in DOMAIN list : list[j] = list[k] => j = k
      /\ \A j \in DOMAIN list : list[j] \in S
  BY <1>2, AscendingList
<1>5. FlightOK(flight') /\ Asked(flight') \subseteq Asked(flight) \cup {p}
  BY <1>1, <1>2, <1>3, <1>4, RequestedOK DEF IInv
<1>6. AvailOK(avail')
  BY Zenon, <1>1, AvailabilityOK DEF HeadersAccepted, IInv
<1>7. UNCHANGED <<nodes, used, ready, sync, closing>>
  BY DEF HeadersAccepted, connVars
<1> QED BY <1>1, <1>5, <1>6, <1>7, HandlerKeeps DEF IInv

\* Whatever FillBlock finds.
LEMMA FillKeeps ==
    ASSUME IInv, NEW f, FlightOK(f), Asked(f) \subseteq nodes, NEW c, NEW p \in Talking, NEW b \in Block,
           FillBlock(f, c, p, b), UNCHANGED <<nodes, used, ready, sync>>, AvailOK(avail')
    PROVE  IInv'
<1>1. FlightOK(MarkBlockAsReceived(f, b)) /\ Asked(MarkBlockAsReceived(f, b)) \subseteq Asked(f)
  BY ReceivedOK
<1>2. FlightOK(flight') /\ Asked(flight') \subseteq nodes /\ closing' \subseteq closing \cup {p}
  BY Zenon, <1>1 DEF FillBlock, Ban
<1> QED BY <1>2, HandlerKeeps

\* A compact block, in any of the cases.
LEMMA CompactKeeps ==
    ASSUME IInv, NEW p \in Peer, NEW b \in Block, ReceiveCompact(p, b)
    PROVE  IInv'
<1> DEFINE c == [chain EXCEPT !.known = @ \cup {b}]
           owner == flight.inFlight[b]
<1>1. p \in Talking /\ p \in nodes
  BY DEF IInv, NodesOK, Talking, ReceiveCompact
<1>2. CASE HeadersAccepted(c, p, b)
  BY <1>1, <1>2, HeadersKeep
<1>3. CASE ~HeadersAccepted(c, p, b)
  <2>1. /\ avail' = UpdateBlockAvailability(avail, c.known, p, b)
        /\ UNCHANGED <<nodes, used, ready, sync>>
        /\ \/ UNCHANGED <<flight, closing>>
           \/ (owner = p \/ owner = Nobody) /\ CompactFromPeer(c, p, b)
           \/ CompactOptimistic(c, b)
    BY <1>3 DEF ReceiveCompact
  <2> HIDE DEF c
  <2>2. AvailOK(avail')
    BY Zenon, <2>1, AvailabilityOK DEF IInv
  <2>3. CASE UNCHANGED <<flight, closing>>
    BY <1>1, <2>1, <2>2, <2>3, HandlerKeeps DEF IInv
  <2>4. CASE (owner = p \/ owner = Nobody) /\ CompactFromPeer(c, p, b)
    <3> DEFINE f == IF owner = p THEN flight ELSE MarkBlocksAsInFlight(flight, p, <<b>>)
               g == [f EXCEPT !.partial = @ \cup {b}]
    <3>1. FlightOK(f) /\ Asked(f) \subseteq nodes
      <4>1. CASE owner = p
        BY <4>1 DEF IInv
      <4>2. CASE owner # p
        <5>1. <<b>> \in Seq(Block) /\ DOMAIN <<b>> = {1} /\ <<b>>[1] = b
          OBVIOUS
        <5>2. \A j, k \in DOMAIN <<b>> : <<b>>[j] = <<b>>[k] => j = k
          BY <5>1
        <5>3. \A j \in DOMAIN <<b>> : flight.inFlight[<<b>>[j]] = Nobody
          BY <2>4, <4>2, <5>1
        <5>4. /\ FlightOK(MarkBlocksAsInFlight(flight, p, <<b>>))
              /\ Asked(MarkBlocksAsInFlight(flight, p, <<b>>)) \subseteq Asked(flight) \cup {p}
          BY Zenon, <5>1, <5>2, <5>3, RequestedOK DEF IInv
        <5> QED BY <1>1, <4>2, <5>4 DEF IInv
      <4> QED BY <4>1, <4>2
    <3>2. (UNCHANGED <<flight, closing>>) \/ FillBlock(g, c, p, b)
      BY <2>4 DEF CompactFromPeer
    <3> HIDE DEF f
    <3>3. FlightOK(g) /\ Asked(g) = Asked(f)
      <4>1. /\ Typed(g) /\ g.queue = f.queue /\ g.inFlight = f.inFlight /\ g.nPeers = f.nPeers
            /\ g.nBlocksInFlight = f.nBlocksInFlight /\ g.nValidHeaders = f.nValidHeaders
            /\ g.stalling = f.stalling
        BY Zenon, <3>1 DEF FlightOK, Typed
      <4> HIDE DEF g
      <4>2. \A r \in Peer : g.stalling[r] # Off => f.queue[r] # <<>>
        BY <3>1, <4>1 DEF FlightOK, Stalls
      <4> QED BY <3>1, <4>1, <4>2, OthersOK
    <3> HIDE DEF g
    <3>4. CASE FillBlock(g, c, p, b)
      BY <1>1, <2>1, <2>2, <3>1, <3>3, <3>4, FillKeeps
    <3> QED BY <2>3, <3>2, <3>4
  <2>5. CASE CompactOptimistic(c, b)
    <3>1. FlightOK(MarkBlockAsReceived(flight, b)) /\ Asked(MarkBlockAsReceived(flight, b)) \subseteq Asked(flight)
      BY ReceivedOK DEF IInv
    <3>2. (flight' = flight \/ flight' = MarkBlockAsReceived(flight, b)) /\ closing' = closing
      BY Zenon, <2>5 DEF CompactOptimistic
    <3> QED BY <1>1, <2>1, <2>2, <3>1, <3>2, HandlerKeeps DEF IInv
  <2> QED BY <2>1, <2>3, <2>4, <2>5
<1> QED BY <1>2, <1>3

\* Asking for blocks, and blaming the peer that holds up the window.
LEMMA GetDataKeeps ==
    ASSUME IInv, NEW p \in nodes, GetData(p)
    PROVE  AvailOK(avail') /\ FlightOK(flight') /\ Asked(flight') \subseteq nodes
<1> DEFINE a == ProcessBlockAvailability(avail, chain.known, p)
           start == LastCommon(a, p)
           path == Walk(start, a.best[p])
           reached == Reached(path, p, MaxInTransit - flight.nBlocksInFlight[p])
           S == NextBlocks(start, reached)
           T == Stallers(p, start, reached)
<1>1. p \in Peer
  BY DEF IInv, NodesOK
<1>2. AvailOK(a)
  BY <1>1, AvailabilityOK DEF IInv
<1>3. \/ UNCHANGED <<avail, flight>>
      \/ avail' = a /\ flight' = flight
      \/ /\ avail' = [a EXCEPT !.common[p] = NextCommon(start, reached)]
         /\ \E list \in Ascending(S) : flight' = Blame(MarkBlocksAsInFlight(flight, p, list), p, T)
  BY DEF GetData
<1>4. CASE UNCHANGED <<avail, flight>> \/ (avail' = a /\ flight' = flight)
  BY <1>2, <1>4 DEF IInv
<1>5. CASE /\ avail' = [a EXCEPT !.common[p] = NextCommon(start, reached)]
           /\ \E list \in Ascending(S) : flight' = Blame(MarkBlocksAsInFlight(flight, p, list), p, T)
  <2>1. AvailOK(avail')
    <3> DEFINE x == NextCommon(start, reached)
    <3>1. avail' = [a EXCEPT !.common[p] = x]
      BY <1>5
    <3> HIDE DEF x, a
    <3> QED BY <1>1, <1>2, <3>1, CommonOK
  <2>2. a.best[p] \in Block \cup {Null}
    <3> HIDE DEF a
    <3> QED BY Zenon, <1>1, <1>2, CommonOK
  <2>3. path \subseteq Block
    <3> HIDE DEF a, start
    <3> QED BY <2>2, DownloadAssumption, ChainToStep DEF Walk
  <2>4. reached \subseteq Block
    <3> HIDE DEF path
    <3> QED BY <2>3 DEF Reached
  <2> HIDE DEF a, start, path, reached
  <2>5. S \subseteq Block /\ \A x \in S : flight.inFlight[x] = Nobody
    BY <2>4 DEF NextBlocks, Wanted
  <2>6. T \cap Peer \subseteq Asked(flight)
    <3>1. ASSUME NEW x \in Block, NEW q \in Peer, flight.inFlight[x] = q PROVE flight.queue[q] # <<>>
      <4>1. \E j \in DOMAIN flight.queue[q] : flight.queue[q][j] = x
        BY <3>1 DEF IInv, FlightOK, QueuesExact
      <4> QED BY <4>1
    <3> QED BY <2>4, <3>1 DEF Stallers, Asked
  <2>7. PICK list \in Ascending(S) : flight' = Blame(MarkBlocksAsInFlight(flight, p, list), p, T)
    BY <1>5
  <2> HIDE DEF S, T
  <2>8. /\ list \in Seq(Block)
        /\ \A j, k \in DOMAIN list : list[j] = list[k] => j = k
        /\ \A j \in DOMAIN list : list[j] \in S
    BY <2>5, AscendingList
  <2> DEFINE f == MarkBlocksAsInFlight(flight, p, list)
  <2>9. FlightOK(f) /\ Asked(f) \subseteq Asked(flight) \cup {p} /\ Asked(flight) \subseteq Asked(f)
    BY <1>1, <2>5, <2>8, RequestedOK DEF IInv
  <2>10. flight' = Blame(f, p, T)
    BY <2>7
  <2> HIDE DEF f
  <2>11. FlightOK(flight') /\ Asked(flight') = Asked(f)
    BY <1>1, <2>6, <2>9, <2>10, BlamedOK
  <2> QED BY <2>1, <2>9, <2>11 DEF IInv
<1> QED BY <1>3, <1>4, <1>5

\* SendMessages keeps the invariant.
LEMMA SendKeeps ==
    ASSUME IInv, NEW p \in Peer, SendMessages(p)
    PROVE  IInv'
<1>1. p \in nodes
  BY DEF IInv, NodesOK, Talking, SendMessages
<1>2. SyncOK(StartSync(p), nodes, ready) /\ SyncOK(SyncAfter(StartSync(p), p), nodes, ready)
  BY <1>1, StartSyncOK, SyncAfterOK
<1>3. /\ UNCHANGED <<nodes, used, ready>>
      /\ \/ closing' = closing \cup {p} /\ sync' = StartSync(p) /\ UNCHANGED <<avail, flight>>
         \/ sync' = SyncAfter(StartSync(p), p) /\ GetData(p) /\ UNCHANGED closing
  BY DEF SendMessages
<1>4. NodesOK' /\ SyncOK(sync', nodes', ready')
  BY <1>1, <1>2, <1>3 DEF IInv, NodesOK
<1>5. AvailOK(avail') /\ FlightOK(flight') /\ Asked(flight') \subseteq nodes
  BY <1>1, <1>3, GetDataKeeps DEF IInv
<1> QED BY <1>3, <1>4, <1>5 DEF IInv

\* Time passing keeps it: only ages change.
LEMMA TickKeeps ==
    ASSUME IInv, Tick
    PROVE  IInv'
<1> DEFINE s == [p \in Peer |-> Older(flight.stalling[p], StallTimeout)]
           t == [p \in Peer |-> IF flight.queue[p] = <<>> THEN 0
                                ELSE Older(flight.since[p], MaxAge - 1)]
           u == [p \in Peer |-> Older(sync.timer[p], HeadersTimeout)]
<1>1. \A limit : \A x \in Int : Older(x, limit) \in Int /\ (Older(x, limit) # Off => x # Off)
  BY DEF Older, Off
<1>2. s \in [Peer -> Int] /\ t \in [Peer -> Int] /\ u \in [Peer -> Int]
  <2>1. /\ flight.stalling \in [Peer -> Int] /\ flight.since \in [Peer -> Int]
        /\ sync.timer \in [Peer -> Int]
    BY DEF IInv, FlightOK, Typed, SyncOK
  <2> QED BY <1>1, <2>1
<1>3. \A p \in Peer : s[p] # Off => flight.queue[p] # <<>>
  <2>1. \A p \in Peer : flight.stalling[p] \in Int /\ (flight.stalling[p] # Off => flight.queue[p] # <<>>)
    BY DEF IInv, FlightOK, Typed, Stalls
  <2> QED BY <1>1, <2>1
<1>4. /\ flight' = [flight EXCEPT !.stalling = s, !.since = t]
      /\ sync' = [sync EXCEPT !.timer = u]
      /\ UNCHANGED <<nodes, used, ready, closing, avail>>
  BY DEF Tick, connVars
<1> HIDE DEF s, t, u
<1>5. /\ Typed(flight') /\ flight'.queue = flight.queue /\ flight'.inFlight = flight.inFlight
      /\ flight'.nPeers = flight.nPeers /\ flight'.nBlocksInFlight = flight.nBlocksInFlight
      /\ flight'.nValidHeaders = flight.nValidHeaders /\ flight'.stalling = s
  <2>1. Typed(flight)
    BY DEF IInv, FlightOK
  <2>2. Typed(flight')
    BY Zenon, <1>2, <1>4, <2>1 DEF Typed
  <2>3. /\ flight'.queue = flight.queue /\ flight'.inFlight = flight.inFlight
        /\ flight'.nPeers = flight.nPeers /\ flight'.nBlocksInFlight = flight.nBlocksInFlight
        /\ flight'.nValidHeaders = flight.nValidHeaders /\ flight'.stalling = s
    BY <1>4, <2>1 DEF Typed
  <2> QED BY <2>2, <2>3
<1>6. FlightOK(flight') /\ Asked(flight') = Asked(flight)
  BY <1>3, <1>5, OthersOK DEF IInv
<1>7. SyncOK(sync', nodes', ready')
  BY <1>2, <1>4 DEF IInv, SyncOK
<1> QED BY <1>4, <1>6, <1>7 DEF IInv, NodesOK

\* VERSION adds the peer to the preferred ones, FinalizeNode takes it out of everything.
LEMMA VersionKeeps ==
    ASSUME IInv, NEW p \in Peer, ReceiveVersion(p)
    PROVE  IInv'
<1>1. p \in nodes /\ p \notin ready /\ p \notin sync.preferred /\ sync.preferred \subseteq Peer
  BY DEF ReceiveVersion, IInv, NodesOK, SyncOK
<1>2. Cardinality(sync.preferred \cup {p}) = Cardinality(sync.preferred) + 1
      /\ Cardinality(sync.preferred) \in Nat
  BY Zenon, <1>1, PeerCount
<1> DEFINE u == sync.preferred \cup {p}
           n == sync.nPreferredDownload + 1
<1>3. /\ nodes' = nodes /\ used' = used /\ ready' = ready \cup {p} /\ closing' = closing
      /\ sync' = sync \/ sync' = [sync EXCEPT !.preferred = u, !.nPreferredDownload = n]
      /\ avail' = avail /\ flight' = flight
  BY DEF ReceiveVersion
<1>4. u \subseteq Peer /\ u \subseteq ready' /\ n = Cardinality(u) /\ n \in Int
  BY <1>1, <1>2, <1>3 DEF IInv, SyncOK
<1> HIDE DEF u, n
<1>5. SyncOK(sync', nodes', ready')
  BY Zenon, <1>3, <1>4 DEF IInv, SyncOK
<1> QED BY <1>1, <1>3, <1>5 DEF IInv, NodesOK

\* FinalizeNode keeps it: what the peer held is released and counted out.
LEMMA FinalizeKeeps ==
    ASSUME IInv, NEW p \in Peer, FinalizeNode(p)
    PROVE  IInv'
<1>1. FlightOK(flight') /\ Asked(flight') = Asked(flight) \ {p}
  BY ReleasedOK DEF IInv, FinalizeNode
<1>2. SyncOK(sync', nodes', ready')
  <2>1. /\ sync.preferred \subseteq Peer /\ sync.started \subseteq Peer
        /\ sync.preferred \subseteq ready /\ sync.started \subseteq nodes
        /\ sync.nPreferredDownload = Cardinality(sync.preferred)
        /\ sync.nSyncStarted = Cardinality(sync.started)
        /\ sync.timer \in [Peer -> Int]
    BY DEF IInv, SyncOK
  <2> DEFINE n == sync.nPreferredDownload - (IF p \in sync.preferred THEN 1 ELSE 0)
             m == sync.nSyncStarted - (IF p \in sync.started THEN 1 ELSE 0)
             t == [sync.timer EXCEPT ![p] = Off]
  <2>2. n = Cardinality(sync.preferred \ {p}) /\ n \in Int
    BY <2>1, PeerLeaves
  <2>3. m = Cardinality(sync.started \ {p}) /\ m \in Int
    BY <2>1, PeerLeaves
  <2>4. t \in [Peer -> Int]
    BY <2>1 DEF Off
  <2>5. sync' = [preferred |-> sync.preferred \ {p}, nPreferredDownload |-> n,
                 started |-> sync.started \ {p}, nSyncStarted |-> m, timer |-> t]
        /\ ready' = ready \ {p} /\ nodes' = nodes \ {p}
    BY DEF FinalizeNode
  <2> HIDE DEF n, m, t
  <2> QED BY <2>1, <2>2, <2>3, <2>4, <2>5 DEF SyncOK
<1>3. AvailOK(avail')
  <2>1. PICK best \in [Peer -> Block \cup {Null}], unknown \in [Peer -> Block \cup {Null}] : \E common :
          avail = [best |-> best, unknown |-> unknown, common |-> common]
    BY Zenon DEF IInv, AvailOK
  <2>2. PICK common : avail = [best |-> best, unknown |-> unknown, common |-> common]
    BY <2>1
  <2> DEFINE B == [best EXCEPT ![p] = Null]
             U == [unknown EXCEPT ![p] = Null]
             C == [common EXCEPT ![p] = Null]
  <2>3. avail' = [best |-> B, unknown |-> U, common |-> C]
    BY Zenon, <2>2 DEF FinalizeNode
  <2>4. B \in [Peer -> Block \cup {Null}] /\ U \in [Peer -> Block \cup {Null}]
    OBVIOUS
  <2> HIDE DEF B, U, C
  <2> QED BY Zenon, <2>3, <2>4 DEF AvailOK
<1>4. NodesOK' /\ nodes' = nodes \ {p}
  BY DEF IInv, NodesOK, FinalizeNode
<1> QED BY <1>1, <1>2, <1>3, <1>4 DEF IInv

\* Every step of every thread keeps the invariant.
LEMMA Inductive == IInv /\ [Next]_vars => IInv'
<1> SUFFICES ASSUME IInv, [Next]_vars PROVE IInv'
  OBVIOUS
<1>1. CASE UNCHANGED vars
  BY <1>1 DEF vars, connVars, IInv, NodesOK
<1>2. ASSUME NEW p \in Peer, InitializeNode(p) PROVE IInv'
  BY <1>2 DEF InitializeNode, IInv, NodesOK, SyncOK
<1>3. ASSUME NEW p \in Peer, ReceivePing(p) PROVE IInv'
  BY <1>3 DEF ReceivePing, connVars, IInv, NodesOK
<1>4. ASSUME NEW p \in Peer, PeerCloses(p) PROVE IInv'
  BY <1>4 DEF PeerCloses, IInv, NodesOK
<1>5. ASSUME NEW p \in Peer, NEW b \in Block, ReceiveInv(p, b) \/ UnconnectingHeader(p, b)
      PROVE  IInv'
  <2>1. /\ p \in Talking /\ UNCHANGED <<nodes, used, ready, sync, closing, flight>>
        /\ avail' = UpdateBlockAvailability(avail, chain.known, p, b)
    BY <1>5 DEF ReceiveInv, UnconnectingHeader, connVars
  <2>2. AvailOK(avail')
    BY Zenon, <2>1, AvailabilityOK DEF IInv
  <2> QED BY <2>1, <2>2, HandlerKeeps DEF IInv
<1>6. ASSUME NEW p \in Peer, NEW b \in Block, ReceiveHeaders(p, b) PROVE IInv'
  BY <1>6, HeadersKeep DEF ReceiveHeaders
<1>7. ASSUME NEW p \in Peer, NEW b \in Block, ReceiveInvalidHeaders(p, b) PROVE IInv'
  BY <1>7, HandlerKeeps DEF ReceiveInvalidHeaders, Ban, IInv
<1>8. ASSUME NEW p \in Peer, NEW b \in Block, ReceiveBlockTxn(p, b) PROVE IInv'
  BY Zenon, <1>8, FillKeeps DEF ReceiveBlockTxn, IInv
<1>9. ASSUME NEW p \in Peer, NEW b \in Block, ReceiveBlock(p, b) \/ ReceiveDamagedBlock(p, b)
      PROVE  IInv'
  <2>1. /\ p \in Talking /\ UNCHANGED <<nodes, used, ready, sync, avail>>
        /\ flight' = MarkBlockAsReceived(flight, b) /\ closing' \subseteq closing \cup {p}
    BY <1>9 DEF ReceiveBlock, ReceiveDamagedBlock, Ban
  <2>2. FlightOK(flight') /\ Asked(flight') \subseteq nodes
    BY <2>1, ReceivedOK DEF IInv
  <2> QED BY <2>1, <2>2, HandlerKeeps DEF IInv
<1>10. ASSUME NEW b \in Block, SubmitBlock(b) PROVE IInv'
  BY <1>10 DEF SubmitBlock, connVars, IInv, NodesOK
<1> QED BY <1>1, <1>2, <1>3, <1>4, <1>5, <1>6, <1>7, <1>8, <1>9, <1>10,
           VersionKeeps, FinalizeKeeps, SendKeeps, CompactKeeps, TickKeeps DEF Next

\* It holds of a node without peers.
LEMMA Initial == Init => IInv
<1> SUFFICES ASSUME Init PROVE IInv
  OBVIOUS
<1>1. NodesOK /\ Asked(flight) = {}
  BY DEF Init, NodesOK, Asked
<1>2. SyncOK(sync, nodes, ready)
  <2> DEFINE off == [p \in Peer |-> Off]
  <2>1. off \in [Peer -> Int]
    BY DEF Off
  <2>2. sync = [preferred |-> {}, nPreferredDownload |-> 0, started |-> {},
                nSyncStarted |-> 0, timer |-> off]
    BY Zenon DEF Init
  <2> HIDE DEF off
  <2>3. Cardinality({}) = 0
    BY FS_EmptySet
  <2> QED BY <2>1, <2>2, <2>3 DEF SyncOK
<1>3. AvailOK(avail)
  <2> DEFINE none == [p \in Peer |-> Null]
  <2>1. avail = [best |-> none, unknown |-> none, common |-> none] /\ none \in [Peer -> Block \cup {Null}]
    BY DEF Init
  <2> HIDE DEF none
  <2> QED BY <2>1 DEF AvailOK
<1>4. FlightOK(flight)
  <2>1. Typed(flight)
    <3> DEFINE off == [p \in Peer |-> Off]
               zero == [p \in Peer |-> 0]
               empty == [p \in Peer |-> <<>>]
               free == [b \in Block |-> Nobody]
    <3>1. /\ off \in [Peer -> Int] /\ zero \in [Peer -> Nat] /\ zero \in [Peer -> Int]
          /\ empty \in [Peer -> Seq(Block)] /\ free \in [Block -> Peer \cup {Nobody}]
      BY DEF Off
    <3>2. flight = [queue |-> empty, partial |-> {}, inFlight |-> free,
                    nBlocksInFlight |-> zero, nValidHeaders |-> zero, nPeers |-> 0,
                    stalling |-> off, since |-> zero]
      BY Zenon DEF Init
    <3> HIDE DEF off, zero, empty, free
    <3> QED BY <3>1, <3>2 DEF Typed
  <2>2. \A p \in Peer : flight.queue[p] = <<>> /\ flight.nBlocksInFlight[p] = 0
                         /\ flight.nValidHeaders[p] = 0 /\ flight.stalling[p] = Off
    BY DEF Init
  <2>3. QueuesExact(flight)
    <3>1. \A b \in Block : flight.inFlight[b] \notin Peer
      BY Zenon, DownloadAssumption DEF Init
    <3> QED BY <2>2, <3>1 DEF QueuesExact
  <2>4. CountersExact(flight)
    BY Zenon, <1>1, <2>2, FS_EmptySet DEF Init, CountersExact, Asked
  <2> QED BY <2>1, <2>2, <2>3, <2>4 DEF FlightOK, Stalls
<1> QED BY <1>1, <1>2, <1>3, <1>4 DEF IInv

-----------------------------------------------------------------------------
(* Ages, and the blocks that the node has.                                 *)

\* A finite set of blocks has a highest one.
LEMMA HighestIs ==
    ASSUME NEW S, S \subseteq Block, S # {}
    PROVE  Highest(S) \in S
<1> DEFINE above(x) == {y \in S : Height[x] < Height[y]}
           N == {Cardinality(above(x)) : x \in S}
<1>1. ASSUME NEW x \in S
      PROVE  IsFiniteSet(above(x)) /\ Cardinality(above(x)) \in Nat
  <2>1. above(x) \subseteq Block
    OBVIOUS
  <2> QED BY <2>1, DownloadAssumption, FS_Subset, FS_CardinalityType
<1>2. PICK n \in N : \A m \in N : n <= m
  <2>1. N \subseteq Nat /\ N # {}
    BY Zenon, <1>1
  <2> HIDE DEF N
  <2> QED BY Zenon, <2>1, LeastNat
<1>3. PICK x \in S : n = Cardinality(above(x))
  BY <1>2
<1>4. ASSUME NEW y \in S PROVE Height[y] <= Height[x]
  <2> SUFFICES ASSUME Height[x] < Height[y] PROVE FALSE
    BY <1>3, HeightType
  <2>1. y \in above(x) /\ y \notin above(y) /\ above(y) \subseteq above(x)
    BY <1>3, HeightType
  <2>2. Cardinality(above(x)) <= Cardinality(above(y))
    BY Zenon, <1>2, <1>3
  <2>3. Cardinality(above(y)) \in Nat /\ Cardinality(above(x)) \in Nat /\ IsFiniteSet(above(x))
    BY <1>1, <1>3
  <2> HIDE DEF above
  <2>4. /\ Cardinality(above(y)) <= Cardinality(above(x))
        /\ Cardinality(above(y)) = Cardinality(above(x)) => above(y) = above(x)
    BY <2>1, <2>3, FS_Subset
  <2>5. \A j, k \in Nat : j <= k /\ k <= j => j = k
    OBVIOUS
  <2>6. above(y) = above(x)
    BY Zenon, <2>2, <2>3, <2>4, <2>5
  <2> QED BY Zenon, <2>1, <2>6
<1> QED BY <1>3, <1>4 DEF Highest

\* The longest download timeout is positive.
LEMMA MaxAgeType ==
    ASSUME NEW p \in Peer
    PROVE  MaxAge \in Nat /\ 0 < MaxAge
<1> DEFINE n == Cardinality(Peer) - 1
<1>1. n \in Nat
  <2>1. Cardinality(Peer) \in Nat /\ Cardinality(Peer \ {p}) \in Nat
        /\ Cardinality(Peer \ {p}) = Cardinality(Peer) - 1
    BY Zenon, PeerCount
  <2> QED BY <2>1
<1>2. MaxAge = TimeoutBase + TimeoutPerPeer * n + 1
  BY DEF MaxAge
<1> HIDE DEF n
<1>3. TimeoutPerPeer * n \in Nat /\ TimeoutBase \in Nat
  BY <1>1, DownloadAssumption
<1> QED BY <1>2, <1>3

\* MarkBlockAsReceived and MarkBlockAsInFlight only reset timers.
LEMMA HandledTimed ==
    ASSUME NEW f, FlightOK(f), Timed(f)
    PROVE  /\ \A b \in Block : Timed(MarkBlockAsReceived(f, b))
           /\ \A p \in Peer : \A list : Timed(MarkBlocksAsInFlight(f, p, list))
           /\ \A p \in Peer : Timed(Released(f, p))
           /\ \A p \in Peer : \A T : Timed(Blame(f, p, T))
<1> DEFINE D == Off..(StallTimeout + 1)
           A == 0..MaxAge
<1>1. /\ f.stalling \in [Peer -> D] /\ f.since \in [Peer -> A] /\ Typed(f)
      /\ Off \in D /\ 0 \in D /\ \A p \in Peer : 0 \in A
  BY MaxAgeType, DownloadAssumption DEF Timed, FlightOK, Off
<1>2. \A g : Timed(g) <=> g.stalling \in [Peer -> D] /\ g.since \in [Peer -> A]
  BY DEF Timed
<1>3. DOMAIN f = {"queue", "partial", "inFlight", "nBlocksInFlight", "nValidHeaders", "nPeers",
                  "stalling", "since"}
  BY <1>1 DEF Typed
<1> HIDE DEF D, A
<1>4. ASSUME NEW b \in Block PROVE Timed(MarkBlockAsReceived(f, b))
  <2> DEFINE p == f.inFlight[b]
             i == CHOOSE i \in DOMAIN f.queue[p] : f.queue[p][i] = b
             g == MarkBlockAsReceived(f, b)
             x == IF i = 1 THEN 0 ELSE f.since[p]
  <2>1. CASE p = Nobody
    BY <2>1 DEF MarkBlockAsReceived
  <2>2. CASE p # Nobody
    <3>1. p \in Peer
      BY <1>1, <2>2 DEF Typed
    <3>2. x \in A
      BY <1>1, <3>1
    <3>3. g.stalling = [f.stalling EXCEPT ![p] = Off] /\ g.since = [f.since EXCEPT ![p] = x]
      BY <1>3, <2>2 DEF MarkBlockAsReceived, NotStalling
    <3> HIDE DEF g, x, p, i
    <3>4. g.stalling \in [Peer -> D] /\ g.since \in [Peer -> A]
      BY <1>1, <3>1, <3>2, <3>3
    <3> QED BY <1>2, <3>4 DEF g
  <2> QED BY <2>1, <2>2
<1>5. ASSUME NEW p \in Peer, NEW list PROVE Timed(MarkBlocksAsInFlight(f, p, list))
  <2> DEFINE g == MarkBlocksAsInFlight(f, p, list)
             x == IF f.nBlocksInFlight[p] = 0 THEN 0 ELSE f.since[p]
  <2>1. g.stalling = f.stalling /\ g.since = [f.since EXCEPT ![p] = x]
    BY <1>3 DEF MarkBlocksAsInFlight
  <2>2. x \in A
    BY <1>1
  <2> HIDE DEF g, x
  <2>3. g.stalling \in [Peer -> D] /\ g.since \in [Peer -> A]
    BY <1>1, <2>1, <2>2
  <2> QED BY <1>2, <2>3 DEF g
<1>6. ASSUME NEW p \in Peer PROVE Timed(Released(f, p))
  <2> DEFINE g == Released(f, p)
  <2>1. g.stalling = [f.stalling EXCEPT ![p] = Off] /\ g.since = [f.since EXCEPT ![p] = 0]
    BY <1>3 DEF Released
  <2> HIDE DEF g
  <2>2. g.stalling \in [Peer -> D] /\ g.since \in [Peer -> A]
    BY <1>1, <2>1
  <2> QED BY <1>2, <2>2 DEF g
<1>7. ASSUME NEW p \in Peer, NEW T PROVE Timed(Blame(f, p, T))
  <2> DEFINE g == Blame(f, p, T)
             s == [q \in Peer |-> IF f.nBlocksInFlight[p] = 0 /\ q \in T /\ f.stalling[q] = Off
                                  THEN 0 ELSE f.stalling[q]]
  <2>1. g.stalling = s /\ g.since = f.since
    BY <1>3 DEF Blame
  <2>2. s \in [Peer -> D]
    BY <1>1
  <2> HIDE DEF g, s
  <2> QED BY <1>1, <1>2, <2>1, <2>2 DEF g
<1> QED BY <1>4, <1>5, <1>6, <1>7

\* ActivateBestChain moves the tip to a block whose chain is complete; nothing
\* that was stored is lost.
LEMMA ProcessedOK ==
    ASSUME NEW c, ChainOK(c), NEW b \in Block, NEW requested
    PROVE  ChainOK(ProcessNewBlock(c, b, requested)) /\ c.data \subseteq ProcessNewBlock(c, b, requested).data
<1> DEFINE K == c.known \cup {b}
           D == c.data \cup {b}
           I == c.invalid \cup {b}
           t == BestTip(D, c.tip)
           C == {x \in D : ChainTo[x] \subseteq D}
           d == ProcessNewBlock(c, b, requested)
<1>1. /\ c.known \subseteq Block /\ c.data \subseteq Block /\ c.invalid \subseteq Block
      /\ c.tip \in Block /\ Genesis \in c.data /\ ChainTo[c.tip] \subseteq c.data
      /\ c = [known |-> c.known, data |-> c.data, invalid |-> c.invalid, tip |-> c.tip]
  BY DEF ChainOK
<1>2. t \in Block /\ ChainTo[t] \subseteq D
  <2>1. Genesis \in C /\ C \subseteq Block
    BY <1>1, GenesisChain
  <2>2. t = IF Height[Highest(C)] > Height[c.tip] THEN Highest(C) ELSE c.tip
    BY DEF BestTip
  <2>3. Highest(C) \in C
    <3> HIDE DEF C
    <3> QED BY <2>1, HighestIs
  <2>4. Highest(C) \in Block /\ ChainTo[Highest(C)] \subseteq D
    BY <2>1, <2>3
  <2>5. c.tip \in Block /\ ChainTo[c.tip] \subseteq D
    BY <1>1
  <2> HIDE DEF C, D, t
  <2> QED BY <2>2, <2>4, <2>5
<1>3. K \subseteq Block /\ D \subseteq Block /\ I \subseteq Block /\ c.data \subseteq D /\ Genesis \in D
      /\ ChainTo[c.tip] \subseteq D
  BY <1>1
<1> DEFINE R == [known : SUBSET Block, data : SUBSET Block, invalid : SUBSET Block, tip : Block]
           u == [c EXCEPT !.known = @ \cup {b}]
<1>4. c \in R /\ u = [c EXCEPT !.known = K]
  BY DEF ChainOK
<1>5. u \in R /\ u.data = c.data /\ u.invalid = c.invalid /\ u.tip = c.tip
  <2> HIDE DEF K, u
  <2> QED BY <1>3, <1>4
<1>6. \/ d = c \/ d = u \/ d = [u EXCEPT !.invalid = @ \cup {b}]
      \/ d = [u EXCEPT !.data = @ \cup {b}, !.tip = t]
  BY DEF ProcessNewBlock
<1>7. \/ d = c \/ d = u \/ d = [u EXCEPT !.invalid = I] \/ d = [u EXCEPT !.data = D, !.tip = t]
  <2> HIDE DEF u, d, t
  <2> QED BY <1>5, <1>6, Zenon
<1> HIDE DEF u, d, K, D, I, t
<1>8. /\ d \in R
      /\ \/ d.data = c.data /\ d.tip = c.tip
         \/ d.data = D /\ d.tip = t
  <2>1. CASE d = [u EXCEPT !.invalid = I]
    BY <1>3, <1>5, <2>1
  <2>2. CASE d = [u EXCEPT !.data = D, !.tip = t]
    BY <1>2, <1>3, <1>5, <2>2, Zenon
  <2> QED BY <1>4, <1>5, <1>7, <2>1, <2>2
<1>9. ChainOK(d) /\ c.data \subseteq d.data
  BY <1>1, <1>2, <1>3, <1>8 DEF ChainOK
<1> QED BY <1>9 DEF d

\* Headers only add to the known blocks.
LEMMA HeadersOK ==
    ASSUME NEW c, ChainOK(c), NEW S, S \subseteq Block
    PROVE  ChainOK([c EXCEPT !.known = @ \cup S]) /\ [c EXCEPT !.known = @ \cup S].data = c.data
<1> DEFINE K == c.known \cup S
           d == [c EXCEPT !.known = @ \cup S]
<1>1. /\ c.known \subseteq Block /\ c.data \subseteq Block /\ c.invalid \subseteq Block
      /\ c.tip \in Block /\ Genesis \in c.data /\ ChainTo[c.tip] \subseteq c.data
      /\ c = [known |-> c.known, data |-> c.data, invalid |-> c.invalid, tip |-> c.tip]
  BY DEF ChainOK
<1>2. K \subseteq Block
  BY <1>1
<1>3. d = [c EXCEPT !.known = K]
  OBVIOUS
<1> HIDE DEF d, K
<1>4. d = [known |-> K, data |-> c.data, invalid |-> c.invalid, tip |-> c.tip]
  BY <1>1, <1>3
<1>5. ChainOK(d) /\ d.data = c.data
  BY <1>1, <1>2, <1>4 DEF ChainOK
<1> QED BY <1>5 DEF d

\* An announcement leaves pindexLastCommonBlock alone.
LEMMA CommonSame ==
    ASSUME NEW a, AvailOK(a), NEW K, NEW p \in Peer
    PROVE  /\ ProcessBlockAvailability(a, K, p).common = a.common
           /\ \A b \in Block : UpdateBlockAvailability(a, K, p, b).common = a.common
<1> DEFINE z == ProcessBlockAvailability(a, K, p)
<1>1. z.common = a.common
  BY DEF ProcessBlockAvailability, AvailOK
<1>2. AvailOK(z)
  BY AvailabilityOK
<1>3. ASSUME NEW b \in Block PROVE UpdateBlockAvailability(a, K, p, b).common = a.common
  <2> DEFINE y == Better(z.best[p], b)
  <2>1. UpdateBlockAvailability(a, K, p, b) =
          IF b \in K THEN [z EXCEPT !.best[p] = y] ELSE [z EXCEPT !.unknown[p] = b]
    BY DEF UpdateBlockAvailability
  <2> HIDE DEF z, y
  <2> QED BY <1>1, <1>2, <2>1 DEF AvailOK
<1> QED BY <1>1, <1>3

\* FindNextBlocksToDownload goes back to a block the node has, and forward over
\* blocks whose ancestors it has.
LEMMA CommonFull ==
    ASSUME Bounds, NEW a, a.common = avail.common, NEW p \in Peer, a.best[p] \in Block,
           NEW reached, reached \subseteq Block
    PROVE  /\ LastCommon(a, p) \in Block /\ LastCommon(a, p) \in Full(chain)
           /\ NextCommon(LastCommon(a, p), reached) \in Full(chain)
<1> DEFINE x == IF a.common[p] = Null THEN chain.tip ELSE a.common[p]
           S == ChainTo[x] \cap ChainTo[a.best[p]]
           start == LastCommon(a, p)
           T == {start} \cup {y \in reached : ChainTo[y] \subseteq chain.data}
<1>1. x \in Block /\ ChainTo[x] \subseteq chain.data
  <2>1. a.common[p] \in Full(chain)
    BY DEF Bounds
  <2> QED BY <2>1 DEF Bounds, ChainOK, Full
<1>2. start = Highest(S)
  BY DEF LastCommon
<1>3. S \subseteq Block /\ S # {} /\ S \subseteq ChainTo[x]
  BY Zenon, <1>1, ChainToStep, GenesisChain
<1>4. start \in S
  <2> HIDE DEF S, start
  <2> QED BY <1>2, <1>3, HighestIs
<1>5. start \in Block /\ ChainTo[start] \subseteq ChainTo[x]
  <2> HIDE DEF x, start
  <2> QED BY <1>1, <1>3, <1>4, ChainClosed
<1>6. start \in Full(chain)
  <2> HIDE DEF start, x
  <2> QED BY <1>1, <1>5 DEF Full
<1>7. NextCommon(start, reached) = Highest(T)
  BY DEF NextCommon
<1> HIDE DEF start
<1>8. T \subseteq Block /\ T # {} /\ T \subseteq Full(chain)
  BY <1>5, <1>6 DEF Full
<1>9. Highest(T) \in T
  <2> HIDE DEF T
  <2> QED BY <1>8, HighestIs
<1> QED BY <1>5, <1>6, <1>7, <1>8, <1>9 DEF start

\* A step that leaves pindexLastCommonBlock alone.
LEMMA BoundsKept ==
    ASSUME Bounds, peerBlocks' \in ClaimedHeights \cup {0},
           sync'.timer \in [Peer -> Off..(HeadersTimeout + 1)],
           avail'.common = avail.common, Timed(flight'),
           ChainOK(chain'), chain.data \subseteq chain'.data
    PROVE  Bounds'
<1>1. Full(chain) \subseteq Full(chain')
  BY DEF Full
<1>2. avail'.common \in [Peer -> Full(chain')]
  BY <1>1 DEF Bounds
<1> QED BY <1>2 DEF Bounds

\* Headers that are accepted, and the blocks asked for at once.
LEMMA HeadersBounded ==
    ASSUME IInv, Bounds, NEW p \in Peer, NEW b \in Block, NEW c, ChainOK(c), c.data = chain.data,
           HeadersAccepted(c, p, b)
    PROVE  Bounds'
<1>1. chain' = c /\ peerBlocks' = peerBlocks /\ sync' = sync
      /\ avail' = UpdateBlockAvailability(avail, c.known, p, b)
      /\ \E list : flight' = MarkBlocksAsInFlight(flight, p, list)
  BY DEF HeadersAccepted
<1>2. Timed(flight')
  BY Zenon, <1>1, HandledTimed DEF IInv, Bounds
<1>3. avail'.common = avail.common
  BY Zenon, <1>1, CommonSame DEF IInv
<1>4. /\ peerBlocks' \in ClaimedHeights \cup {0} /\ sync'.timer \in [Peer -> Off..(HeadersTimeout + 1)]
      /\ ChainOK(chain') /\ chain.data \subseteq chain'.data
  BY Zenon, <1>1 DEF Bounds
<1> QED BY <1>2, <1>3, <1>4, BoundsKept

\* What FillBlock makes of the chain and of the requests.
LEMMA FillBounded ==
    ASSUME NEW f, FlightOK(f), Timed(f), NEW c, ChainOK(c), NEW p, NEW b \in Block, FillBlock(f, c, p, b)
    PROVE  Timed(flight') /\ ChainOK(chain') /\ c.data \subseteq chain'.data
<1>1. Timed(MarkBlockAsReceived(f, b))
  BY HandledTimed
<1>2. ChainOK(ProcessNewBlock(c, b, TRUE)) /\ c.data \subseteq ProcessNewBlock(c, b, TRUE).data
  BY Zenon, ProcessedOK
<1>3. /\ flight' = f \/ flight' = MarkBlockAsReceived(f, b)
      /\ chain' = c \/ chain' = ProcessNewBlock(c, b, TRUE)
  BY Zenon DEF FillBlock
<1> QED BY Zenon, <1>1, <1>2, <1>3

\* A compact block, in any of the cases.
LEMMA CompactBounded ==
    ASSUME IInv, Bounds, NEW p \in Peer, NEW b \in Block, ReceiveCompact(p, b)
    PROVE  Bounds'
<1> DEFINE c == [chain EXCEPT !.known = @ \cup {b}]
           owner == flight.inFlight[b]
<1>1. ChainOK(c) /\ c.data = chain.data
  BY Zenon, HeadersOK DEF Bounds
<1>2. \/ HeadersAccepted(c, p, b)
      \/ /\ avail' = UpdateBlockAvailability(avail, c.known, p, b)
         /\ UNCHANGED <<peerBlocks, sync>>
         /\ \/ chain' = c /\ UNCHANGED flight
            \/ (owner = p \/ owner = Nobody) /\ CompactFromPeer(c, p, b)
            \/ CompactOptimistic(c, b)
  BY DEF ReceiveCompact
<1> HIDE DEF c
<1>3. CASE HeadersAccepted(c, p, b)
  BY <1>1, <1>3, HeadersBounded
<1>4. CASE /\ avail' = UpdateBlockAvailability(avail, c.known, p, b)
           /\ UNCHANGED <<peerBlocks, sync>>
           /\ \/ chain' = c /\ UNCHANGED flight
              \/ (owner = p \/ owner = Nobody) /\ CompactFromPeer(c, p, b)
              \/ CompactOptimistic(c, b)
  <2>1. avail'.common = avail.common
    BY Zenon, <1>4, CommonSame DEF IInv
  <2>2. FlightOK(flight) /\ Timed(flight)
    BY DEF IInv, Bounds
  <2>3. CASE chain' = c /\ UNCHANGED flight
    BY Zenon, <1>1, <2>2, <2>3, <1>4, <2>1, BoundsKept DEF Bounds
  <2>4. CASE (owner = p \/ owner = Nobody) /\ CompactFromPeer(c, p, b)
    <3> DEFINE f == IF owner = p THEN flight ELSE MarkBlocksAsInFlight(flight, p, <<b>>)
               g == [f EXCEPT !.partial = @ \cup {b}]
    <3>1. FlightOK(f) /\ Timed(f)
      <4>1. ASSUME owner # p
            PROVE  FlightOK(MarkBlocksAsInFlight(flight, p, <<b>>))
                   /\ Timed(MarkBlocksAsInFlight(flight, p, <<b>>))
        <5>1. <<b>> \in Seq(Block) /\ DOMAIN <<b>> = {1} /\ <<b>>[1] = b
          OBVIOUS
        <5>2. \A j, k \in DOMAIN <<b>> : <<b>>[j] = <<b>>[k] => j = k
          BY <5>1
        <5>3. \A j \in DOMAIN <<b>> : flight.inFlight[<<b>>[j]] = Nobody
          BY <2>4, <4>1, <5>1
        <5>4. FlightOK(MarkBlocksAsInFlight(flight, p, <<b>>))
          BY Zenon, <2>2, <5>1, <5>2, <5>3, RequestedOK
        <5> QED BY <2>2, <5>4, HandledTimed
      <4> QED BY <2>2, <4>1
    <3>2. (chain' = c /\ UNCHANGED flight) \/ FillBlock(g, c, p, b)
      BY <2>4 DEF CompactFromPeer
    <3> HIDE DEF f
    <3>3. FlightOK(g) /\ Timed(g)
      <4>1. /\ Typed(g) /\ g.queue = f.queue /\ g.inFlight = f.inFlight /\ g.nPeers = f.nPeers
            /\ g.nBlocksInFlight = f.nBlocksInFlight /\ g.nValidHeaders = f.nValidHeaders
            /\ g.stalling = f.stalling /\ g.since = f.since
        BY Zenon, <3>1 DEF FlightOK, Typed
      <4> HIDE DEF g
      <4>2. \A r \in Peer : g.stalling[r] # Off => f.queue[r] # <<>>
        BY <3>1, <4>1 DEF FlightOK, Stalls
      <4>3. FlightOK(g)
        BY <3>1, <4>1, <4>2, OthersOK
      <4> QED BY <3>1, <4>1, <4>3 DEF Timed
    <3> HIDE DEF g
    <3>4. CASE FillBlock(g, c, p, b)
      <4>1. Timed(flight') /\ ChainOK(chain') /\ c.data \subseteq chain'.data
        BY Zenon, <1>1, <3>3, <3>4, FillBounded
      <4> QED BY Zenon, <1>1, <1>4, <2>1, <4>1, BoundsKept DEF Bounds
    <3> QED BY <2>3, <3>2, <3>4
  <2>5. CASE CompactOptimistic(c, b)
    <3>1. Timed(MarkBlockAsReceived(flight, b))
      BY <2>2, HandledTimed
    <3>2. ChainOK(ProcessNewBlock(c, b, TRUE)) /\ c.data \subseteq ProcessNewBlock(c, b, TRUE).data
      BY Zenon, <1>1, ProcessedOK
    <3>3. /\ flight' = flight \/ flight' = MarkBlockAsReceived(flight, b)
          /\ chain' = c \/ chain' = ProcessNewBlock(c, b, TRUE)
      BY Zenon, <2>5 DEF CompactOptimistic
    <3>4. Timed(flight') /\ ChainOK(chain') /\ c.data \subseteq chain'.data
      BY Zenon, <1>1, <2>2, <3>1, <3>2, <3>3
    <3> QED BY Zenon, <1>1, <1>4, <2>1, <3>4, BoundsKept DEF Bounds
  <2> QED BY <1>4, <2>3, <2>4, <2>5
<1> QED BY <1>2, <1>3, <1>4

\* SendMessages starts or stops the headers timer and moves pindexLastCommonBlock.
LEMMA SendBounded ==
    ASSUME IInv, Bounds, NEW p \in Peer, SendMessages(p)
    PROVE  Bounds'
<1> DEFINE D == Off..(HeadersTimeout + 1)
           a == ProcessBlockAvailability(avail, chain.known, p)
           start == LastCommon(a, p)
           path == Walk(start, a.best[p])
           reached == Reached(path, p, MaxInTransit - flight.nBlocksInFlight[p])
           x == NextCommon(start, reached)
<1>1. sync'.timer \in [Peer -> D]
  <2>1. sync.timer \in [Peer -> D] /\ Off \in D /\ 0 \in D
    BY DownloadAssumption DEF Bounds, Off
  <2>2. "timer" \in DOMAIN sync
    BY DEF IInv, SyncOK
  <2> HIDE DEF D
  <2>3. StartSync(p).timer \in [Peer -> D] /\ "timer" \in DOMAIN StartSync(p)
    BY <2>1, <2>2 DEF StartSync
  <2> DEFINE s == StartSync(p)
  <2> HIDE DEF s
  <2>4. SyncAfter(s, p).timer \in [Peer -> D]
    BY <2>1, <2>3 DEF SyncAfter, s
  <2> QED BY <2>3, <2>4 DEF SendMessages, s
<1>2. /\ UNCHANGED <<peerBlocks, chain>>
      /\ \/ UNCHANGED <<avail, flight>>
         \/ avail' = a /\ flight' = flight
         \/ /\ a.best[p] # Null
            /\ avail' = [a EXCEPT !.common[p] = x]
            /\ \E list \in Ascending(NextBlocks(start, reached)) :
                 flight' = Blame(MarkBlocksAsInFlight(flight, p, list), p, Stallers(p, start, reached))
  BY DEF SendMessages, GetData
<1>3. AvailOK(a) /\ a.common = avail.common
  BY AvailabilityOK, CommonSame DEF IInv
<1>4. CASE UNCHANGED <<avail, flight>> \/ (avail' = a /\ flight' = flight)
  <2>1. avail'.common = avail.common /\ flight' = flight
    <3> HIDE DEF a
    <3> QED BY <1>3, <1>4
  <2> QED BY <1>1, <1>2, <2>1, BoundsKept DEF Bounds
<1>5. CASE /\ a.best[p] # Null
           /\ avail' = [a EXCEPT !.common[p] = x]
           /\ \E list \in Ascending(NextBlocks(start, reached)) :
                flight' = Blame(MarkBlocksAsInFlight(flight, p, list), p, Stallers(p, start, reached))
  <2>1. a.best[p] \in Block
    <3> HIDE DEF a
    <3> QED BY <1>3, <1>5, CommonOK
  <2>2. reached \subseteq Block
    <3>1. path \subseteq Block
      <4> HIDE DEF a, start
      <4> QED BY <2>1, ChainToStep DEF Walk
    <3> HIDE DEF path
    <3> QED BY <3>1 DEF Reached
  <2>3. x \in Full(chain)
    <3> HIDE DEF a, reached
    <3> QED BY <1>3, <2>1, <2>2, CommonFull
  <2>4. avail'.common \in [Peer -> Full(chain)]
    <3>1. avail.common \in [Peer -> Full(chain)]
      BY DEF Bounds
    <3> HIDE DEF a, x
    <3>2. avail'.common = [a.common EXCEPT ![p] = x]
      BY Zenon, <1>3, <1>5 DEF AvailOK
    <3> QED BY <1>3, <2>3, <3>1, <3>2
  <2>5. Timed(flight')
    <3> DEFINE S == NextBlocks(start, reached)
               T == Stallers(p, start, reached)
    <3>1. PICK list \in Ascending(S) : flight' = Blame(MarkBlocksAsInFlight(flight, p, list), p, T)
      BY <1>5
    <3>2. S \subseteq Block /\ \A y \in S : flight.inFlight[y] = Nobody
      <4> HIDE DEF reached, start
      <4> QED BY <2>2 DEF NextBlocks, Wanted
    <3> HIDE DEF S, T
    <3>3. /\ list \in Seq(Block)
          /\ \A j, k \in DOMAIN list : list[j] = list[k] => j = k
          /\ \A j \in DOMAIN list : list[j] \in S
      BY <3>2, AscendingList
    <3> DEFINE f == MarkBlocksAsInFlight(flight, p, list)
    <3>4. FlightOK(f)
      BY Zenon, <3>2, <3>3, RequestedOK DEF IInv
    <3>5. Timed(f)
      BY Zenon, HandledTimed DEF IInv, Bounds
    <3> HIDE DEF f
    <3>6. Timed(Blame(f, p, T))
      BY <3>4, <3>5, HandledTimed
    <3> QED BY <3>1, <3>6 DEF f
  <2> QED BY <1>1, <1>2, <2>4, <2>5 DEF Bounds
<1> QED BY <1>2, <1>4, <1>5

\* No age passes the longest timeout by more than 1.
LEMMA TickBounded ==
    ASSUME IInv, Bounds, Tick
    PROVE  Bounds'
<1> DEFINE s == [p \in Peer |-> Older(flight.stalling[p], StallTimeout)]
           t == [p \in Peer |-> IF flight.queue[p] = <<>> THEN 0
                                ELSE Older(flight.since[p], MaxAge - 1)]
           u == [p \in Peer |-> Older(sync.timer[p], HeadersTimeout)]
<1>1. ASSUME NEW n \in Nat, NEW i \in Off..(n + 1) PROVE Older(i, n) \in Off..(n + 1)
  BY DEF Older, Off
<1>2. s \in [Peer -> Off..(StallTimeout + 1)]
  BY <1>1, DownloadAssumption DEF Bounds, Timed
<1>3. u \in [Peer -> Off..(HeadersTimeout + 1)]
  BY <1>1, DownloadAssumption DEF Bounds
<1>4. t \in [Peer -> 0..MaxAge]
  <2>1. ASSUME NEW p \in Peer
        PROVE  0 \in 0..MaxAge /\ Older(flight.since[p], MaxAge - 1) \in 0..MaxAge
    <3>1. MaxAge \in Nat /\ flight.since[p] \in 0..MaxAge
      BY MaxAgeType DEF Bounds, Timed
    <3> QED BY <3>1 DEF Older, Off
  <2> QED BY <2>1
<1>5. /\ flight' = [flight EXCEPT !.stalling = s, !.since = t]
      /\ sync' = [sync EXCEPT !.timer = u]
      /\ UNCHANGED <<peerBlocks, avail, chain>>
  BY DEF Tick
<1>6. {"stalling", "since"} \subseteq DOMAIN flight /\ "timer" \in DOMAIN sync
  BY DEF IInv, FlightOK, Typed, SyncOK
<1> HIDE DEF s, t, u
<1>7. flight'.stalling = s /\ flight'.since = t /\ sync'.timer = u
  BY <1>5, <1>6
<1> QED BY <1>2, <1>3, <1>4, <1>5, <1>7, BoundsKept DEF Bounds, Timed

\* A peer that leaves has no common block any more.
LEMMA FinalizeBounded ==
    ASSUME IInv, Bounds, NEW p \in Peer, FinalizeNode(p)
    PROVE  Bounds'
<1>1. Timed(flight')
  BY HandledTimed, Zenon DEF IInv, Bounds, FinalizeNode
<1>2. UNCHANGED <<peerBlocks, chain>>
      /\ sync'.timer = [sync.timer EXCEPT ![p] = Off]
      /\ avail' = [avail EXCEPT !.best[p] = Null, !.unknown[p] = Null, !.common[p] = Null]
  BY DEF FinalizeNode
<1>3. avail'.common = [avail.common EXCEPT ![p] = Null]
  BY <1>2 DEF IInv, AvailOK
<1>4. Null \in Full(chain)
  BY ChainToStep DEF Full
<1>5. avail'.common \in [Peer -> Full(chain)]
  BY <1>3, <1>4 DEF Bounds
<1>6. sync'.timer \in [Peer -> Off..(HeadersTimeout + 1)]
  BY <1>2, DownloadAssumption DEF Bounds, Off
<1> QED BY <1>1, <1>2, <1>5, <1>6 DEF Bounds

\* Every step keeps the ages in their ranges and what is full full.
LEMMA BoundsInductive == IInv /\ Bounds /\ [Next]_vars => Bounds'
<1> SUFFICES ASSUME IInv, Bounds, [Next]_vars PROVE Bounds'
  OBVIOUS
<1>1. FlightOK(flight) /\ Timed(flight) /\ AvailOK(avail) /\ ChainOK(chain)
      /\ peerBlocks \in ClaimedHeights \cup {0} /\ sync.timer \in [Peer -> Off..(HeadersTimeout + 1)]
  BY Zenon DEF IInv, Bounds
<1>2. CASE UNCHANGED vars
  BY <1>2 DEF vars, Bounds, Timed, ChainOK, Full
<1>3. ASSUME NEW p \in Peer, InitializeNode(p) \/ PeerCloses(p) PROVE Bounds'
  BY <1>1, <1>3, BoundsKept DEF InitializeNode, PeerCloses
<1>4. ASSUME NEW p \in Peer, ReceiveVersion(p) \/ ReceivePing(p) PROVE Bounds'
  <2>1. sync'.timer = sync.timer
    BY Zenon, <1>4 DEF ReceiveVersion, ReceivePing, IInv, SyncOK
  <2> QED BY <1>1, <1>4, <2>1, BoundsKept DEF ReceiveVersion, ReceivePing
<1>5. ASSUME NEW p \in Peer, NEW b \in Block, ReceiveInv(p, b) \/ UnconnectingHeader(p, b)
      PROVE  Bounds'
  <2>1. avail' = UpdateBlockAvailability(avail, chain.known, p, b)
        /\ UNCHANGED <<peerBlocks, sync, flight, chain>>
    BY <1>5 DEF ReceiveInv, UnconnectingHeader
  <2>2. avail'.common = avail.common
    BY <1>1, <2>1, CommonSame, Zenon
  <2> QED BY Zenon, <1>1, <2>1, <2>2, BoundsKept
<1>6. ASSUME NEW p \in Peer, NEW b \in Block, ReceiveHeaders(p, b) PROVE Bounds'
  <2> DEFINE c == [chain EXCEPT !.known = @ \cup ChainTo[b]]
  <2>1. ChainTo[b] \subseteq Block
    BY ChainToStep
  <2>2. ChainOK(c) /\ c.data = chain.data
    BY <1>1, <2>1, HeadersOK, Zenon
  <2>3. HeadersAccepted(c, p, b)
    BY <1>6 DEF ReceiveHeaders
  <2> HIDE DEF c
  <2> QED BY <2>2, <2>3, HeadersBounded
<1>7. ASSUME NEW p \in Peer, NEW b \in Block, ReceiveInvalidHeaders(p, b) PROVE Bounds'
  BY Zenon, <1>1, <1>7, BoundsKept DEF ReceiveInvalidHeaders
<1>8. ASSUME NEW p \in Peer, NEW b \in Block, ReceiveBlockTxn(p, b) PROVE Bounds'
  <2>1. FillBlock(flight, chain, p, b) /\ UNCHANGED <<peerBlocks, sync, avail>>
    BY <1>8 DEF ReceiveBlockTxn
  <2>2. Timed(flight') /\ ChainOK(chain') /\ chain.data \subseteq chain'.data
    BY <1>1, <2>1, FillBounded, Zenon
  <2> QED BY Zenon, <1>1, <2>1, <2>2, BoundsKept
<1>9. ASSUME NEW p \in Peer, NEW b \in Block, ReceiveBlock(p, b) \/ ReceiveDamagedBlock(p, b)
      PROVE  Bounds'
  <2>1. /\ flight' = MarkBlockAsReceived(flight, b) /\ UNCHANGED <<peerBlocks, sync, avail>>
        /\ chain' = chain \/ \E r : chain' = ProcessNewBlock(chain, b, r)
    BY <1>9, Zenon DEF ReceiveBlock, ReceiveDamagedBlock
  <2>2. Timed(flight')
    BY <1>1, <2>1, HandledTimed, Zenon
  <2>3. ChainOK(chain') /\ chain.data \subseteq chain'.data
    BY <1>1, <2>1, ProcessedOK, Zenon
  <2> QED BY Zenon, <1>1, <2>1, <2>2, <2>3, BoundsKept
<1>10. ASSUME NEW b \in Block, SubmitBlock(b) PROVE Bounds'
  <2>1. chain' = ProcessNewBlock(chain, b, TRUE) /\ UNCHANGED <<peerBlocks, sync, avail, flight>>
    BY <1>10 DEF SubmitBlock
  <2>2. ChainOK(chain') /\ chain.data \subseteq chain'.data
    BY <1>1, <2>1, ProcessedOK, Zenon
  <2> QED BY Zenon, <1>1, <2>1, <2>2, BoundsKept
<1> QED BY <1>2, <1>3, <1>4, <1>5, <1>6, <1>7, <1>8, <1>9, <1>10,
           FinalizeBounded, SendBounded, CompactBounded, TickBounded DEF Next

\* A new node has the genesis block, and no peer.
LEMMA BoundsInitial == Init => Bounds
<1> SUFFICES ASSUME Init PROVE Bounds
  OBVIOUS
<1>1. Genesis \in Block
  BY TreeAssumption
<1>2. ChainOK(chain)
  BY Zenon, <1>1, GenesisChain DEF Init, ChainOK
<1>3. Null \in Full(chain)
  BY ChainToStep DEF Full
<1>4. Timed(flight)
  <2>1. [p \in Peer |-> 0] \in [Peer -> 0..MaxAge]
    BY MaxAgeType
  <2>2. [p \in Peer |-> Off] \in [Peer -> Off..(StallTimeout + 1)]
    BY DownloadAssumption DEF Off
  <2>3. flight.since = [p \in Peer |-> 0] /\ flight.stalling = [p \in Peer |-> Off]
    BY Zenon DEF Init
  <2> QED BY <2>1, <2>2, <2>3 DEF Timed
<1>5. sync.timer \in [Peer -> Off..(HeadersTimeout + 1)]
  <2>1. [p \in Peer |-> Off] \in [Peer -> Off..(HeadersTimeout + 1)]
    BY DownloadAssumption DEF Off
  <2> QED BY <2>1 DEF Init
<1>6. avail.common \in [Peer -> Full(chain)]
  <2>1. avail.common = [p \in Peer |-> Null]
    BY Zenon DEF Init
  <2> QED BY <1>3, <2>1
<1>7. peerBlocks \in ClaimedHeights \cup {0}
  BY Zenon DEF Init
<1> QED BY <1>2, <1>4, <1>5, <1>6, <1>7 DEF Bounds

-----------------------------------------------------------------------------
\* Whatever the peers send, and in whatever order they come and go: the requests
\* in mapBlocksInFlight are those of the queues, each block is asked from one
\* peer at most, only connected peers hold requests, and the totals that
\* FinalizeNode asserts to be 0 after the last peer are exact.
THEOREM InFlightExactHolds == Spec => []InFlightExact
<1>1. IInv => InFlightExact
  BY DEF IInv, NodesOK, SyncOK, FlightOK, Asked, InFlightExact
<1> QED BY <1>1, Initial, Inductive, PTL DEF Spec

\* A peer that SendMessages disconnects as a staller owes a block at that moment.
THEOREM StallerHoldsBlockHolds == Spec => []StallerHoldsBlock
<1>1. IInv => StallerHoldsBlock
  BY DEF IInv, FlightOK, Stalls, StallerHoldsBlock
<1> QED BY <1>1, Initial, Inductive, PTL DEF Spec

\* Every field of CNodeState and every total has its type, and the ages that
\* SendMessages compares with its timeouts stay within one tick of them.
THEOREM TypeOKHolds == Spec => []TypeOK
<1>1. IInv /\ Bounds => TypeOK
  <2> SUFFICES ASSUME IInv, Bounds PROVE TypeOK
    OBVIOUS
  <2>1. sync \in [preferred : SUBSET Peer, nPreferredDownload : Nat, started : SUBSET Peer,
                  nSyncStarted : Nat, timer : [Peer -> Off..(HeadersTimeout + 1)]]
    <3>1. sync.preferred \subseteq Peer /\ sync.started \subseteq Peer
      BY DEF IInv, SyncOK
    <3>2. Cardinality(sync.preferred) \in Nat /\ Cardinality(sync.started) \in Nat
      BY <3>1, PeerCount, Zenon
    <3> QED BY Zenon, <3>2 DEF IInv, SyncOK, Bounds
  <2>2. avail \in [best : [Peer -> Block \cup {Null}], unknown : [Peer -> Block \cup {Null}],
                   common : [Peer -> Block \cup {Null}]]
    <3>1. avail.common \in [Peer -> Block \cup {Null}]
      BY DEF Bounds, Full
    <3> QED BY <3>1 DEF IInv, AvailOK
  <2>3. flight \in [queue : [Peer -> Seq(Block)], partial : SUBSET Block,
                    inFlight : [Block -> Peer \cup {Nobody}],
                    nBlocksInFlight : [Peer -> Nat], nValidHeaders : [Peer -> Nat], nPeers : Nat,
                    stalling : [Peer -> Off..(StallTimeout + 1)], since : [Peer -> 0..MaxAge]]
    BY Zenon DEF IInv, FlightOK, Typed, Bounds, Timed
  <2> QED BY Zenon, <2>1, <2>2, <2>3 DEF IInv, NodesOK, Bounds, ChainOK, TypeOK
<1> QED BY <1>1, Initial, Inductive, BoundsInitial, BoundsInductive, PTL DEF Spec

\* In whatever order blocks arrive, asked for, pushed or submitted: the node has
\* every ancestor of the tip and of every pindexLastCommonBlock, so what
\* FindNextBlocksToDownload skips below it is never missing.
THEOREM CommonIsFullHolds == Spec => []CommonIsFull
<1>1. IInv /\ Bounds => CommonIsFull
  BY DEF Bounds, ChainOK, Full, CommonIsFull
<1> QED BY <1>1, Initial, Inductive, BoundsInitial, BoundsInductive, PTL DEF Spec

=============================================================================
