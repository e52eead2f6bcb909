----------------------------- MODULE BlockIndex -----------------------------
(***************************************************************************)
(* CChainState: the tree of block headers, which of its branches may       *)
(* become the active chain, and the steps that move the active tip.        *)
(*                                                                         *)
(* Header and block arrival (AcceptBlockHeader, AcceptBlock), the steps of *)
(* ActivateBestChain, which gives cs_main up between two steps, the RPCs   *)
(* invalidateblock, reconsiderblock and preciousblock, the writing of the  *)
(* index and of the coins, and a crash with the reload that follows.       *)
(* Blocks are valid or not by constants; coins are in ChainRecovery.       *)
(* Pruning of block files is not modelled, so BLOCK_HAVE_DATA, nTx > 0 and *)
(* BLOCK_VALID_TRANSACTIONS are one flag.                                  *)
(***************************************************************************)
EXTENDS BlockTree, FiniteSets

CONSTANTS
    Headers,            \* headers in the index at the start
    BadBlock,           \* blocks that CheckBlock or ContextualCheckBlock rejects
    BadScripts,         \* blocks that ConnectBlock rejects
    AddrOrders,         \* possible orders of the CBlockIndex addresses
    Interleave,         \* other operations run between two steps of ActivateBestChain
    AnyTarget,          \* invalidate- and reconsiderblock take any block: see below
    WriteFailedTip,     \* the index is written alone while the stored tip is failed
    DemoteTip,          \* preciousblock may raise the sequence number of the tip
    MaxRpc,             \* bound on invalidate-, reconsider- and preciousblock calls
    MaxCrashes

VARIABLES
    idx,        \* nStatus of mapBlockIndex: [known, data, scripts, fv, fc] as sets
    linked,     \* blocks with nChainTx # 0
    seq,        \* nSequenceId
    addr,       \* order of the CBlockIndex addresses
    nextSeq, revSeq, lastPrecious,
    candidates, \* setBlockIndexCandidates
    unlinked,   \* second components of mapBlocksUnlinked
    failed,     \* g_failed_blocks
    tip,        \* chainActive.Tip()
    active,     \* ActivateBestChain is running
    mostWork,   \* its pindexMostWork
    dirty,      \* setDirtyBlockIndex
    disk,       \* the stored nStatus
    diskTip,    \* the best block of the stored coins
    aborted,    \* an assertion failed
    rpcs, crashes

memVars == <<idx, linked, seq, nextSeq, candidates, unlinked, failed, tip, dirty>>
rpcVars == <<revSeq, lastPrecious, rpcs>>
diskVars == <<disk, diskTip, addr, crashes>>
vars == <<memVars, rpcVars, diskVars, active, mostWork, aborted>>

\* The index is keyed by uint256, so there are finitely many blocks; objects at
\* different places have different addresses.
ASSUME IndexAssumption ==
    /\ IsFiniteSet(Block)
    /\ Genesis \in Headers /\ Headers \subseteq Block
    /\ \A b \in Headers \ {Genesis} : Parent[b] \in Headers
    /\ BadBlock \subseteq Block \ {Genesis} /\ BadScripts \subseteq Block \ {Genesis}
    /\ AddrOrders \subseteq [Block -> Int]
    /\ \A a \in AddrOrders : \A x, y \in Block : a[x] = a[y] => x = y
    /\ {Interleave, AnyTarget, WriteFailedTip, DemoteTip} \subseteq BOOLEAN
    /\ MaxRpc \in Nat /\ MaxCrashes \in Nat

\* GetAncestor(b->nHeight) == a
Descends(b, a) == a \in ChainTo[b]

-----------------------------------------------------------------------------
Failed(i) == i.fv \cup i.fc

\* CBlockIndexWorkComparator: less work, then received later, then by address.
WorseAt(a, s, x, y) ==
    \/ Height[x] < Height[y]
    \/ Height[x] = Height[y] /\ s[x] > s[y]
    \/ Height[x] = Height[y] /\ s[x] = s[y] /\ a[x] > a[y]

Worse(s, x, y) == WorseAt(addr, s, x, y)

\* IsValid(BLOCK_VALID_TRANSACTIONS) and nChainTx.
ValidLinked(i, l) == (i.data \cap l) \ Failed(i)

\* PruneBlockIndexCandidates
Pruned(c, s, t) == {x \in c : ~Worse(s, x, t)}

\* While ActivateBestChain is between two steps, others run only if they do.
MayRun == ~aborted /\ (active => Interleave)

Lowest(S) == CHOOSE x \in S : \A y \in S : Height[x] <= Height[y]
Highest(S) == CHOOSE x \in S : \A y \in S : Height[y] <= Height[x]

Init ==
    /\ idx = [known |-> Headers, data |-> {Genesis}, scripts |-> {}, fv |-> {}, fc |-> {}]
    /\ linked = {Genesis}
    /\ seq = [b \in Block |-> IF b = Genesis THEN 1 ELSE 0]
    /\ addr \in AddrOrders
    /\ nextSeq = 2
    /\ revSeq = -1
    /\ lastPrecious = 0
    /\ candidates = {Genesis}
    /\ unlinked = {}
    /\ failed = {}
    /\ tip = Genesis
    /\ active = FALSE
    /\ mostWork = Null
    /\ dirty = {}
    /\ disk = idx
    /\ diskTip = Genesis
    /\ aborted = FALSE
    /\ rpcs = 0
    /\ crashes = 0

-----------------------------------------------------------------------------
(* Headers and blocks arrive.                                              *)

\* A new header whose parent is known and not failed joins the index, unless
\* the parent descends from a block of g_failed_blocks: then the blocks in
\* between are marked and the header is rejected.
AcceptBlockHeader(b) ==
    /\ MayRun
    /\ b \notin idx.known
    /\ Parent[b] \in idx.known \ Failed(idx)
    /\ LET prev == Parent[b]
           bad  == IF prev \in idx.scripts THEN {} ELSE {f \in failed : Descends(prev, f)}
       IN  \/ /\ bad = {}
              /\ idx' = [idx EXCEPT !.known = @ \cup {b}]
              /\ dirty' = dirty \cup {b}
              /\ aborted' = aborted
           \/ \E f \in bad :
                /\ aborted' = (f \notin idx.fv)
                /\ idx' = [idx EXCEPT !.fc = @ \cup (ChainTo[prev] \ ChainTo[f])]
                /\ dirty' = dirty \cup (ChainTo[prev] \ ChainTo[f])
    /\ UNCHANGED <<linked, seq, nextSeq, candidates, unlinked, failed, tip,
                   rpcVars, diskVars, active, mostWork>>

\* ReceivedBlockTransactions, parent not linked yet.
Unlinked(b) ==
    /\ Parent[b] \notin linked
    /\ unlinked' = IF Parent[b] \in Failed(idx) THEN unlinked ELSE unlinked \cup {b}
    /\ UNCHANGED <<linked, seq, nextSeq, candidates>>

\* Mutant: the blocks that wait in mapBlocksUnlinked are left there.
JoiningAlone(b) == {b}

\* b and the blocks in mapBlocksUnlinked that are reached from it.
Joining(b) ==
    {b} \cup {x \in unlinked : Descends(x, b) /\ ChainTo[x] \ ChainTo[b] \subseteq unlinked}

\* ReceivedBlockTransactions, parent linked: b and the blocks that waited for
\* it get their sequence numbers, parents first.
Linked(b) ==
    /\ Parent[b] \in linked
    /\ LET joined == Joining(b)
       IN  \E order \in [joined -> 1..Cardinality(joined)] :
             /\ \A x, y \in joined : x # y => order[x] # order[y]
             /\ \A x, y \in joined : Height[x] < Height[y] => order[x] < order[y]
             /\ linked' = linked \cup joined
             /\ seq' = [x \in Block |-> IF x \in joined THEN nextSeq - 1 + order[x] ELSE seq[x]]
             /\ nextSeq' = nextSeq + Cardinality(joined)
             /\ candidates' = candidates \cup {x \in joined : ~Worse(seq', x, tip)}
             /\ unlinked' = unlinked \ joined

\* A block whose header is known and not failed: checked, stored, linked.
AcceptBlock(b) ==
    /\ MayRun
    /\ b \in idx.known \ (idx.data \cup Failed(idx))
    /\ IF b \in BadBlock
       THEN /\ idx' = [idx EXCEPT !.fv = @ \cup {b}]
            /\ UNCHANGED <<linked, seq, nextSeq, candidates, unlinked>>
       ELSE /\ idx' = [idx EXCEPT !.data = @ \cup {b}]
            /\ Unlinked(b) \/ Linked(b)
    /\ dirty' = dirty \cup {b}
    /\ UNCHANGED <<failed, tip, rpcVars, diskVars, active, mostWork, aborted>>

-----------------------------------------------------------------------------
(* ActivateBestChain                                                       *)

\* Blocks that path c to the active chain makes unusable.
FailedOnPath(c) == (ChainTo[c] \ ChainTo[tip]) \cap Failed(idx)

\* Mutant: the best candidate is taken without looking at its ancestors.
UsableBlindly == candidates

\* The candidates all of whose ancestors outside the active chain are good.
Usable == {c \in candidates : FailedOnPath(c) = {}}

\* Mutant: begin() for rbegin().
Worst(S) == CHOOSE c \in S : \A x \in S \ {c} : Worse(seq, c, x)

\* The last element of a set ordered by CBlockIndexWorkComparator.
Best(S) == CHOOSE c \in S : \A x \in S \ {c} : Worse(seq, x, c)

\* What FindMostWorkChain returns.
FindMostWorkChain == IF Usable = {} THEN Null ELSE Best(Usable)

\* The unusable candidates it met before that one.
Skipped == {c \in candidates \ Usable : Usable = {} \/ Worse(seq, Best(Usable), c)}

\* It takes each of them, down to its highest failed ancestor, off the
\* candidates, and marks the blocks above that one failed: not dirty.
SkippedFrom(c) == {x \in ChainTo[c] : Height[x] >= Height[Highest(FailedOnPath(c))]}
SkippedBlocks == UNION {SkippedFrom(c) : c \in Skipped}
SkippedChildren == UNION {SkippedFrom(c) \ {Highest(FailedOnPath(c))} : c \in Skipped}

\* ActivateBestChainStep connects towards m until the new tip has more work
\* than the old one, or a block turns out to be invalid.
ConnectedUpTo(m) ==
    LET path  == ChainTo[m] \ ChainTo[tip]
        stops == {x \in path : Height[x] > Height[tip] \/ x \in BadScripts}
    IN  IF stops = {} THEN m ELSE Lowest(stops)

\* The candidates after the blocks up to t were connected.
LeftAt(t, c) == IF ChainTo[t] \subseteq ChainTo[tip] THEN c ELSE Pruned(c, seq, t)

\* The tip moves to t: RaiseValidity leaves failed blocks alone, and
\* PruneBlockIndexCandidates asserts that a candidate is left.
WalkTo(t, i, c) ==
    LET new == ChainTo[t] \ ChainTo[tip]
    IN  /\ tip' = t
        /\ idx' = [i EXCEPT !.scripts = @ \cup (new \ Failed(i))]
        /\ dirty' = dirty \cup (new \ i.scripts) \cup (i.fv \ idx.fv)
        /\ aborted' = (new # {} /\ LeftAt(t, c) = {})

StepConnects(last, m, i, c) ==
    /\ WalkTo(last, i, c)
    /\ candidates' = LeftAt(last, c)
    /\ mostWork' = IF last = m THEN Null ELSE m
    /\ active' = (last # m)
    /\ UNCHANGED failed

\* Mutant: InvalidBlockFound only adds the block to g_failed_blocks.
StepFailsUnmarked(last, i, c) ==
    /\ WalkTo(Parent[last], i, c)
    /\ candidates' = LeftAt(Parent[last], c)
    /\ failed' = failed \cup {last}
    /\ mostWork' = Null
    /\ UNCHANGED active

\* The last block of the walk is invalid: InvalidBlockFound. The tip is its
\* parent until the next step looks for another branch.
StepFails(last, i, c) ==
    /\ WalkTo(Parent[last], [i EXCEPT !.fv = @ \cup {last}], c)
    /\ candidates' = LeftAt(Parent[last], c) \ {last}
    /\ failed' = failed \cup {last}
    /\ mostWork' = Null
    /\ UNCHANGED active

\* There is no branch to move to: ActivateBestChain returns.
NothingToDo(m, i, c) ==
    /\ m \in {Null, tip}
    /\ idx' = i
    /\ candidates' = c
    /\ active' = FALSE
    /\ mostWork' = Null
    /\ UNCHANGED <<tip, dirty, failed, aborted>>

\* ActivateBestChain is called: after every block that arrives and every RPC.
ActivateBestChain ==
    /\ ~active /\ ~aborted
    /\ active' = TRUE
    /\ UNCHANGED <<memVars, rpcVars, diskVars, mostWork, aborted>>

\* One pass of its loop, under cs_main.
ActivateBestChainStep ==
    /\ active /\ ~aborted
    /\ \E m \in {IF mostWork = Null THEN FindMostWorkChain ELSE mostWork},
          i \in {IF mostWork = Null THEN [idx EXCEPT !.fc = @ \cup SkippedChildren] ELSE idx},
          c \in {IF mostWork = Null THEN candidates \ SkippedBlocks ELSE candidates} :
         \/ NothingToDo(m, i, c)
         \/ /\ m \notin {Null, tip}
            /\ \E last \in {ConnectedUpTo(m)} :
                 \/ last \in BadScripts /\ StepFails(last, i, c)
                 \/ last \notin BadScripts /\ StepConnects(last, m, i, c)
    /\ UNCHANGED <<linked, seq, nextSeq, unlinked, rpcVars, diskVars>>

-----------------------------------------------------------------------------
(* The RPCs. Each takes cs_main once; ActivateBestChain follows.           *)

\* Mutant: one block too many is disconnected.
TipTwoBelow(b) == IF b \in ChainTo[tip] THEN Parent[Parent[b]] ELSE tip

\* The tip once b is disconnected.
TipBelow(b) == IF b \in ChainTo[tip] THEN Parent[b] ELSE tip

\* Mutant: the candidates are not refilled.
NoRefill(i, t) == {}

\* "The resulting new best tip may not be in setBlockIndexCandidates anymore".
Refill(i, t) == Pruned(ValidLinked(i, linked), seq, t)

\* The active chain is cut below b, the blocks cut off are marked, and every
\* valid block no worse than the tip left is a candidate again. With AnyTarget
\* FALSE the ancestors' data of b are there.
InvalidateBlock(b) ==
    /\ MayRun /\ rpcs < MaxRpc
    /\ b \in idx.known \ {Genesis}
    /\ AnyTarget \/ b \in linked
    /\ LET above == IF b \in ChainTo[tip] THEN ChainTo[tip] \ ChainTo[b] ELSE {}
       IN  /\ tip' = TipBelow(b)
           /\ idx' = [idx EXCEPT !.fv = @ \cup {b}, !.fc = @ \cup above]
           /\ dirty' = dirty \cup above \cup {b}
           /\ failed' = failed \cup {b}
           /\ candidates' = (candidates \ (above \cup {b})) \cup Refill(idx', tip')
    /\ rpcs' = rpcs + 1
    /\ UNCHANGED <<linked, seq, nextSeq, unlinked, revSeq, lastPrecious, diskVars,
                   active, mostWork, aborted>>

\* b and its descendants that fail IsValid().
ClearedBy(b) == {x \in idx.known : Descends(x, b) /\ (x \in Failed(idx) \/ x \notin idx.data)}

\* With AnyTarget FALSE no ancestor is failed, and all the blocks cleared
\* have their ancestors' data.
ResetBlockFailureFlags(b) ==
    /\ MayRun /\ rpcs < MaxRpc
    /\ b \in idx.known /\ Failed(idx) \cap (ChainTo[b] \cup ClearedBy(b)) # {}
    /\ AnyTarget \/ /\ Failed(idx) \cap ChainTo[Parent[b]] = {}
                    /\ Failed(idx) \cap ClearedBy(b) \subseteq linked
    /\ LET cleared == ClearedBy(b) \cup (ChainTo[b] \cap Failed(idx))
       IN  /\ idx' = [idx EXCEPT !.fv = @ \ cleared, !.fc = @ \ cleared]
           /\ dirty' = dirty \cup cleared
    /\ candidates' = candidates \cup {x \in ClearedBy(b) \cap ValidLinked(idx', linked) :
                                        Worse(seq, tip, x)}
    /\ failed' = failed \ ClearedBy(b)
    /\ rpcs' = rpcs + 1
    /\ UNCHANGED <<linked, seq, nextSeq, unlinked, tip, revSeq, lastPrecious, diskVars,
                   active, mostWork, aborted>>

\* b gets a sequence number meant to be below all others of its work. The
\* counter starts again at -1 when the chain has grown, and the tip may have a
\* lower number by then: with DemoteTip FALSE it has not.
PreciousBlock(b) ==
    /\ MayRun /\ rpcs < MaxRpc
    /\ b \in idx.known
    /\ Height[b] >= Height[tip]
    /\ LET id == IF Height[tip] > lastPrecious THEN -1 ELSE revSeq
       IN  /\ DemoteTip \/ b # tip \/ id <= seq[tip]
           /\ seq' = [seq EXCEPT ![b] = id]
           /\ revSeq' = id - 1
    /\ lastPrecious' = Height[tip]
    /\ IF b \in ValidLinked(idx, linked)
       THEN /\ candidates' = Pruned(candidates \cup {b}, seq', tip)
            /\ aborted' = (candidates' = {})
       ELSE /\ candidates' = candidates \ {b}
            /\ UNCHANGED aborted
    /\ rpcs' = rpcs + 1
    /\ UNCHANGED <<idx, linked, nextSeq, unlinked, failed, tip, dirty, diskVars, active, mostWork>>

-----------------------------------------------------------------------------
(* The disk.                                                               *)

\* The dirty entries of m replace those of d.
Merged(d, m) == (d \ dirty) \cup (m \cap dirty)

\* Mutant: BLOCK_FAILED_VALID is not written.
WrittenNoFailedValid ==
    [known |-> Merged(disk.known, idx.known), data |-> Merged(disk.data, idx.data),
     scripts |-> Merged(disk.scripts, idx.scripts), fv |-> disk.fv, fc |-> Merged(disk.fc, idx.fc)]

\* The stored index once FlushStateToDisk has written the dirty entries.
Written ==
    [known |-> Merged(disk.known, idx.known), data |-> Merged(disk.data, idx.data),
     scripts |-> Merged(disk.scripts, idx.scripts), fv |-> Merged(disk.fv, idx.fv),
     fc |-> Merged(disk.fc, idx.fc)]

\* (What is written after the last crash is never read: it is left out.)
\* FlushStateToDisk writes the index alone, an hour after the last time. With
\* WriteFailedTip FALSE no block of the stored chain is failed then.
WriteIndex ==
    /\ MayRun /\ crashes < MaxCrashes
    /\ dirty # {}
    /\ WriteFailedTip \/ ChainTo[diskTip] \cap Failed(idx) = {}
    /\ disk' = Written
    /\ dirty' = {}
    /\ UNCHANGED <<idx, linked, seq, nextSeq, candidates, unlinked, failed, tip,
                   rpcVars, diskTip, addr, crashes, active, mostWork, aborted>>

\* Mutant: a tip that only went back is not written.
FlushStateToDiskForward ==
    /\ MayRun /\ crashes < MaxCrashes
    /\ tip # diskTip
    /\ disk' = Written
    /\ diskTip' = IF Height[tip] < Height[diskTip] THEN diskTip ELSE tip
    /\ dirty' = {}
    /\ UNCHANGED <<idx, linked, seq, nextSeq, candidates, unlinked, failed, tip,
                   rpcVars, addr, crashes, active, mostWork, aborted>>

\* FlushStateToDisk writes the index, then the coins.
FlushStateToDisk ==
    /\ MayRun /\ crashes < MaxCrashes
    /\ tip # diskTip
    /\ disk' = Written
    /\ diskTip' = tip
    /\ dirty' = {}
    /\ UNCHANGED <<idx, linked, seq, nextSeq, candidates, unlinked, failed, tip,
                   rpcVars, addr, crashes, active, mostWork, aborted>>

\* LoadBlockIndex marks the descendants of failed blocks.
Loaded(d) == [d EXCEPT !.fc = @ \cup {b \in d.known \ Failed(d) : ChainTo[b] \cap Failed(d) # {}}]

\* The blocks for which LoadBlockIndex finds no linked parent.
LoadedUnlinked(i, l) == i.data \ l

\* A crash at any point and the next start: LoadBlockIndex, LoadChainTip, and
\* the flush at the end of RewindBlockIndex, which changes nothing else.
Restart ==
    /\ crashes < MaxCrashes /\ ~aborted
    /\ crashes' = crashes + 1
    /\ addr' \in AddrOrders
    /\ seq' = [b \in Block |-> 0]
    /\ idx' = Loaded(disk)
    /\ linked' = {b \in idx'.data : ChainTo[b] \subseteq idx'.data}
    /\ unlinked' = LoadedUnlinked(idx', linked')
    /\ tip' = diskTip
    /\ candidates' = {b \in ValidLinked(idx', linked') : ~WorseAt(addr', seq', b, tip')}
    /\ aborted' = (candidates' = {})
    /\ disk' = idx'
    /\ dirty' = {} /\ failed' = {}
    /\ nextSeq' = 1 /\ revSeq' = -1 /\ lastPrecious' = 0
    /\ active' = FALSE /\ mostWork' = Null
    /\ UNCHANGED <<diskTip, rpcs>>

-----------------------------------------------------------------------------
Next ==
    \/ \E b \in Block : \/ AcceptBlockHeader(b)
                        \/ AcceptBlock(b)
                        \/ InvalidateBlock(b)
                        \/ ResetBlockFailureFlags(b)
                        \/ PreciousBlock(b)
    \/ ActivateBestChain
    \/ ActivateBestChainStep
    \/ WriteIndex
    \/ FlushStateToDisk
    \/ Restart

\* ActivateBestChain runs in a thread that gets cs_main again and again.
Fairness == WF_vars(ActivateBestChainStep)

Spec == Init /\ [][Next]_vars /\ Fairness

-----------------------------------------------------------------------------
(* Properties                                                              *)

Status == [known : SUBSET Block, data : SUBSET Block, scripts : SUBSET Block,
           fv : SUBSET Block, fc : SUBSET Block]

\* Every variable has its type; a tip exists (chainActive.Tip() is never null
\* once the genesis block is connected).
TypeOK ==
    /\ idx \in Status /\ disk \in Status
    /\ {linked, candidates, unlinked, failed, dirty} \subseteq SUBSET Block
    /\ seq \in [Block -> (-MaxRpc)..Cardinality(Block)]
    /\ addr \in AddrOrders
    /\ nextSeq \in 1..(Cardinality(Block) + 1)
    /\ revSeq \in (-MaxRpc - 1)..(-1)
    /\ lastPrecious \in 0..Cardinality(Block)
    /\ tip \in Block /\ diskTip \in Block
    /\ mostWork \in Block \cup {Null}
    /\ {active, aborted} \subseteq BOOLEAN
    /\ rpcs \in 0..MaxRpc /\ crashes \in 0..MaxCrashes

\* CheckBlockIndex, when ActivateBestChain is not half way: the candidates hold
\* every linked block no worse than the tip without an invalid ancestor, and
\* only linked blocks no worse than the tip.
CandidatesExact ==
    ~active =>
        LET least == {b \in linked : ~Worse(seq, b, tip)}
        IN  /\ candidates \subseteq least
            /\ {b \in least : ChainTo[b] \cap idx.fv = {}} \subseteq candidates

\* CheckBlockIndex: nChainTx, set by walking mapBlocksUnlinked as blocks arrive
\* out of order, says that all ancestors have their data; a block that waits
\* for an ancestor and has no invalid one is in mapBlocksUnlinked.
LinkedExact ==
    LET complete == {b \in Block : ChainTo[b] \subseteq idx.data}
    IN  /\ linked = complete
        /\ unlinked \subseteq idx.data \ complete
        /\ {b \in idx.data \ complete : ChainTo[b] \cap idx.fv = {}} \subseteq unlinked

\* CheckBlockIndex: a block marked failed has an invalid ancestor or is one, in
\* memory and in the stored index: no valid branch is lost for good.
FailureHasCause ==
    \A i \in {idx, disk} : \A b \in Failed(i) : ChainTo[b] \cap i.fv # {}

\* FindMostWorkChain takes the blocks of the active chain for valid: none is
\* marked failed, and all passed ConnectBlock.
ActiveChainValid ==
    /\ ChainTo[tip] \cap Failed(idx) = {}
    /\ ChainTo[tip] \cap BadScripts = {}

\* The assertions on setBlockIndexCandidates and g_failed_blocks hold, at
\* start-up too.
NoAssertFails == ~aborted

\* ActivateBestChain ends with "an activated best chain": no linked block with
\* good ancestors sorts better than the tip it leaves.
BestChainActivated ==
    [][active /\ ~active' /\ crashes' = crashes =>
         \A b \in linked' : (ChainTo[b] \cap Failed(idx)' = {}) => ~Worse(seq, tip', b)]_vars

\* ActivateBestChain ends: an invalid block is never tried for ever.
ActivationEnds == active ~> ~active

=============================================================================
