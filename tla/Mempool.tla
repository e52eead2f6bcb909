------------------------------ MODULE Mempool ------------------------------
(***************************************************************************)
(* txmempool.cpp with its callers in validation.cpp and the serials of     *)
(* zerocoin.cpp: the transactions waiting for a block, through arrivals,   *)
(* replacements, evictions, expiry, blocks and reorganisations.            *)
(*                                                                         *)
(* Steps of ActivateBestChainStep and InvalidateBlock hold cs_main from    *)
(* the first to the last, so no transaction arrives in between; but        *)
(* PrioritiseTransaction takes mempool.cs alone (LoadMempool, DSTX) and    *)
(* falls between any two.  All transactions have the same size: the totals *)
(* kept for it are the number and the fees.  Zerocoin mints, which the     *)
(* pool treats like other transactions, and persistence are left out.      *)
(***************************************************************************)
EXTENDS Integers, Sequences, FiniteSets, SequencesExt

CONSTANTS
    Tx,
    Ins, Outs,          \* the outpoints a transaction spends and makes
    Coinbase,           \* transactions that are the first of a block
    ZerocoinSpend,      \* transactions that spend serials instead of outpoints
    Serials,            \* the serials of each transaction
    Replaceable,        \* transactions that signal BIP 125
    LockHeight,         \* the first height at which a transaction is final
    Fee,
    Funds,              \* outpoints in the UTXO set at the start
    Blocks,             \* the blocks that may be connected, as sequences of Tx
    Prioritised,        \* transactions whose fee is modified
    Delta,              \* and by how much
    IncrementalFee,     \* incrementalRelayFee
    AncestorLimit, DescendantLimit,
    Maturity,           \* COINBASE_MATURITY
    MaxPool,            \* -maxmempool, in transactions
    MaxDisconnected,    \* MAX_DISCONNECTED_TX_POOL_SIZE, in transactions
    MaxHeight           \* bound: the longest chain

VARIABLES
    chain,      \* chainActive above the start: the blocks connected
    pool,       \* [mapTx, mapNextTx, mapDeltas]; mapTx with its mapLinks
    used,       \* usedCoinSerials
    tags,       \* mempoolCoinSerials
    phase,      \* where ActivateBestChainStep or InvalidateBlock is
    queue,      \* disconnectpool, in insertion order
    update      \* vHashUpdate

vars == <<chain, pool, used, tags, phase, queue, update>>

Confirmed(c) == UNION {ToSet(c[i]) : i \in DOMAIN c}

ASSUME MempoolAssumption ==
    /\ Coinbase \cup ZerocoinSpend \cup Replaceable \cup Prioritised \subseteq Tx
    /\ \A t \in Tx : (t \in ZerocoinSpend <=> Serials[t] # {}) /\ (t \in ZerocoinSpend => Ins[t] = {})
    /\ \A t, u \in Tx : t # u => Outs[t] \cap Outs[u] = {}
    /\ \A b \in Blocks : ToSet(b) \subseteq Tx /\ Cardinality(ToSet(b)) = Len(b)

-----------------------------------------------------------------------------
(* The active chain.                                                       *)

Tip == Len(chain)

\* pcoinsTip: what the chain made and did not spend.
Utxo(c) == (Funds \cup UNION {Outs[t] : t \in Confirmed(c)}) \ UNION {Ins[t] : t \in Confirmed(c)}

\* Coinbase outputs too young to be spent in the next block.
Immature(c) ==
    UNION {Outs[t] : t \in {u \in Coinbase : \E i \in DOMAIN c : u \in ToSet(c[i]) /\ Len(c) + 1 - i < Maturity}}

\* What ConnectBlock asks of the transactions of b, in their order.
Spendable(coins, b) ==
    \A i \in DOMAIN b :
        LET earlier == ToSet(SubSeq(b, 1, i - 1))
        IN  Ins[b[i]] \subseteq (coins \cup UNION {Outs[t] : t \in earlier}) \ UNION {Ins[t] : t \in earlier}

ValidBlock(b) ==
    /\ ToSet(b) \cap Confirmed(chain) = {}
    /\ Spendable(Utxo(chain) \ Immature(chain), b)
    /\ \A t \in ToSet(b) : LockHeight[t] <= Tip + 1 /\ Serials[t] \cap used = {}

-----------------------------------------------------------------------------
(* Links and totals.                                                       *)

Init ==
    /\ chain = <<>>
    /\ pool = [mapTx |-> <<>>, mapNextTx |-> <<>>, mapDeltas |-> <<>>]
    /\ used = {} /\ tags = <<>>
    /\ phase = "idle" /\ queue = <<>> /\ update = <<>>

In(p) == DOMAIN p.mapTx
Parents(p) == [t \in In(p) |-> p.mapTx[t].parents]
Children(p) == [t \in In(p) |-> p.mapTx[t].children]

\* S and what is reached from it along the links.
RECURSIVE Closure(_, _)
Closure(links, S) ==
    LET more == UNION {links[t] : t \in S} \ S
    IN  IF more = {} THEN S ELSE Closure(links, S \cup more)

CalculateDescendants(p, S) == Closure(Children(p), S)
LinkedAncestors(p, t) == Closure(Parents(p), p.mapTx[t].parents)

ModifiedFee(p, t) == Fee[t] + p.mapTx[t].feeDelta
ModifiedFees(p, S) == MapThenSumSet(LAMBDA t : ModifiedFee(p, t), S)

\* Pool transactions whose outputs t spends.
Spends(t, u) == Ins[t] \cap Outs[u] # {}
SearchedParents(p, t) == {u \in In(p) : Spends(t, u)}

\* UpdateDescendantState and UpdateAncestorState.
DescendantState(e, fee, count) ==
    [e EXCEPT !.nModFeesWithDescendants = @ + fee, !.nCountWithDescendants = @ + count]
AncestorState(e, fee, count) ==
    [e EXCEPT !.nModFeesWithAncestors = @ + fee, !.nCountWithAncestors = @ + count]

\* Mutant of RemovalAncestors: searched by the inputs instead of the links.
SearchedAncestors(p, t) == Closure(Parents(p), SearchedParents(p, t))
RemovalAncestors(p, t) == LinkedAncestors(p, t)

\* UpdateForRemoveFromMempool and removeUnchecked for the entries S. The
\* totals of entries outside S are corrected, those of S go with them.
RemoveStaged(p, S, updateDescendants) ==
    LET above(t) == {r \in S : t \in CalculateDescendants(p, {r})}
        below(t) == {r \in S : t \in RemovalAncestors(p, r)}
        unlinked(t) == [p.mapTx[t] EXCEPT !.parents = @ \ S, !.children = @ \ S]
        lowered(t) == DescendantState(unlinked(t), -ModifiedFees(p, below(t)), -Cardinality(below(t)))
        kept(t) == IF updateDescendants
                   THEN AncestorState(lowered(t), -ModifiedFees(p, above(t)), -Cardinality(above(t)))
                   ELSE lowered(t)
    IN  [p EXCEPT !.mapTx = [t \in In(p) \ S |-> kept(t)],
                  !.mapNextTx = [c \in {x \in DOMAIN @ : @[x] \notin S} |-> @[c]]]

DeltaOf(p, t) == IF t \in DOMAIN p.mapDeltas THEN p.mapDeltas[t] ELSE 0

\* The entry joins with its ancestors known and without children.
addUnchecked(p, t, ancestors) ==
    LET parents == IF t \in ZerocoinSpend THEN {} ELSE SearchedParents(p, t)
        fee == Fee[t] + DeltaOf(p, t)
        own == [parents |-> parents, children |-> {}, feeDelta |-> DeltaOf(p, t), old |-> FALSE,
                nModFeesWithDescendants |-> fee, nCountWithDescendants |-> 1,
                nModFeesWithAncestors |-> fee + ModifiedFees(p, ancestors),
                nCountWithAncestors |-> 1 + Cardinality(ancestors)]
        raised(u) == IF u \in ancestors THEN DescendantState(p.mapTx[u], fee, 1) ELSE p.mapTx[u]
        linked(u) == IF u \in parents THEN [raised(u) EXCEPT !.children = @ \cup {t}] ELSE raised(u)
    IN  [p EXCEPT !.mapTx = [u \in In(p) \cup {t} |-> IF u = t THEN own ELSE linked(u)],
                  !.mapNextTx = @ @@ [c \in Ins[t] |-> t]]

-----------------------------------------------------------------------------
(* Removals.                                                               *)

\* A transaction that is not in the pool takes its children with it.
removeRecursive(p, t) ==
    LET first == IF t \in In(p) THEN {t}
                 ELSE {p.mapNextTx[c] : c \in Outs[t] \cap DOMAIN p.mapNextTx}
    IN  RemoveStaged(p, CalculateDescendants(p, first), FALSE)

ClearPrioritisation(p, S) ==
    [p EXCEPT !.mapDeltas = [t \in DOMAIN @ \ S |-> @[t]]]

\* Mutant: only the conflicting transactions go, not what spends them.
removeConflictsOnly(p, t) ==
    LET found == {p.mapNextTx[c] : c \in Ins[t] \cap DOMAIN p.mapNextTx} \ {t}
    IN  ClearPrioritisation(RemoveStaged(p, found, FALSE), found)

\* Each found conflict is cleared and removed with its descendants; one that
\* went with an earlier one is no longer found, but keeps its mapDeltas.
removeConflicts(p, t) ==
    LET step(q, c) == IF c \in DOMAIN q.mapNextTx /\ q.mapNextTx[c] # t
                      THEN removeRecursive(ClearPrioritisation(q, {q.mapNextTx[c]}), q.mapNextTx[c])
                      ELSE q
    IN  FoldLeft(step, p, SetToSeq(Ins[t]))

removeForBlock(p, b) ==
    LET removed(q, t) == IF t \in In(q) THEN RemoveStaged(q, {t}, TRUE) ELSE q
        step(q, t) == ClearPrioritisation(removeConflicts(removed(q, t), t), {t})
    IN  FoldLeft(step, p, b)

\* Transactions that are not final, or whose coinbase is gone or immature.
removeForReorg(p, c) ==
    LET fromChain(t) == {x \in Ins[t] : \A u \in In(p) : x \notin Outs[u]}
        spendsCoinbase(t) == \E k \in Coinbase : Spends(t, k)
        stale(t) == \/ LockHeight[t] > Len(c) + 1
                    \/ spendsCoinbase(t) /\ ~ (fromChain(t) \subseteq Utxo(c) \ Immature(c))
    IN  RemoveStaged(p, CalculateDescendants(p, {t \in In(p) : stale(t)}), FALSE)

Expire(p) == RemoveStaged(p, CalculateDescendants(p, {t \in In(p) : p.mapTx[t].old}), FALSE)

\* CompareTxMemPoolEntryByDescendantScore: the better of the own fee rate and
\* that of the package of descendants, as a fraction.
Score(p, t) ==
    LET e == p.mapTx[t]
    IN  IF e.nModFeesWithDescendants > ModifiedFee(p, t) * e.nCountWithDescendants
        THEN <<e.nModFeesWithDescendants, e.nCountWithDescendants>>
        ELSE <<ModifiedFee(p, t), 1>>
NoBetter(x, y) == x[1] * y[2] <= y[1] * x[2]

RECURSIVE TrimToSize(_)
TrimToSize(p) ==
    IF Cardinality(In(p)) <= MaxPool THEN p
    ELSE LET worst == CHOOSE t \in In(p) : \A u \in In(p) : NoBetter(Score(p, t), Score(p, u))
         IN  TrimToSize(RemoveStaged(p, CalculateDescendants(p, {worst}), FALSE))

LimitMempoolSize(p) == TrimToSize(Expire(p))

-----------------------------------------------------------------------------
(* AcceptToMemoryPoolWorker.                                               *)

Conflicts(p, t) == {p.mapNextTx[c] : c \in Ins[t] \cap DOMAIN p.mapNextTx}

\* CCoinsViewMemPool over pcoinsTip, less the coins that are too young.
Available(p) == UNION {Outs[u] : u \in In(p)} \cup (Utxo(chain) \ Immature(chain))

\* CalculateMemPoolAncestors, with the limits.
WithinLimits(p, ancestors) ==
    /\ Cardinality(ancestors) + 1 <= AncestorLimit
    /\ \A u \in ancestors : p.mapTx[u].nCountWithDescendants + 1 <= DescendantLimit

\* BIP 125: the replacement pays more than each conflict and than all it
\* evicts, and spends no unconfirmed output that they did not.
MayReplace(p, t) ==
    LET fee == Fee[t] + DeltaOf(p, t)
        conflicts == Conflicts(p, t)
        evicted == CalculateDescendants(p, conflicts)
    IN  /\ conflicts \subseteq Replaceable
        /\ \A u \in conflicts : fee > ModifiedFee(p, u)
        /\ \A u \in SearchedParents(p, t) : \E x \in conflicts : Spends(x, u)
        /\ fee >= ModifiedFees(p, evicted) + IncrementalFee

\* Mutant: the serial is compared with the chain and not with the pool.
SerialsFreeOnChain(t) == Serials[t] \cap used = {}
SerialsFree(t) == Serials[t] \cap (used \cup DOMAIN tags) = {}

Acceptable(p, t) ==
    /\ t \notin Coinbase \cup In(p)
    /\ LockHeight[t] <= Tip + 1
    /\ SerialsFree(t)
    /\ Ins[t] \subseteq Available(p)
    /\ t \in ZerocoinSpend \/ WithinLimits(p, SearchedAncestors(p, t))
    /\ SearchedAncestors(p, t) \cap Conflicts(p, t) = {}
    /\ Conflicts(p, t) = {} \/ MayReplace(p, t)

\* The pool with t in place of what it conflicts with.
Stored(p, t) ==
    addUnchecked(RemoveStaged(p, CalculateDescendants(p, Conflicts(p, t)), FALSE), t, SearchedAncestors(p, t))

\* AddSpendToMempool.
TagsWith(t) == tags @@ [s \in Serials[t] |-> t]

\* A refusal for other reasons (fee floors, standardness, scripts) changes
\* nothing: the action is not taken. Zerocoin spends are not limited.
AcceptToMemoryPool(t) ==
    /\ phase = "idle"
    /\ Acceptable(pool, t)
    /\ pool' = IF t \in ZerocoinSpend THEN Stored(pool, t) ELSE LimitMempoolSize(Stored(pool, t))
    /\ tags' = TagsWith(t)
    /\ UNCHANGED <<chain, used, phase, queue, update>>

-----------------------------------------------------------------------------
(* Modified fees and time.                                                 *)

\* Takes mempool.cs only. Bound: at most once until it is cleared.
PrioritiseTransaction(t) ==
    /\ t \notin DOMAIN pool.mapDeltas
    /\ LET own(e) == [AncestorState(DescendantState(e, Delta, 0), Delta, 0) EXCEPT !.feeDelta = @ + Delta]
           changed(u) == CASE u = t -> own(pool.mapTx[u])
                           [] u \in LinkedAncestors(pool, t) -> DescendantState(pool.mapTx[u], Delta, 0)
                           [] u \in CalculateDescendants(pool, {t}) -> AncestorState(pool.mapTx[u], Delta, 0)
                           [] OTHER -> pool.mapTx[u]
       IN  pool' = [pool EXCEPT !.mapDeltas = @ @@ (t :> Delta),
                                !.mapTx = IF t \in In(pool) THEN [u \in In(pool) |-> changed(u)] ELSE @]
    /\ UNCHANGED <<chain, used, tags, phase, queue, update>>

\* DEFAULT_MEMPOOL_EXPIRY hours go by; LimitMempoolSize will notice.
Wait ==
    /\ phase = "idle"
    /\ \E t \in In(pool) : ~ pool.mapTx[t].old
    /\ pool' = [pool EXCEPT !.mapTx = [t \in In(pool) |-> [@[t] EXCEPT !.old = TRUE]]]
    /\ UNCHANGED <<chain, used, tags, phase, queue, update>>

-----------------------------------------------------------------------------
(* Blocks.                                                                 *)

\* The end of ConnectBlock: spends of the block's serials leave the pool.
removeSerialConflicts(p, b) ==
    LET held(t) == {tags[s] : s \in Serials[t] \cap DOMAIN tags} \ {t}
        step(q, u) == IF u \in In(q) THEN removeRecursive(q, u) ELSE q
    IN  FoldLeft(step, p, SetToSeq(UNION {held(t) : t \in ToSet(b)}))

SerialsOf(b) == UNION {Serials[t] : t \in ToSet(b)}

\* Mutant: the queue keeps what the new branch has confirmed.
queuedAll(b) == queue
removeFromQueue(b) == SelectSeq(queue, LAMBDA t : t \notin ToSet(b))

ConnectTip(b) ==
    /\ phase \in {"idle", "disconnect", "connect"}
    /\ Tip < MaxHeight
    /\ ValidBlock(b)
    /\ chain' = Append(chain, b)
    /\ used' = used \cup SerialsOf(b)
    /\ tags' = [s \in DOMAIN tags \ SerialsOf(b) |-> tags[s]]
    /\ pool' = removeForBlock(removeSerialConflicts(pool, b), b)
    /\ queue' = removeFromQueue(b)
    /\ phase' = IF phase = "idle" THEN "idle" ELSE "connect"
    /\ UNCHANGED update

\* TestBlockValidity: ConnectBlock with fJustCheck returns after
\* ConnectBlockAnonymize has recorded the serials.
TestBlockValidity(b) ==
    /\ phase = "idle"
    /\ ValidBlock(b)
    /\ SerialsOf(b) # {}
    /\ used' = used \cup SerialsOf(b)
    /\ UNCHANGED <<chain, pool, tags, phase, queue, update>>

\* The block's transactions are queued, the last first. Over the limit the
\* earliest entries go, and their children in the pool with them.
DisconnectTip ==
    /\ phase \in {"idle", "disconnect"}
    /\ chain # <<>>
    /\ LET all == queue \o Reverse(Last(chain))
           excess == IF Len(all) > MaxDisconnected THEN Len(all) - MaxDisconnected ELSE 0
       IN  /\ pool' = FoldLeft(removeRecursive, pool, SubSeq(all, 1, excess))
           /\ queue' = SubSeq(all, excess + 1, Len(all))
    /\ used' = used \ SerialsOf(Last(chain))
    /\ chain' = Front(chain)
    /\ phase' = "disconnect"
    /\ UNCHANGED <<tags, update>>

-----------------------------------------------------------------------------
(* UpdateMempoolForReorg.                                                  *)

\* With add the queue goes back to the pool; after a system error, which may
\* come before any block was disconnected, it is only used to remove what
\* depended on it.
UpdateMempoolForReorg(add) ==
    /\ \/ phase \in {"disconnect", "connect"}
       \/ phase = "idle" /\ ~ add
    /\ phase' = IF add THEN "add" ELSE "drop"
    /\ UNCHANGED <<chain, pool, used, tags, queue, update>>

\* The newest entry of the queue, which was first in the chain. Accepted
\* without limits on the pool, unless refused for any other reason.
Resurrect ==
    /\ phase \in {"add", "drop"}
    /\ queue # <<>>
    /\ LET t == Last(queue)
           Accept == /\ phase = "add" /\ Acceptable(pool, t)
                     /\ pool' = Stored(pool, t)
                     /\ tags' = TagsWith(t)
                     /\ update' = Append(update, t)
           Refuse == /\ pool' = removeRecursive(pool, t)
                     /\ UNCHANGED <<tags, update>>
       IN  Accept \/ Refuse
    /\ queue' = Front(queue)
    /\ UNCHANGED <<chain, used, phase>>

\* Mutant: descendants that were added back are counted a second time.
CountedTwice(d, hashes) == d
NotYetCounted(d, hashes) == d \ hashes

\* One transaction added back: its children in the pool are found by
\* mapNextTx, linked, and counted with what descends from them.
UpdateForDescendants(p, t, hashes) ==
    LET found == {p.mapNextTx[c] : c \in Outs[t] \cap DOMAIN p.mapNextTx} \ hashes
        link(u) == [p.mapTx[u] EXCEPT !.children = IF u = t THEN @ \cup found ELSE @,
                                      !.parents = IF u \in found THEN @ \cup {t} ELSE @]
        q == [p EXCEPT !.mapTx = [u \in In(p) |-> link(u)]]
        new == NotYetCounted(CalculateDescendants(q, {t}) \ {t}, hashes)
        counted(u) == CASE u = t -> DescendantState(q.mapTx[u], ModifiedFees(q, new), Cardinality(new))
                        [] u \in new -> AncestorState(q.mapTx[u], ModifiedFee(q, t), 1)
                        [] OTHER -> q.mapTx[u]
    IN  [q EXCEPT !.mapTx = [u \in In(q) |-> counted(u)]]

UpdateTransactionsFromBlock(p, hashes) ==
    LET step(q, t) == IF t \in In(q) THEN UpdateForDescendants(q, t, ToSet(hashes)) ELSE q
    IN  FoldLeft(step, p, Reverse(hashes))

FinishReorg ==
    /\ phase \in {"add", "drop"}
    /\ queue = <<>>
    /\ pool' = LimitMempoolSize(removeForReorg(UpdateTransactionsFromBlock(pool, update), chain))
    /\ phase' = "idle" /\ update' = <<>>
    /\ UNCHANGED <<chain, used, tags, queue>>

Next ==
    \/ \E t \in Tx : AcceptToMemoryPool(t)
    \/ \E t \in Prioritised : PrioritiseTransaction(t)
    \/ Wait
    \/ \E b \in Blocks : ConnectTip(b) \/ TestBlockValidity(b)
    \/ DisconnectTip
    \/ \E add \in BOOLEAN : UpdateMempoolForReorg(add)
    \/ Resurrect
    \/ FinishReorg

Spec == Init /\ [][Next]_vars

-----------------------------------------------------------------------------
(* Properties.                                                             *)

EntryType ==
    [parents : SUBSET Tx, children : SUBSET Tx, feeDelta : {0, Delta}, old : BOOLEAN,
     nModFeesWithDescendants : Int, nCountWithDescendants : 1..Cardinality(Tx),
     nModFeesWithAncestors : Int, nCountWithAncestors : 1..Cardinality(Tx)]

\* The type of every variable. The counts of an entry never fall to zero, as
\* UpdateDescendantState and UpdateAncestorState assert.
TypeOK ==
    /\ chain \in Seq(Blocks) /\ Len(chain) <= MaxHeight
    /\ In(pool) \subseteq Tx \ Coinbase
    /\ \A t \in In(pool) : pool.mapTx[t] \in EntryType
    /\ \A c \in DOMAIN pool.mapNextTx : pool.mapNextTx[c] \in Tx
    /\ DOMAIN pool.mapDeltas \subseteq Prioritised
    /\ \A s \in DOMAIN tags : tags[s] \in ZerocoinSpend
    /\ phase \in {"idle", "disconnect", "connect", "add", "drop"}
    /\ queue \in Seq(Tx) /\ Len(queue) <= MaxDisconnected
    /\ update \in Seq(Tx)

\* Whenever no reorganisation is under way the pool is what CTxMemPool::check
\* asserts: the transactions could all be mined in the next blocks, no two
\* spend one output, and the links are those of the transactions.
PoolConsistent ==
    phase = "idle" =>
        /\ \A t \in In(pool) :
            /\ Ins[t] \subseteq Available(pool)
            /\ LockHeight[t] <= Tip + 1
            /\ pool.mapTx[t].parents = SearchedParents(pool, t)
            /\ pool.mapTx[t].children = {u \in In(pool) : Spends(u, t)}
        /\ In(pool) \cap Confirmed(chain) = {}

\* At every point of a reorganisation the totals of an entry are those of the
\* entries reached along mapLinks, which UpdateForRemoveFromMempool relies on
\* when it subtracts; the links go both ways and mapNextTx has just the
\* inputs of the pool.
TotalsFollowLinks ==
    /\ \A t \in In(pool) :
        LET up == LinkedAncestors(pool, t) \cup {t}
            down == CalculateDescendants(pool, {t})
            e == pool.mapTx[t]
        IN  /\ e.nCountWithAncestors = Cardinality(up)
            /\ e.nModFeesWithAncestors = ModifiedFees(pool, up)
            /\ e.nCountWithDescendants = Cardinality(down)
            /\ e.nModFeesWithDescendants = ModifiedFees(pool, down)
            /\ \A u \in In(pool) : u \in e.parents <=> t \in pool.mapTx[u].children
            /\ e.feeDelta = DeltaOf(pool, t)
    /\ DOMAIN pool.mapNextTx = UNION {Ins[t] : t \in In(pool)}
    /\ \A c \in DOMAIN pool.mapNextTx : c \in Ins[pool.mapNextTx[c]] /\ pool.mapNextTx[c] \in In(pool)

\* What UpdateMempoolForReorg assumes of disconnectpool: its transactions are
\* neither in the active chain nor in the pool, and none is there twice.
QueueUnconfirmed ==
    /\ ToSet(queue) \cap (Confirmed(chain) \cup In(pool)) = {}
    /\ Cardinality(ToSet(queue)) = Len(queue)

\* A zerocoin spend in the pool holds its serials in mempoolCoinSerials, and
\* none of them is spent in the active chain: of all spends of a serial, at
\* most one is in the pool or the chain, though the pool is not searched for
\* serials and usedCoinSerials may name serials that no block spends.
SerialsHeld ==
    \A t \in In(pool) \cap ZerocoinSpend : \A s \in Serials[t] :
        /\ s \in DOMAIN tags /\ tags[s] = t
        /\ \A u \in Confirmed(chain) : s \notin Serials[u]

=============================================================================
