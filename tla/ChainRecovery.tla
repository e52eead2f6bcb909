--------------------------- MODULE ChainRecovery ---------------------------
(***************************************************************************)
(* The chain state across crashes: ConnectTip and DisconnectTip apply and  *)
(* undo blocks in pcoinsTip, FlushStateToDisk stores undo files, block     *)
(* index and coin database in this order, CCoinsViewDB::BatchWrite stores  *)
(* the coins in several batches, and after a crash at any point in between *)
(* ReplayBlocks brings the coin database back to the state of a block.     *)
(*                                                                         *)
(* Which block is connected or disconnected next is free here (module      *)
(* BlockIndex models the choice), and a block is given by its transactions.*)
(* A coin is the height of the block that created it, the field a          *)
(* disconnect compares.                                                    *)
(***************************************************************************)
EXTENDS BlockTree, CoinsCache, Sequences

CONSTANTS
    Txs,            \* block.vtx: sequences of [coinbase, ins, outs]
    Stored,         \* the blocks that are downloaded and indexed at the start
    MaxFile,        \* bound on nLastBlockFile
    MaxCrashes      \* bound on the number of crashes

VARIABLES
    db,             \* the coin database: [coins, best, heads]
    stable,         \* the version of db that would survive a power loss
    diskIndex,      \* the block index database: [data, undo, last]
    undoFile,       \* what the rev files hold for each block
    unsynced,       \* blocks whose undo data no FileCommit has covered
    mode,           \* "running", "writing", "down", "replaying" or "failed"
    index,          \* mapBlockIndex: BLOCK_HAVE_DATA, BLOCK_HAVE_UNDO, nLastBlockFile
    fileOf,         \* nFile of each block
    tipBlock,       \* chainActive.Tip(), and the best block of pcoinsTip
    tip,            \* pcoinsTip->cacheCoins
    pending,        \* mapCoins of the replay or the BatchWrite that is under way
    todo,           \* the blocks that the replay still has to undo and to apply
    crashes

diskVars == <<db, stable, diskIndex, undoFile, unsynced>>
vars == <<db, stable, diskIndex, undoFile, unsynced, mode, index, fileOf,
          tipBlock, tip, pending, todo, crashes>>

ASSUME StoredAssumption == Stored \subseteq Block /\ Genesis \in Stored

\* The ancestor of b at a height.
GetAncestor(b, h) == CHOOSE a \in ChainTo[b] : Height[a] = h

LastCommonAncestor(a, b) ==
    CHOOSE c \in ChainTo[a] \cap ChainTo[b] :
        \A d \in ChainTo[a] \cap ChainTo[b] : Height[d] <= Height[c]

-----------------------------------------------------------------------------
(* Blocks applied to and removed from a cache over a base view.            *)

SpendAll(cache, base, S) ==
    [o \in Outpoint |-> IF o \in S THEN SpendCoin(cache, base, o)[o] ELSE cache[o]]

FetchAll(cache, base, S) ==
    [o \in Outpoint |-> IF o \in S THEN FetchCoin(cache, base, o)[o] ELSE cache[o]]

\* AddCoins with check = false: only a coinbase may overwrite.
AddCoins(cache, tx, h) ==
    [o \in Outpoint |-> IF o \in tx.outs THEN AddCoin(cache, o, h, tx.coinbase)[o] ELSE cache[o]]

\* AddCoins with check = true: HaveCoin says whether this overwrites.
AddCoinsChecked(cache, base, tx, h) ==
    [o \in Outpoint |-> IF o \in tx.outs
                        THEN AddCoin(FetchCoin(cache, base, o), o, h,
                                     ViewOf(cache, base)[o] # Spent)[o]
                        ELSE cache[o]]

\* UpdateCoins for each transaction in turn; the spent coins are the undo data.
ApplyTx(base, h, acc, tx) ==
    [view |-> AddCoins(SpendAll(acc.view, base, tx.ins), tx, h),
     undo |-> [o \in Outpoint |-> IF o \in tx.ins THEN ViewOf(acc.view, base)[o]
                                                  ELSE acc.undo[o]]]

NoUndo == [o \in Outpoint |-> Spent]

ConnectBlock(base, b) ==
    LET txs == IF b = Genesis THEN <<>> ELSE Txs[b]
        after[n \in 0..Len(txs)] ==
            IF n = 0 THEN [view |-> EmptyCache, undo |-> NoUndo]
            ELSE ApplyTx(base, Height[b], after[n - 1], txs[n])
    IN  after[Len(txs)]

\* One transaction undone: its outputs leave, then its inputs come back.
\* `clean` says whether every output was there, of this height, and no input.
UndoTx(base, h, undo, acc, tx) ==
    LET before == ViewOf(acc.view, base)
        spent  == SpendAll(acc.view, base, tx.outs)
        middle == ViewOf(spent, base)
    IN  [view  |-> [o \in Outpoint |->
                        IF o \in tx.ins
                        THEN AddCoin(FetchCoin(spent, base, o), o, undo[o], middle[o] # Spent)[o]
                        ELSE spent[o]],
         clean |-> /\ acc.clean
                   /\ \A o \in tx.outs : before[o] = h
                   /\ \A o \in tx.ins : middle[o] = Spent]

\* The transactions of a block are undone from the last to the first.
DisconnectBlock(view, base, b, undo) ==
    LET txs == Txs[b]
        after[n \in 0..Len(txs)] ==
            IF n = 0 THEN [view |-> view, clean |-> TRUE]
            ELSE UndoTx(base, Height[b], undo, after[n - 1], txs[Len(txs) - n + 1])
    IN  after[Len(txs)]

\* A block applied again, whatever part of it was already applied.
RollforwardTx(base, h, view, tx) == AddCoinsChecked(SpendAll(view, base, tx.ins), base, tx, h)

RollforwardBlock(view, base, b) ==
    LET txs == Txs[b]
        after[n \in 0..Len(txs)] ==
            IF n = 0 THEN view
            ELSE RollforwardTx(base, Height[b], after[n - 1], txs[n])
    IN  after[Len(txs)]

BlockIns(b) == UNION {Txs[b][i].ins : i \in DOMAIN Txs[b]}
BlockOuts(b) == UNION {Txs[b][i].outs : i \in DOMAIN Txs[b]}

-----------------------------------------------------------------------------
(* What the blocks themselves say.                                         *)

\* The coins that exist after a block: the last block of its chain that has an
\* outpoint among its inputs or outputs decides.
Utxo ==
    [b \in Block \cup {Null} |-> [o \in Outpoint |->
        LET naming == {a \in ChainTo[b] \ {Genesis} : o \in BlockIns(a) \cup BlockOuts(a)}
            last   == CHOOSE a \in naming : \A c \in naming : Height[c] <= Height[a]
        IN  IF naming = {} \/ o \in BlockIns(last) THEN Spent ELSE Height[last]]]

Transaction == [coinbase : BOOLEAN, ins : SUBSET Outpoint, outs : SUBSET Outpoint]

\* What is known of a block that was connected.  An input exists when its
\* transaction is reached and is spent once (CheckTxInputs in ConnectBlock).
\* Transaction ids differ: no output overwrites an unspent coin.  ConnectBlock
\* checks this for proof-of-stake blocks; for the others it rests on the height
\* that CreateNewBlock puts into each coinbase.
Valid(b) ==
    LET txs == Txs[b]
    IN  /\ \A i \in DOMAIN txs : \A o \in txs[i].ins :
               Utxo[Parent[b]][o] # Spent \/ \E j \in 1..(i - 1) : o \in txs[j].outs
        /\ \A i \in DOMAIN txs : \A o \in txs[i].outs : Utxo[Parent[b]][o] = Spent
        /\ \A i, j \in DOMAIN txs : i # j => /\ txs[i].ins \cap txs[j].ins = {}
                                            /\ txs[i].outs \cap txs[j].outs = {}

\* Only valid blocks are connected here; module BlockIndex has the others.
ASSUME BlocksAssumption ==
    /\ Txs \in [Block -> Seq(Transaction)]
    /\ \A b \in Block \ {Genesis} : Valid(b) /\ Height[b] \in Coin

ASSUME BoundsAssumption == MaxFile \in Nat /\ MaxCrashes \in Nat

\* A record that was read differs from one that could not be read.
ASSUME NoUndoAssumption == NoEntry \notin BaseView

-----------------------------------------------------------------------------
(* ReplayBlocks: from the two heads of an interrupted write, the old branch *)
(* is rolled back to the fork and the new one rolled forward.              *)

ForkOf(d) == IF d.heads[2] = Null THEN Null ELSE LastCommonAncestor(d.heads[1], d.heads[2])

\* Mutant: the old branch is not rolled back.
OldBranchKept(d) == <<>>

\* The blocks above the fork from the old tip down.  Both heads descend from
\* the genesis block, so that one is never among them.
OldBranch(d) ==
    LET old == d.heads[2]
    IN  [i \in 1..(Height[old] - Height[ForkOf(d)]) |-> GetAncestor(old, Height[old] - i + 1)]

\* With no old tip, the blocks above the genesis block are the ones to apply.
NewBranch(d) ==
    LET nForkHeight == IF ForkOf(d) = Null THEN 0 ELSE Height[ForkOf(d)]
    IN  [i \in 1..(Height[d.heads[1]] - nForkHeight) |-> GetAncestor(d.heads[1], nForkHeight + i)]

\* Every block and every undo record that the replay reads can be read.
ReplayReadable(d, idx, undo) ==
    /\ d.heads[1] \in idx.data
    /\ d.heads[2] \in idx.data \cup {Null}
    /\ \A i \in DOMAIN NewBranch(d) : NewBranch(d)[i] \in idx.data
    /\ \A i \in DOMAIN OldBranch(d) :
            OldBranch(d)[i] \in {b \in idx.data \cap idx.undo : undo[b] # NoEntry}

\* The cache that ReplayBlocks flushes.
Replayed(d, undo) ==
    LET back    == OldBranch(d)
        forward == NewBranch(d)
        undone[n \in 0..Len(back)] ==
            IF n = 0 THEN EmptyCache
            ELSE DisconnectBlock(undone[n - 1], d.coins, back[n], undo[back[n]]).view
        redone[n \in 0..Len(forward)] ==
            IF n = 0 THEN undone[Len(back)]
            ELSE RollforwardBlock(redone[n - 1], d.coins, forward[n])
    IN  redone[Len(forward)]

-----------------------------------------------------------------------------
TipView == ViewOf(tip, db.coins)

NothingToDo == [back |-> <<>>, forward |-> <<>>]

DbState == [coins : BaseView, best : Block \cup {Null}, heads : {<<>>} \cup (Block \X (Block \cup {Null}))]
IndexState == [data : SUBSET Block, undo : SUBSET Block, last : 0..MaxFile]

TypeOK ==
    /\ db \in DbState /\ stable \in DbState
    /\ diskIndex \in IndexState /\ index \in IndexState
    /\ undoFile \in [Block -> BaseView \cup {NoEntry}]
    /\ unsynced \subseteq Block
    /\ mode \in {"running", "writing", "down", "replaying", "failed"}
    /\ fileOf \in [Block -> 0..MaxFile]
    /\ tipBlock \in Block \cup {Null}
    /\ tip \in Cache /\ pending \in Cache
    /\ todo \in [back : Seq(Block), forward : Seq(Block)]
    /\ crashes \in 0..MaxCrashes

\* A node on its first run: only genesis is connected, no coins are written.
Init ==
    /\ db = [coins |-> [o \in Outpoint |-> Spent], best |-> Null, heads |-> <<>>]
    /\ stable = db
    /\ diskIndex = [data |-> Stored, undo |-> {}, last |-> 0]
    /\ index = diskIndex
    /\ undoFile = [b \in Block |-> NoEntry]
    /\ unsynced = {}
    /\ fileOf = [b \in Block |-> 0]
    /\ mode = "running"
    /\ tipBlock = Genesis
    /\ tip = EmptyCache
    /\ pending = EmptyCache
    /\ todo = NothingToDo
    /\ crashes = 0

\* FlushBlockFile commits the undo file of nLastBlockFile, and no other.
FlushBlockFile == {b \in unsynced : fileOf[b] # index.last}

\* SaveBlockToDisk and ReceivedBlockTransactions: the block goes to the last
\* file, or to a new one that FindBlockPos opens after committing the last.
\* Headers come first, so blocks may arrive in any order.
ReceiveBlock(b, nFile) ==
    /\ mode = "running"
    /\ b \notin index.data
    /\ nFile \in {index.last, index.last + 1} \cap 0..MaxFile
    /\ unsynced' = IF nFile = index.last THEN unsynced ELSE FlushBlockFile
    /\ index' = [index EXCEPT !.data = @ \cup {b}, !.last = nFile]
    /\ fileOf' = [fileOf EXCEPT ![b] = nFile]
    /\ UNCHANGED <<db, stable, diskIndex, undoFile, mode, tipBlock, tip, pending, todo, crashes>>

\* ConnectBlock in a scratch view, FlushView into pcoinsTip.  Undo data is
\* written once per block; genesis has none and changes no coin.
ConnectTip(b) ==
    /\ mode = "running"
    /\ b \in index.data
    /\ Parent[b] = tipBlock
    /\ LET done  == ConnectBlock(TipView, b)
           write == b # Genesis /\ b \notin index.undo
       IN  /\ tip' = BatchWrite(FetchAll(tip, db.coins, BlockIns(b)), done.view)
           /\ undoFile' = IF write THEN [undoFile EXCEPT ![b] = done.undo] ELSE undoFile
           /\ unsynced' = IF write THEN unsynced \cup {b} ELSE unsynced
           /\ index' = IF write THEN [index EXCEPT !.undo = @ \cup {b}] ELSE index
    /\ tipBlock' = b
    /\ UNCHANGED <<db, stable, diskIndex, mode, fileOf, pending, todo, crashes>>

\* DisconnectTip fails unless the undo data can be read and the block is
\* undone cleanly.
DisconnectTip ==
    /\ mode = "running"
    /\ tipBlock \notin {Null, Genesis}
    /\ LET b == tipBlock
           undone == DisconnectBlock(EmptyCache, TipView, b, undoFile[b])
       IN  IF b \in index.undo /\ undoFile[b] # NoEntry /\ undone.clean
           THEN /\ tip' = BatchWrite(FetchAll(tip, db.coins, BlockIns(b) \cup BlockOuts(b)), undone.view)
                /\ tipBlock' = Parent[b]
                /\ mode' = mode
           ELSE /\ mode' = "failed"
                /\ UNCHANGED <<tip, tipBlock>>
    /\ UNCHANGED <<db, stable, diskIndex, undoFile, unsynced, index, fileOf, pending, todo, crashes>>

\* FlushStateToDisk with fPeriodicWrite only: block files, then the index.
WriteIndex ==
    /\ mode = "running"
    /\ unsynced' = FlushBlockFile
    /\ diskIndex' = index
    /\ UNCHANGED <<db, stable, undoFile, mode, index, fileOf, tipBlock, tip, pending, todo, crashes>>

\* Mutant: the coins are flushed without writing the index first.
FlushStateToDiskNoIndex ==
    /\ mode = "running"
    /\ tipBlock # Null
    /\ mode' = "writing"
    /\ pending' = tip
    /\ tip' = EmptyCache
    /\ UNCHANGED <<db, stable, diskIndex, undoFile, unsynced, index, fileOf, tipBlock, todo, crashes>>

\* FlushStateToDisk with fDoFullFlush: then pcoinsTip->Flush() starts.
FlushStateToDisk ==
    /\ mode = "running"
    /\ tipBlock # Null
    /\ unsynced' = FlushBlockFile
    /\ diskIndex' = index
    /\ mode' = "writing"
    /\ pending' = tip
    /\ tip' = EmptyCache
    /\ UNCHANGED <<db, stable, undoFile, index, fileOf, tipBlock, todo, crashes>>

-----------------------------------------------------------------------------
(* CCoinsViewDB::BatchWrite.  The order of mapCoins and the sizes of the    *)
(* batches are not determined, so any entries may be in a batch.           *)

OldTip == CASE db.best # Null -> db.best
            [] db.best = Null /\ db.heads # <<>> -> db.heads[2]
            [] OTHER -> Null

\* LevelDB keeps its log in order but does not sync these writes: after each
\* one, the surviving version is the new one or still an older one.
MayBeStable == stable' \in {stable, db'}

\* Mutant: the database is not marked as being in transition.
WritePartialBatchUnmarked(S) ==
    /\ mode = "writing"
    /\ S # {} /\ \A o \in S : ToApply(pending, o)
    /\ db' = [db EXCEPT !.coins = [o \in Outpoint |-> IF o \in S THEN pending[o].coin ELSE @[o]]]
    /\ MayBeStable
    /\ pending' = [o \in Outpoint |-> IF o \in S THEN NoEntry ELSE pending[o]]
    /\ UNCHANGED <<diskIndex, undoFile, unsynced, mode, index, fileOf, tipBlock, tip, todo, crashes>>

\* Mutant: the heads are written in the wrong order.
WritePartialBatchSwapped(S) ==
    /\ mode = "writing"
    /\ S # {} /\ \A o \in S : ToApply(pending, o)
    /\ db' = [coins |-> [o \in Outpoint |-> IF o \in S THEN pending[o].coin ELSE db.coins[o]],
              best  |-> Null,
              heads |-> <<OldTip, tipBlock>>]
    /\ MayBeStable
    /\ pending' = [o \in Outpoint |-> IF o \in S THEN NoEntry ELSE pending[o]]
    /\ UNCHANGED <<diskIndex, undoFile, unsynced, mode, index, fileOf, tipBlock, tip, todo, crashes>>

\* A full batch: the first one erases the best block and names the two heads.
WritePartialBatch(S) ==
    /\ mode = "writing"
    /\ S # {} /\ \A o \in S : ToApply(pending, o)
    /\ db' = [coins |-> [o \in Outpoint |-> IF o \in S THEN pending[o].coin ELSE db.coins[o]],
              best  |-> Null,
              heads |-> <<tipBlock, OldTip>>]
    /\ MayBeStable
    /\ pending' = [o \in Outpoint |-> IF o \in S THEN NoEntry ELSE pending[o]]
    /\ UNCHANGED <<diskIndex, undoFile, unsynced, mode, index, fileOf, tipBlock, tip, todo, crashes>>

\* The last batch: the rest, the heads erased, the best block written.
WriteFinalBatch ==
    /\ mode = "writing"
    /\ db' = [coins |-> DbAfterBatch(db.coins, pending), best |-> tipBlock, heads |-> <<>>]
    /\ MayBeStable
    /\ pending' = EmptyCache
    /\ mode' = "running"
    /\ UNCHANGED <<diskIndex, undoFile, unsynced, index, fileOf, tipBlock, tip, todo, crashes>>

WriteBatch == WriteFinalBatch \/ \E S \in SUBSET Outpoint : WritePartialBatch(S)

\* The process dies; with the power, unsynced files and batches go too.
Crash(power) ==
    /\ mode \in {"running", "writing", "replaying"}
    /\ crashes < MaxCrashes
    /\ crashes' = crashes + 1
    /\ mode' = "down"
    /\ db' = IF power THEN stable ELSE db
    /\ undoFile' = IF power THEN [b \in Block |-> IF b \in unsynced THEN NoEntry ELSE undoFile[b]]
                            ELSE undoFile
    /\ unsynced' = IF power THEN {} ELSE unsynced
    /\ index' = diskIndex
    /\ tipBlock' = Null
    /\ tip' = EmptyCache
    /\ pending' = EmptyCache
    /\ todo' = NothingToDo
    /\ UNCHANGED <<stable, diskIndex, fileOf>>

\* Mutant: start-up gives up on a database without a best block.
RestartNoReplay ==
    /\ mode = "down"
    /\ mode' = IF db.heads = <<>> THEN "running" ELSE "down"
    /\ tipBlock' = db.best
    /\ UNCHANGED <<diskVars, index, pending, todo, fileOf, tip, crashes>>

\* AppInitMain: LoadBlockIndex, LoadGenesisBlock, then ReplayBlocks looks its
\* two heads up, or LoadChainTip the best block.
Restart ==
    /\ mode = "down"
    /\ index' = [index EXCEPT !.data = @ \cup {Genesis}]
    /\ IF db.heads = <<>>
       THEN /\ mode' = IF db.best \in index'.data \cup {Null} THEN "running" ELSE "failed"
            /\ tipBlock' = db.best
            /\ UNCHANGED todo
       ELSE /\ mode' = IF db.heads[1] \in index'.data /\ db.heads[2] \in index'.data \cup {Null}
                       THEN "replaying" ELSE "failed"
            /\ tipBlock' = db.heads[1]
            /\ todo' = [back |-> OldBranch(db), forward |-> NewBranch(db)]
    /\ UNCHANGED <<diskVars, pending, fileOf, tip, crashes>>

\* One block of the old branch undone, clean or not.
ReplayBack ==
    /\ mode = "replaying"
    /\ todo.back # <<>>
    /\ LET b == Head(todo.back)
       IN  IF b \in index.data \cap index.undo /\ undoFile[b] # NoEntry
           THEN /\ pending' = DisconnectBlock(pending, db.coins, b, undoFile[b]).view
                /\ todo' = [todo EXCEPT !.back = Tail(@)]
                /\ mode' = mode
           ELSE mode' = "failed" /\ UNCHANGED <<pending, todo>>
    /\ UNCHANGED <<diskVars, index, fileOf, tipBlock, tip, crashes>>

\* Then one block of the new branch applied.
ReplayForward ==
    /\ mode = "replaying"
    /\ todo.back = <<>> /\ todo.forward # <<>>
    /\ LET b == Head(todo.forward)
       IN  IF b \in index.data
           THEN /\ pending' = RollforwardBlock(pending, db.coins, b)
                /\ todo' = [todo EXCEPT !.forward = Tail(@)]
                /\ mode' = mode
           ELSE mode' = "failed" /\ UNCHANGED <<pending, todo>>
    /\ UNCHANGED <<diskVars, index, fileOf, tipBlock, tip, crashes>>

\* SetBestBlock and Flush of the replayed cache, then LoadChainTip.
ReplayFlush ==
    /\ mode = "replaying"
    /\ todo = NothingToDo
    /\ mode' = "writing"
    /\ UNCHANGED <<diskVars, index, fileOf, tipBlock, tip, pending, todo, crashes>>

Recovery == Restart \/ ReplayBack \/ ReplayForward \/ ReplayFlush \/ WriteBatch

Next ==
    \/ \E b \in Block : ConnectTip(b) \/ \E nFile \in 0..MaxFile : ReceiveBlock(b, nFile)
    \/ DisconnectTip
    \/ WriteIndex
    \/ FlushStateToDisk
    \/ Recovery
    \/ \E power \in BOOLEAN : Crash(power)

\* The user restarts the node, and a replay or write that has begun goes on.
Fairness == WF_vars(Recovery)

Spec == Init /\ [][Next]_vars /\ Fairness

-----------------------------------------------------------------------------
(* Properties.                                                             *)

\* pcoinsTip always shows exactly the coins of the active chain, also over a
\* database that a flush has half written (validation.cpp:2931-3110).
TipIsUtxo ==
    /\ mode = "running" => TipView = Utxo[tipBlock]
    /\ mode = "writing" => ViewOf(pending, db.coins) = Utxo[tipBlock]

\* A database that names a best block holds exactly that block's coins
\* (txdb.cpp:91-150).  Every version of the database is `stable` in some
\* behaviour, and stays so while the node goes on.
BestBlockIsTrue == stable.heads = <<>> => stable.coins = Utxo[stable.best]

\* At every moment, were the node to stop now, ReplayBlocks could read all it
\* needs and would leave exactly the coins of the block being written
\* (validation.cpp:4829-4892), however often it is itself interrupted.
AlwaysRecoverable ==
    stable.heads # <<>> =>
        /\ ReplayReadable(stable, diskIndex,
                          [b \in Block |-> IF b \in unsynced THEN NoEntry ELSE undoFile[b]])
        /\ DbAfterBatch(stable.coins, Replayed(stable, undoFile)) = Utxo[stable.heads[1]]

\* Neither start-up nor DisconnectTip ever meets missing data or an unclean
\* disconnect (validation.cpp:2945, 4667-4682, 4837-4872).
NeverFails == mode # "failed"

\* A node that went down comes back, crashes during recovery included.
Recovers == mode = "down" ~> mode = "running"

\* "First make sure all block and undo data is flushed to disk"
\* (validation.cpp:2753): undo data that the stored index refers to survives a
\* power loss.
IndexedUndoIsSynced == diskIndex.undo \cap unsynced = {}

=============================================================================
