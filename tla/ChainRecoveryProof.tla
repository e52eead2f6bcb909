------------------------- MODULE ChainRecoveryProof -------------------------
(***************************************************************************)
(* Proofs about ChainRecovery: for every tree of valid blocks, every       *)
(* number of crashes and every split of the writes into batches, pcoinsTip *)
(* and the coin database hold the coins of the block they name, and a      *)
(* database that was left half written can be brought back.                *)
(***************************************************************************)
EXTENDS ReplayProof

\* A version of the database holds the coins of its best block, or a mixture of
\* the coins of its two heads.
VersionOK(d) ==
    /\ d.heads = <<>> => d.coins = Utxo[d.best]
    /\ d.heads # <<>> => d.best = Null /\ Between(d.coins, d.heads[1], d.heads[2])

ReplayOK ==
    /\ db.heads # <<>> /\ tipBlock = db.heads[1]
    /\ PathOK(todo.back, todo.forward, tipBlock)
    /\ Between(ViewOf(pending, db.coins), At(todo.back, todo.forward, tipBlock), tipBlock)

DataInv ==
    /\ VersionOK(db) /\ VersionOK(stable)
    /\ \A b \in Block : undoFile[b] \in {NoEntry, UndoOf(b)}
    /\ Sound(tip, db.coins) /\ Sound(pending, db.coins)
    /\ mode \in {"writing", "down", "replaying"} => tip = EmptyCache
    /\ mode \in {"running", "down"} => pending = EmptyCache
    /\ mode \in {"running", "writing", "down"} => todo = NothingToDo
    /\ mode = "running" => db.heads = <<>> /\ TipView = Utxo[tipBlock]
    /\ mode = "writing" => /\ tipBlock \in Block
                           /\ ViewOf(pending, db.coins) = Utxo[tipBlock]
                           /\ db.heads # <<>> => db.heads[1] = tipBlock
    /\ mode = "replaying" => ReplayOK

\* The blocks up to b can be read and undone.
Kept(b, idx) == ChainTo[b] \subseteq idx.data /\ ChainTo[b] \ {Genesis} \subseteq idx.undo

KeptVersion(d) ==
    /\ Kept(d.best, diskIndex)
    /\ d.heads # <<>> => Kept(d.heads[1], diskIndex) /\ Kept(d.heads[2], diskIndex)

DiskInv ==
    /\ diskIndex.data \subseteq index.data /\ diskIndex.undo \subseteq index.undo
    /\ Genesis \in diskIndex.data
    /\ \A b \in index.undo : undoFile[b] # NoEntry
    /\ KeptVersion(db) /\ KeptVersion(stable)
    /\ Kept(tipBlock, index)
    /\ mode \in {"writing", "replaying"} => Kept(tipBlock, diskIndex)
    /\ mode = "down" => index = diskIndex
    /\ mode = "replaying" =>
        /\ \A i \in 1..Len(todo.back) : todo.back[i] \in index.data \cap index.undo
        /\ \A i \in 1..Len(todo.forward) : todo.forward[i] \in index.data
    /\ mode # "failed"

IInv == TypeOK /\ DataInv

-----------------------------------------------------------------------------
(* The inductive invariant.                                                *)

\* The parts of a version of the database.
LEMMA DbStateIs ==
    ASSUME NEW d \in DbState
    PROVE  /\ d.coins \in BaseView /\ d.best \in Block \cup {Null}
           /\ d.heads # <<>> => /\ d.heads[1] \in Block /\ d.heads[2] \in Block \cup {Null}
                                /\ d.heads = <<d.heads[1], d.heads[2]>>
BY DEF DbState

\* The versions that CCoinsViewDB::BatchWrite writes (txdb.cpp:91-150).
LEMMA VersionIs ==
    ASSUME NEW coins \in BaseView, NEW a \in Block, NEW b \in Block \cup {Null}
    PROVE  /\ [coins |-> coins, best |-> Null, heads |-> <<a, b>>] \in DbState
           /\ [coins |-> coins, best |-> b, heads |-> <<>>] \in DbState
           /\ <<a, b>> # <<>>
BY DEF DbState

\* Nothing is left to do.
LEMMA NothingIs ==
    /\ NothingToDo \in [back : Seq(Block), forward : Seq(Block)]
    /\ NothingToDo.back = <<>> /\ NothingToDo.forward = <<>>
    /\ \A to : PathOK(<<>>, <<>>, to) /\ At(<<>>, <<>>, to) = to
<1>1. <<>> \in Seq(Block) /\ 1..Len(<<>>) = {}
  OBVIOUS
<1> QED
  BY <1>1 DEF NothingToDo, PathOK, At

\* ConnectBlock on the coins of the parent, for the genesis block too
\* (validation.cpp:2317-2323).
LEMMA ConnectIs ==
    ASSUME NEW b \in Block, NEW base, base = Utxo[Parent[b]]
    PROVE  /\ ConnectBlock(base, b).view \in Cache
           /\ Sound(ConnectBlock(base, b).view, base)
           /\ ViewOf(ConnectBlock(base, b).view, base) = Utxo[b]
           /\ b # Genesis => ConnectBlock(base, b).undo = UndoOf(b)
<1>1. CASE b # Genesis
  <2>1. b \in Block \ {Genesis}
    BY <1>1
  <2> QED
    BY Zenon, <2>1, ConnectBlockIs
<1>2. CASE b = Genesis
  <2> DEFINE acc == [view |-> EmptyCache, undo |-> NoUndo]
             Step(f) == [n \in 0..Len(<<>>) |-> IF n = 0 THEN acc
                             ELSE ApplyTx(base, Height[b], f[n - 1], <<>>[n])]
             F == CHOOSE f : f = Step(f)
             f0 == [n \in 0..Len(<<>>) |-> acc]
  <2>1. Len(<<>>) = 0 /\ 0..Len(<<>>) = {0}
    OBVIOUS
  <2>2. \A n \in 0..Len(<<>>) : n = 0
    BY <2>1
  <2>3. f0 = Step(f0)
    BY <2>2
  <2>4. F = Step(F)
    <3> HIDE DEF f0, Step
    <3> QED
      BY <2>3
  <2>5. ConnectBlock(base, b) = F[Len(<<>>)]
    BY <1>2 DEF ConnectBlock
  <2> HIDE DEF F, acc
  <2>6. ConnectBlock(base, b) = acc
    BY <2>1, <2>4, <2>5
  <2>7. base \in BaseView /\ base = Utxo[b]
    BY <1>2, UtxoStep, TreeAssumption
  <2> QED
    BY <1>2, <2>6, <2>7, EmptyCacheIs DEF acc
<1> QED
  BY <1>1, <1>2

\* The first run of the node.
LEMMA InitIs == Init => IInv
<1> SUFFICES ASSUME Init PROVE IInv
  OBVIOUS
<1> DEFINE none == [o \in Outpoint |-> Spent]
<1>1. none \in BaseView /\ none = Utxo[Null] /\ none = Utxo[Genesis]
  <2>1. none \in BaseView /\ Utxo[Null] \in BaseView
    BY UtxoStep DEF BaseView, CoinOrSpent
  <2>2. \A o \in Outpoint : none[o] = Utxo[Null][o]
    BY UtxoStep
  <2> HIDE DEF none
  <2> QED
    BY <2>1, <2>2, SameView, UtxoStep
<1>2. db = [coins |-> none, best |-> Null, heads |-> <<>>] /\ stable = db
  BY DEF Init
<1> HIDE DEF none
<1>3. db \in DbState /\ stable \in DbState
  BY Zenon, <1>1, <1>2, VersionIs, TreeAssumption
<1>4. TypeOK
  <2>1. 0 \in 0..MaxFile /\ 0 \in 0..MaxCrashes
    BY BoundsAssumption
  <2>2. diskIndex \in IndexState /\ index = diskIndex
    BY <2>1, StoredAssumption DEF Init, IndexState
  <2>3. EmptyCache \in Cache
    BY <1>1, EmptyCacheIs
  <2> QED
    BY <1>3, <2>1, <2>2, <2>3, NothingIs, TreeAssumption DEF Init, TypeOK
<1>5. VersionOK(db) /\ VersionOK(stable)
  BY Zenon, <1>1, <1>2 DEF VersionOK
<1>6. Sound(tip, db.coins) /\ Sound(pending, db.coins) /\ TipView = Utxo[tipBlock]
  BY <1>1, <1>2, EmptyCacheIs DEF Init, TipView
<1>7. DataInv
  BY <1>2, <1>5, <1>6 DEF DataInv, Init
<1> QED
  BY <1>4, <1>7 DEF IInv

\* Undo files are only written and index entries added: what IInv says of the
\* coins stays, when none of them change.
LEMMA SameCoins ==
    ASSUME IInv,
           UNCHANGED <<db, stable, undoFile, mode, tipBlock, tip, pending, todo, crashes>>,
           diskIndex' \in IndexState, index' \in IndexState, unsynced' \subseteq Block,
           fileOf' \in [Block -> 0..MaxFile]
    PROVE  IInv'
<1>1. TypeOK'
  BY DEF IInv, TypeOK
<1>2. DataInv'
  BY DEF IInv, DataInv, ReplayOK, TipView
<1> QED
  BY <1>1, <1>2 DEF IInv

\* ReceiveBlock touches no coin (validation.cpp:4158-4243).
LEMMA ReceiveBlockKeeps ==
    ASSUME IInv, NEW b \in Block, NEW nFile \in 0..MaxFile, ReceiveBlock(b, nFile)
    PROVE  IInv'
<1>1. index' \in IndexState
  BY Zenon DEF ReceiveBlock, IInv, TypeOK, IndexState
<1>2. unsynced' \subseteq Block
  BY DEF ReceiveBlock, IInv, TypeOK, FlushBlockFile
<1>3. fileOf' \in [Block -> 0..MaxFile] /\ diskIndex' \in IndexState
  BY DEF ReceiveBlock, IInv, TypeOK
<1>4. UNCHANGED <<db, stable, undoFile, mode, tipBlock, tip, pending, todo, crashes>>
  BY DEF ReceiveBlock
<1> QED
  BY <1>1, <1>2, <1>3, <1>4, SameCoins

\* Nor does a periodic write of the index (validation.cpp:2750-2774).
LEMMA WriteIndexKeeps ==
    ASSUME IInv, WriteIndex
    PROVE  IInv'
<1>1. unsynced' \subseteq Block /\ diskIndex' \in IndexState /\ index' \in IndexState
  BY DEF WriteIndex, IInv, TypeOK, FlushBlockFile
<1>2. fileOf' \in [Block -> 0..MaxFile]
  BY DEF WriteIndex, IInv, TypeOK
<1>3. UNCHANGED <<db, stable, undoFile, mode, tipBlock, tip, pending, todo, crashes>>
  BY DEF WriteIndex
<1> QED
  BY <1>1, <1>2, <1>3, SameCoins

\* A block view flushed into pcoinsTip (FlushView, validation.cpp:2947, 3088):
\* what the block's view shows is what pcoinsTip then shows.
LEMMA FlushViewIs ==
    ASSUME NEW cache \in Cache, NEW base \in BaseView, Sound(cache, base), NEW S,
           NEW child \in Cache, Sound(child, ViewOf(cache, base))
    PROVE  /\ BatchWrite(FetchAll(cache, base, S), child) \in Cache
           /\ Sound(BatchWrite(FetchAll(cache, base, S), child), base)
           /\ ViewOf(BatchWrite(FetchAll(cache, base, S), child), base)
                  = ViewOf(child, ViewOf(cache, base))
<1> DEFINE p == FetchAll(cache, base, S)
<1>1. p \in Cache /\ Sound(p, base) /\ ViewOf(p, base) = ViewOf(cache, base)
  BY FetchAllIs
<1> HIDE DEF p
<1>2. Sound(child, ViewOf(p, base))
  BY <1>1
<1>3. /\ BatchWrite(p, child) \in Cache /\ Sound(BatchWrite(p, child), base)
      /\ ViewOf(BatchWrite(p, child), base) = ViewOf(child, ViewOf(p, base))
  BY <1>1, <1>2, BatchWriteIs
<1> QED
  BY <1>1, <1>3 DEF p

\* While the node runs, a new content of pcoinsTip that shows the coins of the
\* new tip keeps the invariant.
LEMMA NewTip ==
    ASSUME IInv, mode = "running",
           UNCHANGED <<db, stable, diskIndex, mode, fileOf, pending, todo, crashes>>,
           index' \in IndexState, unsynced' \subseteq Block,
           undoFile' \in [Block -> BaseView \cup {NoEntry}],
           \A b \in Block : undoFile'[b] \in {NoEntry, UndoOf(b)},
           tipBlock' \in Block \cup {Null}, tip' \in Cache, Sound(tip', db.coins),
           ViewOf(tip', db.coins) = Utxo[tipBlock']
    PROVE  IInv'
<1>1. TypeOK'
  BY DEF IInv, TypeOK
<1>2. DataInv'
  BY DEF IInv, DataInv, TipView
<1> QED
  BY <1>1, <1>2 DEF IInv

\* ConnectTip (validation.cpp:3057-3111).
LEMMA ConnectTipKeeps ==
    ASSUME IInv, NEW b \in Block, ConnectTip(b)
    PROVE  IInv'
<1> DEFINE done == ConnectBlock(TipView, b)
           write == b # Genesis /\ b \notin index.undo
           base == db.coins
<1>1. /\ mode = "running" /\ b \in index.data /\ Parent[b] = tipBlock /\ tipBlock' = b
      /\ tip' = BatchWrite(FetchAll(tip, base, BlockIns(b)), done.view)
      /\ undoFile' = IF write THEN [undoFile EXCEPT ![b] = done.undo] ELSE undoFile
      /\ unsynced' = IF write THEN unsynced \cup {b} ELSE unsynced
      /\ index' = IF write THEN [index EXCEPT !.undo = @ \cup {b}] ELSE index
      /\ UNCHANGED <<db, stable, diskIndex, mode, fileOf, pending, todo, crashes>>
  BY DEF ConnectTip
<1>2. /\ TipView = Utxo[Parent[b]] /\ base \in BaseView /\ tip \in Cache /\ Sound(tip, base)
      /\ TipView = ViewOf(tip, base)
  BY <1>1, DbStateIs DEF IInv, TypeOK, DataInv, TipView
<1>3. /\ done.view \in Cache /\ Sound(done.view, TipView)
      /\ ViewOf(done.view, TipView) = Utxo[b]
      /\ b # Genesis => done.undo = UndoOf(b)
  BY Zenon, <1>2, ConnectIs
<1> HIDE DEF done, base
<1>4. tip' \in Cache /\ Sound(tip', base) /\ ViewOf(tip', base) = Utxo[b]
  BY <1>1, <1>2, <1>3, FlushViewIs
<1>5. index' \in IndexState /\ unsynced' \subseteq Block
  BY Zenon, <1>1 DEF IInv, TypeOK, IndexState
<1>6. /\ undoFile' \in [Block -> BaseView \cup {NoEntry}]
      /\ \A a \in Block : undoFile'[a] \in {NoEntry, UndoOf(a)}
  <2>1. /\ undoFile \in [Block -> BaseView \cup {NoEntry}]
        /\ \A a \in Block : undoFile[a] \in {NoEntry, UndoOf(a)}
    BY DEF IInv, TypeOK, DataInv
  <2>2. write => done.undo \in BaseView /\ done.undo = UndoOf(b)
    BY <1>3, UndoOfIs
  <2> QED
    BY <1>1, <2>1, <2>2
<1> QED
  BY <1>1, <1>4, <1>5, <1>6, NewTip DEF base

\* The view in which DisconnectTip undoes the tip.
LEMMA UndoneTip ==
    ASSUME NEW b \in Block \ {Genesis}, NEW base, base = Utxo[b], NEW undo, undo = UndoOf(b)
    PROVE  /\ DisconnectBlock(EmptyCache, base, b, undo).view \in Cache
           /\ Sound(DisconnectBlock(EmptyCache, base, b, undo).view, base)
           /\ ViewOf(DisconnectBlock(EmptyCache, base, b, undo).view, base) = Utxo[Parent[b]]
           /\ DisconnectBlock(EmptyCache, base, b, undo).clean
<1> DEFINE done == DisconnectBlock(EmptyCache, base, b, UndoOf(b))
           v == done.view
<1>1. base \in BaseView /\ Parent[b] \in Block
  BY UtxoStep, TreeAssumption
<1>2. EmptyCache \in SoundCaches(base) /\ ViewOf(EmptyCache, base) = base
  BY <1>1, EmptyCacheIs DEF SoundCaches
<1>3. v \in SoundCaches(base) /\ Between(ViewOf(v, base), Parent[b], Parent[b])
  <2>1. Between(ViewOf(EmptyCache, base), b, Parent[b])
    BY <1>2 DEF Between
  <2> QED
    BY Zenon, <1>1, <1>2, <2>1, BackStep
<1>4. done.clean
  BY Zenon, <1>1, <1>2, DisconnectBlockIs
<1> HIDE DEF done
<1>5. v \in Cache /\ Sound(v, base)
  BY <1>3 DEF SoundCaches
<1>6. ViewOf(v, base) = Utxo[Parent[b]]
  <2>1. ViewOf(v, base) \in BaseView
    BY <1>1, <1>5, ViewOfIs
  <2> QED
    BY <1>1, <1>3, <2>1, BetweenSame
<1> QED
  BY Zenon, <1>4, <1>5, <1>6 DEF done

\* DisconnectTip (validation.cpp:2931-2978): the coins are those of the parent.
LEMMA DisconnectTipKeeps ==
    ASSUME IInv, DisconnectTip
    PROVE  IInv'
<1> DEFINE b == tipBlock
           base == db.coins
           undone == DisconnectBlock(EmptyCache, TipView, b, undoFile[b])
           good == b \in index.undo /\ undoFile[b] # NoEntry /\ undone.clean
<1>1. /\ mode = "running" /\ b \notin {Null, Genesis}
      /\ UNCHANGED <<db, stable, diskIndex, undoFile, unsynced, index, fileOf, pending, todo, crashes>>
      /\ good => /\ tip' = BatchWrite(FetchAll(tip, base, BlockIns(b) \cup BlockOuts(b)), undone.view)
                 /\ tipBlock' = Parent[b] /\ mode' = mode
      /\ ~good => mode' = "failed" /\ UNCHANGED <<tip, tipBlock>>
  BY DEF DisconnectTip
<1>2. /\ b \in Block \ {Genesis} /\ base \in BaseView /\ tip \in Cache /\ Sound(tip, base)
      /\ TipView = Utxo[b] /\ TipView = ViewOf(tip, base)
      /\ undoFile[b] \in {NoEntry, UndoOf(b)}
  BY <1>1, DbStateIs DEF IInv, TypeOK, DataInv, TipView
<1>3. CASE good
  <2>1. undone.view \in Cache /\ Sound(undone.view, TipView) /\ ViewOf(undone.view, TipView) = Utxo[Parent[b]]
    BY Zenon, <1>2, <1>3, UndoneTip
  <2>2. tip' \in Cache /\ Sound(tip', base) /\ ViewOf(tip', base) = Utxo[Parent[b]]
    <3> HIDE DEF undone, base
    <3> QED
      BY <1>1, <1>2, <1>3, <2>1, FlushViewIs
  <2>3. Parent[b] \in Block \cup {Null}
    BY <1>2, TreeAssumption
  <2>4. /\ index' \in IndexState /\ unsynced' \subseteq Block
        /\ undoFile' \in [Block -> BaseView \cup {NoEntry}]
        /\ \A a \in Block : undoFile'[a] \in {NoEntry, UndoOf(a)}
    BY <1>1 DEF IInv, TypeOK, DataInv
  <2> QED
    BY <1>1, <1>3, <2>2, <2>3, <2>4, NewTip
<1>4. CASE ~good
  <2>1. TypeOK'
    BY <1>1, <1>4 DEF IInv, TypeOK
  <2>2. DataInv'
    BY <1>1, <1>4 DEF IInv, DataInv
  <2> QED
    BY <2>1, <2>2 DEF IInv
<1> QED
  BY <1>3, <1>4

\* FlushStateToDisk hands the whole of pcoinsTip to the database
\* (validation.cpp:2776-2795).
LEMMA FlushKeeps ==
    ASSUME IInv, FlushStateToDisk
    PROVE  IInv'
<1>1. /\ mode = "running" /\ mode' = "writing" /\ tipBlock \in Block
      /\ pending' = tip /\ tip' = EmptyCache /\ db.coins \in BaseView
      /\ UNCHANGED <<db, stable, undoFile, index, fileOf, tipBlock, todo, crashes>>
  BY DbStateIs DEF FlushStateToDisk, IInv, TypeOK
<1>2. EmptyCache \in Cache /\ Sound(EmptyCache, db.coins)
  BY <1>1, EmptyCacheIs
<1>3. TypeOK'
  <2>1. unsynced' \subseteq Block /\ diskIndex' \in IndexState
    BY DEF FlushStateToDisk, FlushBlockFile, IInv, TypeOK
  <2> QED
    BY <1>1, <1>2, <2>1 DEF IInv, TypeOK
<1>4. DataInv'
  BY <1>1, <1>2 DEF IInv, DataInv, TipView
<1> QED
  BY <1>3, <1>4 DEF IInv

\* The old head that a batch names has the coins from which the write started
\* (txdb.cpp:96-111).
LEMMA OldTipIs ==
    ASSUME IInv, mode = "writing"
    PROVE  /\ OldTip \in Block \cup {Null}
           /\ Between(db.coins, tipBlock, OldTip)
<1>1. /\ db.best \in Block \cup {Null} /\ Null \notin Block
      /\ db.heads # <<>> => db.heads[2] \in Block \cup {Null}
  BY DbStateIs, TreeAssumption DEF IInv, TypeOK
<1>2. /\ VersionOK(db)
      /\ db.heads # <<>> => db.heads[1] = tipBlock
  BY DEF IInv, DataInv
<1>3. CASE db.heads = <<>>
  <2>1. OldTip = db.best
    BY <1>1, <1>3 DEF OldTip
  <2> QED
    BY <1>1, <1>2, <1>3, <2>1 DEF VersionOK, Between
<1>4. CASE db.heads # <<>>
  <2>1. OldTip = db.heads[2]
    BY <1>2, <1>4 DEF OldTip, VersionOK
  <2> QED
    BY <1>1, <1>2, <1>4, <2>1 DEF VersionOK
<1> QED
  BY <1>3, <1>4

\* The database and the cache after a batch.
Moved(cache, base, S) == [o \in Outpoint |-> IF o \in S THEN cache[o].coin ELSE base[o]]

Remaining(cache, S) == [o \in Outpoint |-> IF o \in S THEN NoEntry ELSE cache[o]]

\* A batch of entries moved from the cache to the database.
LEMMA BatchMoved ==
    ASSUME NEW cache \in Cache, NEW base \in BaseView, Sound(cache, base), NEW S \in SUBSET Outpoint,
           \A o \in S : ToApply(cache, o),
           NEW moved, moved = Moved(cache, base, S), NEW left, left = Remaining(cache, S)
    PROVE  /\ moved \in BaseView /\ left \in Cache /\ Sound(left, moved)
           /\ ViewOf(left, moved) = ViewOf(cache, base)
           /\ \A o \in Outpoint : moved[o] \in {base[o], ViewOf(cache, base)[o]}
<1>1. \A o \in S : cache[o] \in Entry /\ cache[o] # NoEntry
  BY DEF ToApply, Cache
<1>2. moved \in BaseView
  BY <1>1 DEF BaseView, Entry, Moved
<1>3. left \in Cache
  BY DEF Cache, Remaining
<1>4. Sound(left, moved)
  BY DEF Sound, Moved, Remaining
<1>5. \A o \in Outpoint : ViewOf(left, moved)[o] = ViewOf(cache, base)[o]
  BY <1>1, <1>2, <1>3, ViewOfIs DEF Moved, Remaining
<1>6. ViewOf(left, moved) = ViewOf(cache, base)
  BY <1>2, <1>3, <1>5, ViewOfIs, SameView
<1>7. \A o \in Outpoint : moved[o] \in {base[o], ViewOf(cache, base)[o]}
  BY <1>1, ViewOfIs DEF Moved
<1> QED
  BY <1>2, <1>3, <1>4, <1>6, <1>7

\* CCoinsViewDB::BatchWrite, a full batch (txdb.cpp:113-139).
LEMMA WritePartialBatchKeeps ==
    ASSUME IInv, NEW S \in SUBSET Outpoint, WritePartialBatch(S)
    PROVE  IInv'
<1> DEFINE moved == Moved(pending, db.coins, S)
<1>1. /\ mode = "writing" /\ \A o \in S : ToApply(pending, o)
      /\ db' = [coins |-> moved, best |-> Null, heads |-> <<tipBlock, OldTip>>]
      /\ stable' \in {stable, db'}
      /\ pending' = Remaining(pending, S)
      /\ UNCHANGED <<diskIndex, undoFile, unsynced, mode, index, fileOf, tipBlock, tip, todo, crashes>>
  BY DEF WritePartialBatch, MayBeStable, Moved, Remaining
<1>2. /\ pending \in Cache /\ db.coins \in BaseView /\ Sound(pending, db.coins)
      /\ tipBlock \in Block /\ ViewOf(pending, db.coins) = Utxo[tipBlock]
      /\ tip = EmptyCache
  BY <1>1, DbStateIs DEF IInv, TypeOK, DataInv
<1>3. /\ moved \in BaseView /\ pending' \in Cache /\ Sound(pending', moved)
      /\ ViewOf(pending', moved) = Utxo[tipBlock]
      /\ \A o \in Outpoint : moved[o] \in {db.coins[o], Utxo[tipBlock][o]}
  BY <1>1, <1>2, BatchMoved
<1> HIDE DEF moved
<1>4. OldTip \in Block \cup {Null} /\ Between(db.coins, tipBlock, OldTip)
  BY <1>1, OldTipIs
<1>5. /\ db' \in DbState /\ db'.coins = moved /\ db'.best = Null
      /\ db'.heads = <<tipBlock, OldTip>> /\ db'.heads # <<>>
      /\ db'.heads[1] = tipBlock /\ db'.heads[2] = OldTip
  BY Zenon, <1>1, <1>2, <1>3, <1>4, VersionIs
<1>6. VersionOK(db')
  <2>1. Between(moved, tipBlock, OldTip)
    BY <1>3, <1>4 DEF Between
  <2> QED
    BY <1>5, <2>1 DEF VersionOK
<1>7. TypeOK'
  BY Zenon, <1>1, <1>3, <1>5 DEF IInv, TypeOK
<1>8. Sound(tip', db'.coins)
  BY <1>1, <1>2, <1>3, <1>5, EmptyCacheIs
<1>9. DataInv'
  BY <1>1, <1>2, <1>3, <1>5, <1>6, <1>8 DEF IInv, DataInv
<1> QED
  BY <1>7, <1>9 DEF IInv

\* The last batch (txdb.cpp:141-150).
LEMMA WriteFinalBatchKeeps ==
    ASSUME IInv, WriteFinalBatch
    PROVE  IInv'
<1> DEFINE coins == DbAfterBatch(db.coins, pending)
<1>1. /\ mode = "writing" /\ mode' = "running" /\ pending' = EmptyCache
      /\ db' = [coins |-> coins, best |-> tipBlock, heads |-> <<>>]
      /\ stable' \in {stable, db'}
      /\ UNCHANGED <<diskIndex, undoFile, unsynced, index, fileOf, tipBlock, tip, todo, crashes>>
  BY DEF WriteFinalBatch, MayBeStable
<1>2. /\ pending \in Cache /\ db.coins \in BaseView /\ Sound(pending, db.coins)
      /\ tipBlock \in Block /\ ViewOf(pending, db.coins) = Utxo[tipBlock]
      /\ tip = EmptyCache
  BY <1>1, DbStateIs DEF IInv, TypeOK, DataInv
<1>3. coins = Utxo[tipBlock] /\ coins \in BaseView
  BY <1>2, DbAfterBatchIs, UtxoStep
<1> HIDE DEF coins
<1>4. db' \in DbState /\ db'.coins = coins /\ db'.best = tipBlock /\ db'.heads = <<>>
  BY Zenon, <1>1, <1>2, <1>3, VersionIs
<1>5. VersionOK(db')
  BY <1>3, <1>4 DEF VersionOK
<1>6. EmptyCache \in Cache /\ Sound(EmptyCache, db'.coins) /\ ViewOf(EmptyCache, db'.coins) = coins
  BY <1>3, <1>4, EmptyCacheIs
<1>7. TypeOK'
  BY <1>1, <1>4, <1>6 DEF IInv, TypeOK
<1>8. DataInv'
  BY <1>1, <1>2, <1>3, <1>4, <1>5, <1>6 DEF IInv, DataInv, TipView
<1> QED
  BY <1>7, <1>8 DEF IInv

\* A crash, with or without the power, leaves one of the two versions of the
\* database and whole undo records only.
LEMMA CrashKeeps ==
    ASSUME IInv, NEW power \in BOOLEAN, Crash(power)
    PROVE  IInv'
<1>1. /\ mode' = "down" /\ crashes' = crashes + 1 /\ crashes < MaxCrashes
      /\ db' \in {db, stable} /\ unsynced' \in {{}, unsynced} /\ index' = diskIndex
      /\ tipBlock' = Null /\ tip' = EmptyCache /\ pending' = EmptyCache /\ todo' = NothingToDo
      /\ UNCHANGED <<stable, diskIndex, fileOf>>
  BY DEF Crash
<1>2. /\ undoFile' \in [Block -> BaseView \cup {NoEntry}]
      /\ \A b \in Block : undoFile'[b] \in {NoEntry, UndoOf(b)}
  BY DEF Crash, IInv, TypeOK, DataInv
<1>3. db' \in DbState /\ VersionOK(db') /\ db'.coins \in BaseView
  BY <1>1, DbStateIs DEF IInv, TypeOK, DataInv
<1>4. EmptyCache \in Cache /\ Sound(EmptyCache, db'.coins)
  BY <1>3, EmptyCacheIs
<1>5. crashes' \in 0..MaxCrashes
  BY <1>1, BoundsAssumption DEF IInv, TypeOK
<1>6. TypeOK'
  BY <1>1, <1>2, <1>3, <1>4, <1>5, NothingIs DEF IInv, TypeOK
<1>7. DataInv'
  BY <1>1, <1>2, <1>3, <1>4 DEF IInv, DataInv
<1> QED
  BY <1>6, <1>7 DEF IInv

\* What ReplayBlocks has to do on a database with two heads
\* (validation.cpp:4829-4853).
LEMMA ToReplay ==
    ASSUME NEW d \in DbState, VersionOK(d), d.heads # <<>>
    PROVE  /\ d.heads[1] \in Block /\ d.heads[2] \in Block \cup {Null}
           /\ d.heads = <<d.heads[1], d.heads[2]>>
           /\ OldBranch(d) \in Seq(Block) /\ NewBranch(d) \in Seq(Block)
           /\ PathOK(OldBranch(d), NewBranch(d), d.heads[1])
           /\ Between(d.coins, At(OldBranch(d), NewBranch(d), d.heads[1]), d.heads[1])
           /\ \A i \in 1..Len(OldBranch(d)) : OldBranch(d)[i] \in ChainTo[d.heads[2]] \ {Genesis}
           /\ \A i \in 1..Len(NewBranch(d)) : NewBranch(d)[i] \in ChainTo[d.heads[1]]
<1> DEFINE new == d.heads[1]
           old == d.heads[2]
           back == OldBranch(d)
           forward == NewBranch(d)
<1>1. new \in Block /\ old \in Block \cup {Null} /\ d.heads = <<new, old>>
  BY DbStateIs
<1> HIDE DEF new, old
<1>2. /\ back \in Seq(Block) /\ forward \in Seq(Block) /\ PathOK(back, forward, new)
      /\ Utxo[At(back, forward, new)] = Utxo[old]
      /\ \A i \in 1..Len(back) : back[i] \in ChainTo[old]
      /\ \A i \in 1..Len(forward) : forward[i] \in ChainTo[new]
  BY <1>1, BranchesAre
<1> HIDE DEF back, forward
<1>3. \A i \in 1..Len(back) : back[i] # Genesis
  BY <1>2 DEF PathOK
<1>4. Between(d.coins, At(back, forward, new), new)
  <2>1. Between(d.coins, new, old)
    BY DEF VersionOK, new, old
  <2> QED
    BY <1>2, <2>1 DEF Between
<1>5. /\ new \in Block /\ old \in Block \cup {Null} /\ d.heads = <<new, old>>
      /\ back \in Seq(Block) /\ forward \in Seq(Block)
      /\ PathOK(back, forward, new) /\ Between(d.coins, At(back, forward, new), new)
      /\ \A i \in 1..Len(back) : back[i] \in ChainTo[old] \ {Genesis}
      /\ \A i \in 1..Len(forward) : forward[i] \in ChainTo[new]
  BY <1>1, <1>2, <1>3, <1>4
<1> QED
  BY Zenon, <1>5 DEF new, old, back, forward

\* Start-up: a named best block is what the database holds; with two heads the
\* replay begins (validation.cpp:4640-4690, 4829-4853).
LEMMA RestartKeeps ==
    ASSUME IInv, Restart
    PROVE  IInv'
<1>1. /\ mode = "down" /\ index' \in IndexState
      /\ UNCHANGED <<db, stable, diskIndex, undoFile, unsynced, pending, fileOf, tip, crashes>>
  BY Zenon, TreeAssumption DEF Restart, diskVars, IInv, TypeOK, IndexState
<1>2. /\ db \in DbState /\ VersionOK(db) /\ db.coins \in BaseView /\ db.best \in Block \cup {Null}
      /\ tip = EmptyCache /\ pending = EmptyCache /\ todo = NothingToDo
  BY Zenon, <1>1, DbStateIs DEF IInv, TypeOK, DataInv
<1>3. ViewOf(EmptyCache, db.coins) = db.coins
  BY <1>2, EmptyCacheIs
<1>4. CASE db.heads = <<>>
  <2>1. mode' \in {"running", "failed"} /\ tipBlock' = db.best /\ todo' = todo
    BY <1>4 DEF Restart
  <2>2. TypeOK'
    BY <1>1, <1>2, <2>1 DEF IInv, TypeOK
  <2>3. TipView' = Utxo[tipBlock']
    BY <1>1, <1>2, <1>3, <1>4, <2>1 DEF TipView, VersionOK
  <2>4. DataInv'
    BY <1>1, <1>2, <1>4, <2>1, <2>3 DEF IInv, DataInv
  <2> QED
    BY <2>2, <2>4 DEF IInv
<1>5. CASE db.heads # <<>>
  <2>1. /\ mode' \in {"replaying", "failed"} /\ tipBlock' = db.heads[1]
        /\ todo' = [back |-> OldBranch(db), forward |-> NewBranch(db)]
    BY <1>5 DEF Restart
  <2>2. /\ db.heads[1] \in Block
        /\ OldBranch(db) \in Seq(Block) /\ NewBranch(db) \in Seq(Block)
        /\ PathOK(OldBranch(db), NewBranch(db), db.heads[1])
        /\ Between(db.coins, At(OldBranch(db), NewBranch(db), db.heads[1]), db.heads[1])
    BY <1>2, <1>5, ToReplay
  <2>3. TypeOK'
    BY <1>1, <2>1, <2>2 DEF IInv, TypeOK
  <2>4. ReplayOK'
    BY Zenon, <1>1, <1>2, <1>3, <1>5, <2>1, <2>2 DEF ReplayOK
  <2>5. DataInv'
    BY Zenon, <1>1, <1>2, <2>1, <2>4 DEF IInv, DataInv
  <2> QED
    BY <2>3, <2>5 DEF IInv
<1> QED
  BY <1>4, <1>5

\* The replay goes on with a new cache and less to do.
LEMMA ReplayKeeps ==
    ASSUME IInv, mode = "replaying", mode' \in {"replaying", "failed"},
           UNCHANGED <<diskVars, index, fileOf, tipBlock, tip, crashes>>,
           pending' \in Cache, Sound(pending', db.coins),
           todo' \in [back : Seq(Block), forward : Seq(Block)],
           mode' = "replaying" =>
               /\ PathOK(todo'.back, todo'.forward, tipBlock)
               /\ Between(ViewOf(pending', db.coins), At(todo'.back, todo'.forward, tipBlock), tipBlock)
    PROVE  IInv'
<1>1. TypeOK'
  BY Zenon DEF IInv, TypeOK, diskVars
<1>2. DataInv'
  BY Zenon DEF IInv, DataInv, ReplayOK, diskVars
<1> QED
  BY <1>1, <1>2 DEF IInv

\* One block of the old branch undone, whatever of it was there
\* (validation.cpp:4854-4877).
LEMMA ReplayBackKeeps ==
    ASSUME IInv, ReplayBack
    PROVE  IInv'
<1> DEFINE b == Head(todo.back)
           good == b \in index.data \cap index.undo /\ undoFile[b] # NoEntry
<1>1. /\ mode = "replaying" /\ todo.back # <<>>
      /\ UNCHANGED <<diskVars, index, fileOf, tipBlock, tip, crashes>>
      /\ good => /\ pending' = DisconnectBlock(pending, db.coins, b, undoFile[b]).view
                 /\ todo' = [todo EXCEPT !.back = Tail(@)] /\ mode' = mode
      /\ ~good => mode' = "failed" /\ UNCHANGED <<pending, todo>>
  BY DEF ReplayBack
<1>2. /\ todo \in [back : Seq(Block), forward : Seq(Block)]
      /\ pending \in Cache /\ db.coins \in BaseView /\ Sound(pending, db.coins) /\ tipBlock \in Block
      /\ PathOK(todo.back, todo.forward, tipBlock)
      /\ Between(ViewOf(pending, db.coins), At(todo.back, todo.forward, tipBlock), tipBlock)
  BY <1>1, DbStateIs DEF IInv, TypeOK, DataInv, ReplayOK
<1>3. todo.back \in Seq(Block) /\ todo.forward \in Seq(Block)
  BY <1>2
<1>4. CASE good
  <2>1. /\ b \in Block \ {Genesis} /\ Tail(todo.back) \in Seq(Block)
        /\ PathOK(Tail(todo.back), todo.forward, tipBlock)
        /\ At(todo.back, todo.forward, tipBlock) = b
        /\ At(Tail(todo.back), todo.forward, tipBlock) = Parent[b]
    BY <1>1, <1>2, <1>3, PathBack
  <2>2. undoFile[b] = UndoOf(b)
    BY Zenon, <1>4, <2>1 DEF IInv, DataInv
  <2>3. pending' \in Cache /\ Sound(pending', db.coins) /\ Between(ViewOf(pending', db.coins), Parent[b], tipBlock)
    <3> HIDE DEF b
    <3>1. pending' = DisconnectBlock(pending, db.coins, b, UndoOf(b)).view
      BY <1>1, <1>4, <2>2
    <3>2. pending \in SoundCaches(db.coins) /\ Between(ViewOf(pending, db.coins), b, tipBlock)
      BY <1>2, <2>1 DEF SoundCaches
    <3>3. pending' \in SoundCaches(db.coins) /\ Between(ViewOf(pending', db.coins), Parent[b], tipBlock)
      BY Zenon, <1>2, <2>1, <3>1, <3>2, BackStep
    <3> QED
      BY <3>3 DEF SoundCaches
  <2>4. /\ todo' \in [back : Seq(Block), forward : Seq(Block)]
        /\ todo'.back = Tail(todo.back) /\ todo'.forward = todo.forward
    BY Zenon, <1>1, <1>2, <1>4, <2>1
  <2> HIDE DEF b
  <2> QED
    BY <1>1, <1>4, <2>1, <2>3, <2>4, ReplayKeeps
<1>5. CASE ~good
  BY <1>1, <1>2, <1>5, ReplayKeeps
<1> QED
  BY <1>4, <1>5

\* One block of the new branch applied, whatever of it was there
\* (validation.cpp:4879-4886).
LEMMA ReplayForwardKeeps ==
    ASSUME IInv, ReplayForward
    PROVE  IInv'
<1> DEFINE b == Head(todo.forward)
           good == b \in index.data
<1>1. /\ mode = "replaying" /\ todo.back = <<>> /\ todo.forward # <<>>
      /\ UNCHANGED <<diskVars, index, fileOf, tipBlock, tip, crashes>>
      /\ good => /\ pending' = RollforwardBlock(pending, db.coins, b)
                 /\ todo' = [todo EXCEPT !.forward = Tail(@)] /\ mode' = mode
      /\ ~good => mode' = "failed" /\ UNCHANGED <<pending, todo>>
  BY DEF ReplayForward
<1>2. /\ todo \in [back : Seq(Block), forward : Seq(Block)]
      /\ pending \in Cache /\ db.coins \in BaseView /\ Sound(pending, db.coins) /\ tipBlock \in Block
      /\ PathOK(<<>>, todo.forward, tipBlock)
      /\ Between(ViewOf(pending, db.coins), At(<<>>, todo.forward, tipBlock), tipBlock)
  BY <1>1, DbStateIs DEF IInv, TypeOK, DataInv, ReplayOK
<1>3. todo.forward \in Seq(Block)
  BY <1>2
<1>4. CASE good
  <2>1. /\ b \in Block \ {Genesis} /\ Tail(todo.forward) \in Seq(Block)
        /\ PathOK(<<>>, Tail(todo.forward), tipBlock)
        /\ At(<<>>, todo.forward, tipBlock) = Parent[b]
        /\ At(<<>>, Tail(todo.forward), tipBlock) = b
    BY <1>1, <1>2, <1>3, PathForward
  <2>2. pending' \in Cache /\ Sound(pending', db.coins) /\ Between(ViewOf(pending', db.coins), b, tipBlock)
    <3> HIDE DEF b
    <3>1. pending' = RollforwardBlock(pending, db.coins, b)
      BY <1>1, <1>4
    <3>2. pending \in SoundCaches(db.coins) /\ Between(ViewOf(pending, db.coins), Parent[b], tipBlock)
      BY <1>2, <2>1 DEF SoundCaches
    <3>3. pending' \in SoundCaches(db.coins) /\ Between(ViewOf(pending', db.coins), b, tipBlock)
      BY Zenon, <1>2, <2>1, <3>1, <3>2, ForwardStep
    <3> QED
      BY <3>3 DEF SoundCaches
  <2>3. /\ todo' \in [back : Seq(Block), forward : Seq(Block)]
        /\ todo'.back = <<>> /\ todo'.forward = Tail(todo.forward)
    BY Zenon, <1>1, <1>2, <1>4, <2>1
  <2> HIDE DEF b
  <2> QED
    BY <1>1, <1>4, <2>1, <2>2, <2>3, ReplayKeeps
<1>5. CASE ~good
  BY <1>1, <1>2, <1>5, ReplayKeeps
<1> QED
  BY <1>4, <1>5

\* The replayed cache has the coins of the new head when it is flushed
\* (validation.cpp:4888-4890).
LEMMA ReplayFlushKeeps ==
    ASSUME IInv, ReplayFlush
    PROVE  IInv'
<1>1. /\ mode = "replaying" /\ todo = NothingToDo /\ mode' = "writing"
      /\ UNCHANGED <<db, stable, diskIndex, undoFile, unsynced, index, fileOf, tipBlock, tip,
                     pending, todo, crashes>>
  BY DEF ReplayFlush, diskVars
<1>2. /\ db.heads # <<>> /\ tipBlock = db.heads[1] /\ tipBlock \in Block
      /\ pending \in Cache /\ db.coins \in BaseView
      /\ Between(ViewOf(pending, db.coins), At(todo.back, todo.forward, tipBlock), tipBlock)
  BY Zenon, <1>1, DbStateIs DEF IInv, TypeOK, DataInv, ReplayOK
<1>3. ViewOf(pending, db.coins) = Utxo[tipBlock]
  <2>1. At(todo.back, todo.forward, tipBlock) = tipBlock
    BY Zenon, <1>1, NothingIs
  <2>2. ViewOf(pending, db.coins) \in BaseView
    BY Zenon, <1>2, ViewOfIs
  <2>3. tipBlock \in Block \cup {Null}
    BY <1>2
  <2>4. Between(ViewOf(pending, db.coins), tipBlock, tipBlock)
    BY Zenon, <1>2, <2>1
  <2> QED
    BY Zenon, <2>2, <2>3, <2>4, BetweenSame
<1>4. TypeOK'
  BY Zenon, <1>1 DEF IInv, TypeOK
<1>5. DataInv'
  BY Zenon, <1>1, <1>2, <1>3 DEF IInv, DataInv
<1> QED
  BY <1>4, <1>5 DEF IInv

\* Every step keeps the invariant.
LEMMA NextKeeps ==
    ASSUME IInv, [Next]_vars
    PROVE  IInv'
<1>1. CASE UNCHANGED vars
  BY Zenon, <1>1 DEF vars, IInv, TypeOK, DataInv, ReplayOK, TipView
<1>2. ASSUME NEW b \in Block, ConnectTip(b)
      PROVE  IInv'
  BY <1>2, ConnectTipKeeps
<1>3. ASSUME NEW b \in Block, NEW nFile \in 0..MaxFile, ReceiveBlock(b, nFile)
      PROVE  IInv'
  BY <1>3, ReceiveBlockKeeps
<1>4. ASSUME NEW S \in SUBSET Outpoint, WritePartialBatch(S)
      PROVE  IInv'
  BY <1>4, WritePartialBatchKeeps
<1>5. ASSUME NEW power \in BOOLEAN, Crash(power)
      PROVE  IInv'
  BY <1>5, CrashKeeps
<1>6. CASE DisconnectTip \/ WriteIndex \/ FlushStateToDisk
  BY <1>6, DisconnectTipKeeps, WriteIndexKeeps, FlushKeeps
<1>7. CASE Restart \/ ReplayBack \/ ReplayForward \/ ReplayFlush \/ WriteFinalBatch
  BY <1>7, RestartKeeps, ReplayBackKeeps, ReplayForwardKeeps, ReplayFlushKeeps, WriteFinalBatchKeeps
<1> QED
  BY <1>1, <1>2, <1>3, <1>4, <1>5, <1>6, <1>7 DEF Next, Recovery, WriteBatch

-----------------------------------------------------------------------------
(* Nothing that the replay needs is lost, when files are synced in time.    *)

\* A chain that is kept stays so when the index grows.
LEMMA KeptMore ==
    ASSUME NEW b, NEW idx, NEW more, Kept(b, idx),
           idx.data \subseteq more.data, idx.undo \subseteq more.undo
    PROVE  Kept(b, more)
BY DEF Kept

\* Nothing is needed for no block, and less for a parent.
LEMMA KeptParts ==
    ASSUME NEW idx
    PROVE  /\ Kept(Null, idx)
           /\ \A b \in Block : Kept(b, idx) =>
                  /\ b \in idx.data /\ (b # Genesis => b \in idx.undo)
                  /\ Kept(Parent[b], idx)
           /\ \A b \in Block : /\ Kept(Parent[b], idx) /\ b \in idx.data
                               /\ b \in idx.undo \cup {Genesis}
                               => Kept(b, idx)
BY ChainToStep DEF Kept

\* A new data directory names nothing.
LEMMA InitDisk == Init => DiskInv
<1> SUFFICES ASSUME Init PROVE DiskInv
  OBVIOUS
<1>1. /\ db.best = Null /\ stable.best = Null /\ db.heads = <<>> /\ stable.heads = <<>>
      /\ diskIndex.data = Stored /\ diskIndex.undo = {} /\ index = diskIndex
      /\ tipBlock = Genesis /\ mode = "running" /\ unsynced = {}
  BY DEF Init
<1>2. Genesis \in diskIndex.data
  BY <1>1, StoredAssumption
<1>3. Kept(Genesis, index)
  BY <1>1, <1>2, GenesisChain DEF Kept
<1> QED
  BY <1>1, <1>2, <1>3, KeptParts DEF DiskInv, KeptVersion

\* While the node runs, the index only grows.
LEMMA ReceiveBlockDisk ==
    ASSUME IInv, DiskInv, NEW b \in Block, NEW nFile \in 0..MaxFile, ReceiveBlock(b, nFile)
    PROVE  DiskInv'
<1>1. /\ mode = "running" /\ mode' = mode /\ index \in IndexState
      /\ index' = [index EXCEPT !.data = @ \cup {b}, !.last = nFile]
      /\ UNCHANGED <<db, stable, diskIndex, undoFile, tipBlock>>
  BY DEF ReceiveBlock, IInv, TypeOK
<1>2. index.data \subseteq index'.data /\ index'.undo = index.undo
  BY <1>1 DEF IndexState
<1>3. Kept(tipBlock, index')
  BY <1>2, KeptMore DEF DiskInv
<1> QED
  BY <1>1, <1>2, <1>3 DEF DiskInv, KeptVersion, Kept

\* ConnectTip writes the undo record before it marks the block
\* (validation.cpp:2030-2048).
LEMMA ConnectTipDisk ==
    ASSUME IInv, DiskInv, NEW b \in Block, ConnectTip(b)
    PROVE  DiskInv'
<1> DEFINE done == ConnectBlock(TipView, b)
           write == b # Genesis /\ b \notin index.undo
<1>1. /\ mode = "running" /\ mode' = mode /\ b \in index.data /\ Parent[b] = tipBlock /\ tipBlock' = b
      /\ undoFile' = IF write THEN [undoFile EXCEPT ![b] = done.undo] ELSE undoFile
      /\ index' = IF write THEN [index EXCEPT !.undo = @ \cup {b}] ELSE index
      /\ UNCHANGED <<db, stable, diskIndex>>
  BY DEF ConnectTip
<1>2. b # Genesis => done.undo = UndoOf(b)
  BY <1>1, ConnectIs DEF IInv, DataInv
<1>3. write => done.undo # NoEntry
  BY <1>2, UndoOfIs, NoUndoAssumption
<1> HIDE DEF done
<1>4. index \in IndexState /\ undoFile \in [Block -> BaseView \cup {NoEntry}]
  BY DEF IInv, TypeOK
<1>5. /\ index'.data = index.data /\ index.undo \subseteq index'.undo
      /\ b \in index'.undo \cup {Genesis}
      /\ \A a \in index'.undo : a \in index.undo \/ (write /\ a = b)
  BY <1>1, <1>4 DEF IndexState
<1>6. \A a \in index'.undo : undoFile'[a] # NoEntry
  BY <1>1, <1>3, <1>4, <1>5 DEF DiskInv, IndexState
<1>7. Kept(tipBlock', index')
  <2>1. Kept(tipBlock, index')
    BY <1>5, KeptMore DEF DiskInv
  <2> QED
    BY Zenon, <1>1, <1>5, <2>1, KeptParts
<1> QED
  BY <1>1, <1>5, <1>6, <1>7 DEF DiskInv, KeptVersion, Kept

\* DisconnectTip finds its undo record and undoes the block cleanly.
LEMMA DisconnectTipDisk ==
    ASSUME IInv, DiskInv, DisconnectTip
    PROVE  DiskInv'
<1> DEFINE b == tipBlock
           undone == DisconnectBlock(EmptyCache, TipView, b, undoFile[b])
           good == b \in index.undo /\ undoFile[b] # NoEntry /\ undone.clean
<1>1. /\ mode = "running" /\ b \in Block \ {Genesis} /\ TipView = Utxo[b]
      /\ undoFile[b] \in {NoEntry, UndoOf(b)}
  BY Zenon DEF DisconnectTip, IInv, TypeOK, DataInv
<1>2. b \in index.undo /\ undoFile[b] # NoEntry /\ Kept(Parent[b], index)
  BY Zenon, <1>1, KeptParts DEF DiskInv
<1>3. undone.clean
  BY <1>1, <1>2, UndoneTip
<1>4. /\ tipBlock' = Parent[b] /\ mode' = mode
      /\ UNCHANGED <<db, stable, diskIndex, undoFile, unsynced, index>>
  BY Zenon, <1>2, <1>3 DEF DisconnectTip
<1> QED
  BY Zenon, <1>1, <1>2, <1>4 DEF DiskInv, KeptVersion, Kept

\* The index on disk becomes the one in memory (validation.cpp:2750-2774).
LEMMA IndexWritten ==
    ASSUME DiskInv, diskIndex' = index, mode = "running",
           mode' \in {"running", "writing"},
           UNCHANGED <<db, stable, undoFile, index, tipBlock>>
    PROVE  DiskInv'
<1>1. \A b : Kept(b, diskIndex) => Kept(b, index)
  BY KeptMore DEF DiskInv
<1>2. KeptVersion(db)' /\ KeptVersion(stable)'
  BY <1>1 DEF DiskInv, KeptVersion, Kept
<1>3. Kept(tipBlock, index)' /\ Kept(tipBlock, diskIndex)'
  BY DEF DiskInv, Kept
<1> QED
  BY <1>2, <1>3 DEF DiskInv

\* A batch names only heads whose chains the stored index has.
LEMMA WritePartialBatchDisk ==
    ASSUME IInv, DiskInv, NEW S \in SUBSET Outpoint, WritePartialBatch(S)
    PROVE  DiskInv'
<1>1. /\ mode = "writing" /\ mode' = mode
      /\ db'.best = Null /\ db'.heads = <<tipBlock, OldTip>>
      /\ stable' \in {stable, db'}
      /\ UNCHANGED <<diskIndex, undoFile, unsynced, index, tipBlock, todo>>
  BY DEF WritePartialBatch, MayBeStable
<1>2. Kept(OldTip, diskIndex)
  BY KeptParts DEF OldTip, DiskInv, KeptVersion
<1>3. KeptVersion(db)' /\ KeptVersion(stable)'
  <2>1. Kept(tipBlock, diskIndex) /\ Kept(Null, diskIndex) /\ KeptVersion(stable)
    BY Zenon, <1>1, KeptParts DEF DiskInv
  <2>2. db'.heads[1] = tipBlock /\ db'.heads[2] = OldTip
    <3>1. <<tipBlock, OldTip>>[1] = tipBlock /\ <<tipBlock, OldTip>>[2] = OldTip
      OBVIOUS
    <3> QED
      BY Zenon, <1>1, <3>1
  <2>3. KeptVersion(db)'
    BY <1>1, <1>2, <2>1, <2>2 DEF KeptVersion, Kept
  <2> QED
    BY <1>1, <2>1, <2>3 DEF KeptVersion, Kept
<1> QED
  BY Zenon, <1>1, <1>3 DEF DiskInv, Kept

\* The last batch names the tip.
LEMMA WriteFinalBatchDisk ==
    ASSUME IInv, DiskInv, WriteFinalBatch
    PROVE  DiskInv'
<1>1. /\ mode = "writing" /\ mode' = "running"
      /\ db'.best = tipBlock /\ db'.heads = <<>>
      /\ stable' \in {stable, db'}
      /\ UNCHANGED <<diskIndex, undoFile, unsynced, index, tipBlock, todo>>
  BY DEF WriteFinalBatch, MayBeStable
<1>2. KeptVersion(db)' /\ KeptVersion(stable)'
  BY <1>1 DEF DiskInv, KeptVersion, Kept
<1> QED
  BY <1>1, <1>2 DEF DiskInv, Kept

\* What a power loss takes away, the stored index does not name.
LEMMA CrashDisk ==
    ASSUME IInv, DiskInv, IndexedUndoIsSynced, NEW power \in BOOLEAN, Crash(power)
    PROVE  DiskInv'
<1>1. /\ mode' = "down" /\ db' \in {db, stable}
      /\ index' = diskIndex /\ tipBlock' = Null
      /\ UNCHANGED <<stable, diskIndex>>
  BY DEF Crash
<1>2. \A b \in diskIndex.undo : undoFile'[b] # NoEntry
  <2>1. \A b \in diskIndex.undo : b \in Block /\ b \notin unsynced /\ undoFile[b] # NoEntry
    BY DEF IInv, TypeOK, IndexState, DiskInv, IndexedUndoIsSynced
  <2> QED
    BY <2>1 DEF Crash
<1>3. KeptVersion(db)' /\ KeptVersion(stable)' /\ Kept(tipBlock, index)'
  BY Zenon, <1>1, KeptParts DEF DiskInv, KeptVersion, Kept
<1> QED
  BY Zenon, <1>1, <1>2, <1>3 DEF DiskInv

\* Start-up finds its heads, and every block that it has to replay.
LEMMA RestartDisk ==
    ASSUME IInv, DiskInv, Restart
    PROVE  DiskInv'
<1>1. /\ mode = "down" /\ index = diskIndex /\ Genesis \in diskIndex.data /\ index \in IndexState
      /\ UNCHANGED <<db, stable, diskIndex, undoFile, unsynced>>
      /\ index' = [index EXCEPT !.data = @ \cup {Genesis}]
  BY DEF Restart, diskVars, IInv, TypeOK, DiskInv
<1>2. index'.data = index.data /\ index'.undo = index.undo
  BY <1>1 DEF IndexState
<1>3. /\ db \in DbState /\ VersionOK(db) /\ db.best \in Block \cup {Null}
  BY Zenon, DbStateIs DEF IInv, TypeOK, DataInv
<1>4. KeptVersion(db) /\ KeptVersion(stable) /\ (KeptVersion(db) /\ KeptVersion(stable))'
  BY <1>1 DEF DiskInv, KeptVersion, Kept
<1>5. CASE db.heads = <<>>
  <2>1. db.best \in index'.data \cup {Null} /\ Kept(db.best, index')
    <3>1. Kept(db.best, index)
      BY <1>1, <1>4 DEF KeptVersion
    <3>2. Kept(db.best, index')
      BY <1>2, <3>1 DEF Kept
    <3> QED
      BY <1>3, <3>2, KeptParts
  <2>2. mode' = "running" /\ tipBlock' = db.best
    BY <1>5, <2>1 DEF Restart
  <2> QED
    BY <1>1, <1>2, <1>4, <2>1, <2>2 DEF DiskInv, Kept
<1>6. CASE db.heads # <<>>
  <2>1. /\ db.heads[1] \in Block /\ db.heads[2] \in Block \cup {Null}
        /\ \A i \in 1..Len(OldBranch(db)) : OldBranch(db)[i] \in ChainTo[db.heads[2]] \ {Genesis}
        /\ \A i \in 1..Len(NewBranch(db)) : NewBranch(db)[i] \in ChainTo[db.heads[1]]
    BY Zenon, <1>3, <1>6, ToReplay
  <2>2. Kept(db.heads[1], index') /\ Kept(db.heads[2], index') /\ Kept(db.heads[1], diskIndex)
    BY Zenon, <1>1, <1>2, <1>4, <1>6, KeptMore DEF KeptVersion
  <2>3. db.heads[1] \in index'.data /\ db.heads[2] \in index'.data \cup {Null}
    BY <2>1, <2>2, KeptParts
  <2>4. /\ mode' = "replaying" /\ tipBlock' = db.heads[1]
        /\ todo' = [back |-> OldBranch(db), forward |-> NewBranch(db)]
    BY <1>6, <2>3 DEF Restart
  <2>5. /\ \A i \in 1..Len(todo'.back) : todo'.back[i] \in index'.data \cap index'.undo
        /\ \A i \in 1..Len(todo'.forward) : todo'.forward[i] \in index'.data
    BY <2>1, <2>2, <2>4 DEF Kept
  <2> QED
    BY <1>1, <1>2, <1>4, <2>2, <2>4, <2>5 DEF DiskInv, Kept
<1> QED
  BY <1>5, <1>6

\* The replay reads the block and the undo record that come first.
LEMMA ReplayDisk ==
    ASSUME IInv, DiskInv, ReplayBack \/ ReplayForward \/ ReplayFlush
    PROVE  DiskInv'
<1>1. /\ mode = "replaying"
      /\ UNCHANGED <<db, stable, diskIndex, undoFile, unsynced, index, tipBlock>>
      /\ todo \in [back : Seq(Block), forward : Seq(Block)]
      /\ \A i \in 1..Len(todo.back) : todo.back[i] \in index.data \cap index.undo
      /\ \A i \in 1..Len(todo.forward) : todo.forward[i] \in index.data
  BY DEF ReplayBack, ReplayForward, ReplayFlush, diskVars, IInv, TypeOK, DiskInv
<1>2. /\ mode' \in {"replaying", "writing"}
      /\ \A i \in 1..Len(todo'.back) : todo'.back[i] \in index.data \cap index.undo
      /\ \A i \in 1..Len(todo'.forward) : todo'.forward[i] \in index.data
  <2>1. CASE ReplayBack
    <3>1. /\ todo.back # <<>> /\ todo.back \in Seq(Block) /\ Head(todo.back) = todo.back[1]
          /\ 1 \in 1..Len(todo.back)
      BY <1>1, <2>1 DEF ReplayBack
    <3>2. Head(todo.back) \in index.data \cap index.undo /\ undoFile[Head(todo.back)] # NoEntry
      BY <1>1, <3>1 DEF DiskInv
    <3>3. mode' = mode /\ todo' = [todo EXCEPT !.back = Tail(@)]
      BY <2>1, <3>2 DEF ReplayBack
    <3>4. todo'.back = Tail(todo.back) /\ todo'.forward = todo.forward
      BY <1>1, <3>3
    <3>5. \A i \in 1..Len(Tail(todo.back)) : i + 1 \in 1..Len(todo.back) /\ Tail(todo.back)[i] = todo.back[i + 1]
      BY <3>1
    <3> QED
      BY <1>1, <3>3, <3>4, <3>5
  <2>2. CASE ReplayForward
    <3>1. /\ todo.forward # <<>> /\ todo.forward \in Seq(Block) /\ Head(todo.forward) = todo.forward[1]
          /\ 1 \in 1..Len(todo.forward)
      BY <1>1, <2>2 DEF ReplayForward
    <3>2. Head(todo.forward) \in index.data
      BY <1>1, <3>1
    <3>3. mode' = mode /\ todo' = [todo EXCEPT !.forward = Tail(@)]
      BY <2>2, <3>2 DEF ReplayForward
    <3>4. todo'.forward = Tail(todo.forward) /\ todo'.back = todo.back
      BY <1>1, <3>3
    <3>5. \A i \in 1..Len(Tail(todo.forward)) :
              i + 1 \in 1..Len(todo.forward) /\ Tail(todo.forward)[i] = todo.forward[i + 1]
      BY <3>1
    <3> QED
      BY <1>1, <3>3, <3>4, <3>5
  <2>3. CASE ReplayFlush
    BY <1>1, <2>3 DEF ReplayFlush
  <2> QED
    BY <2>1, <2>2, <2>3
<1> QED
  BY Zenon, <1>1, <1>2 DEF DiskInv, KeptVersion, Kept

\* Every step keeps on disk what it names.
LEMMA NextDisk ==
    ASSUME IInv, DiskInv, IndexedUndoIsSynced, [Next]_vars
    PROVE  DiskInv'
<1>1. CASE UNCHANGED vars
  BY Zenon, <1>1 DEF vars, DiskInv, KeptVersion, Kept
<1>2. ASSUME NEW b \in Block, ConnectTip(b)
      PROVE  DiskInv'
  BY <1>2, ConnectTipDisk
<1>3. ASSUME NEW b \in Block, NEW nFile \in 0..MaxFile, ReceiveBlock(b, nFile)
      PROVE  DiskInv'
  BY <1>3, ReceiveBlockDisk
<1>4. ASSUME NEW S \in SUBSET Outpoint, WritePartialBatch(S)
      PROVE  DiskInv'
  BY <1>4, WritePartialBatchDisk
<1>5. ASSUME NEW power \in BOOLEAN, Crash(power)
      PROVE  DiskInv'
  BY <1>5, CrashDisk
<1>6. CASE WriteIndex \/ FlushStateToDisk
  BY <1>6, IndexWritten DEF WriteIndex, FlushStateToDisk
<1>7. CASE DisconnectTip \/ Restart \/ WriteFinalBatch
  BY <1>7, DisconnectTipDisk, RestartDisk, WriteFinalBatchDisk
<1>8. CASE ReplayBack \/ ReplayForward \/ ReplayFlush
  BY <1>8, ReplayDisk
<1> QED
  BY <1>1, <1>2, <1>3, <1>4, <1>5, <1>6, <1>7, <1>8 DEF Next, Recovery, WriteBatch

\* With one file, FlushBlockFile covers every undo record
\* (validation.cpp:2753-2757).
LEMMA OneFile ==
    ASSUME TypeOK, MaxFile = 0
    PROVE  FlushBlockFile = {}
<1>1. index.last \in 0..0 /\ unsynced \subseteq Block /\ \A b \in Block : fileOf[b] \in 0..0
  BY DEF TypeOK, IndexState
<1>2. \A n \in 0..0 : n = 0
  OBVIOUS
<1> QED
  BY <1>1, <1>2 DEF FlushBlockFile

\* Then no step makes the stored index name an undo record that is not synced.
LEMMA NextSynced ==
    ASSUME IInv, DiskInv, IndexedUndoIsSynced, MaxFile = 0, [Next]_vars
    PROVE  IndexedUndoIsSynced'
<1>1. FlushBlockFile = {}
  BY OneFile DEF IInv
<1>2. CASE WriteIndex \/ FlushStateToDisk
  BY <1>1, <1>2 DEF WriteIndex, FlushStateToDisk, IndexedUndoIsSynced
<1>3. ASSUME NEW b \in Block, ConnectTip(b)
      PROVE  IndexedUndoIsSynced'
  <2>1. /\ diskIndex' = diskIndex
        /\ unsynced' = unsynced \/ (b \notin index.undo /\ unsynced' = unsynced \cup {b})
    BY <1>3 DEF ConnectTip
  <2> QED
    BY <2>1 DEF DiskInv, IndexedUndoIsSynced
<1>4. ASSUME NEW b \in Block, NEW nFile \in 0..MaxFile, ReceiveBlock(b, nFile)
      PROVE  IndexedUndoIsSynced'
  BY <1>1, <1>4 DEF ReceiveBlock, IndexedUndoIsSynced
<1>5. ASSUME NEW power \in BOOLEAN, Crash(power)
      PROVE  IndexedUndoIsSynced'
  BY <1>5 DEF Crash, IndexedUndoIsSynced
<1>6. ASSUME NEW S \in SUBSET Outpoint, WritePartialBatch(S)
      PROVE  IndexedUndoIsSynced'
  BY <1>6 DEF WritePartialBatch, IndexedUndoIsSynced
<1>7. CASE DisconnectTip \/ WriteFinalBatch \/ UNCHANGED vars
  BY Zenon, <1>7 DEF DisconnectTip, WriteFinalBatch, vars, IndexedUndoIsSynced
<1>8. CASE Restart \/ ReplayBack \/ ReplayForward \/ ReplayFlush
  BY <1>8 DEF Restart, ReplayBack, ReplayForward, ReplayFlush, diskVars, IndexedUndoIsSynced
<1> QED
  BY <1>2, <1>3, <1>4, <1>5, <1>6, <1>7, <1>8 DEF Next, Recovery, WriteBatch

-----------------------------------------------------------------------------
(* Theorems.                                                               *)

\* The inductive invariant: what pcoinsTip, the two versions of the database,
\* the batch that is being written and the interrupted replay hold, for every
\* tree of valid blocks, any crashes and any split into batches.
THEOREM InductiveInvariant == Spec => []IInv
<1>1. IInv /\ [Next]_vars => IInv'
  BY NextKeeps
<1> QED
  BY <1>1, InitIs, PTL DEF Spec

\* Every variable keeps its type; above all, a database never names one head
\* without the other, and the new head is a block (txdb.cpp:104-111).
THEOREM TypesHold == Spec => []TypeOK
<1>1. IInv => TypeOK
  BY DEF IInv
<1> QED
  BY <1>1, InductiveInvariant, PTL

\* pcoinsTip shows exactly the coins of the active chain, over a half-written
\* database too: ConnectTip and DisconnectTip are inverse, and no flag of an
\* entry ever misleads BatchWrite (validation.cpp:2931-3111).
THEOREM TipIsAlwaysUtxo == Spec => []TipIsUtxo
<1>1. IInv => TipIsUtxo
  BY DEF IInv, DataInv, TipIsUtxo
<1> QED
  BY <1>1, InductiveInvariant, PTL

\* A database that names a best block holds exactly the coins of that block,
\* after any number of crashes, replays and interrupted replays
\* (txdb.cpp:91-150, validation.cpp:4829-4892).
THEOREM BestBlockIsAlwaysTrue == Spec => []BestBlockIsTrue
<1>1. IInv => BestBlockIsTrue
  BY DEF IInv, DataInv, VersionOK, BestBlockIsTrue
<1> QED
  BY <1>1, InductiveInvariant, PTL

\* As long as the stored index names no undo record that is not synced, whatever
\* it and the database name can be read and undone: the index is written, then
\* the coins (validation.cpp:2750-2795).
THEOREM DiskInvariant == Spec /\ []IndexedUndoIsSynced => []DiskInv
<1>1. IInv /\ DiskInv /\ IndexedUndoIsSynced /\ [Next]_vars => DiskInv'
  BY NextDisk
<1> QED
  BY <1>1, InitDisk, InductiveInvariant, PTL DEF Spec

\* Then neither start-up nor DisconnectTip ever meets missing data or an
\* unclean disconnect, however many block files there are
\* (validation.cpp:2945, 4667-4682, 4837-4872).
THEOREM NothingFails == Spec /\ []IndexedUndoIsSynced => []NeverFails
<1>1. DiskInv => NeverFails
  BY DEF DiskInv, NeverFails
<1> QED
  BY <1>1, DiskInvariant, PTL

\* And at every moment, also in the middle of a write or of a replay, what is on
\* disk suffices for ReplayBlocks to rebuild exactly the coins of the block that
\* was being written (validation.cpp:4829-4892).
THEOREM RecoveryIsPossible == Spec /\ []IndexedUndoIsSynced => []AlwaysRecoverable
<1>1. IInv /\ DiskInv /\ IndexedUndoIsSynced => AlwaysRecoverable
  <2> SUFFICES ASSUME IInv, DiskInv, IndexedUndoIsSynced, stable.heads # <<>>
               PROVE  /\ ReplayReadable(stable, diskIndex,
                            [b \in Block |-> IF b \in unsynced THEN NoEntry ELSE undoFile[b]])
                      /\ DbAfterBatch(stable.coins, Replayed(stable, undoFile)) = Utxo[stable.heads[1]]
    BY DEF AlwaysRecoverable
  <2> DEFINE new == stable.heads[1]
             old == stable.heads[2]
             back == OldBranch(stable)
             forward == NewBranch(stable)
             synced == [b \in Block |-> IF b \in unsynced THEN NoEntry ELSE undoFile[b]]
  <2>1. stable \in DbState /\ VersionOK(stable) /\ stable.coins \in BaseView
    BY Zenon, DbStateIs DEF IInv, TypeOK, DataInv
  <2>2. /\ new \in Block /\ old \in Block \cup {Null} /\ stable.heads = <<new, old>>
        /\ back \in Seq(Block) /\ forward \in Seq(Block)
        /\ \A i \in 1..Len(back) : back[i] \in ChainTo[old] \ {Genesis}
        /\ \A i \in 1..Len(forward) : forward[i] \in ChainTo[new]
    BY Zenon, <2>1, ToReplay
  <2>3. Kept(new, diskIndex) /\ Kept(old, diskIndex)
    BY Zenon DEF DiskInv, KeptVersion
  <2>4. \A b \in diskIndex.undo : /\ b \in Block /\ b \notin unsynced
                                  /\ undoFile[b] = UndoOf(b) /\ undoFile[b] # NoEntry
    BY Zenon DEF IInv, TypeOK, IndexState, DataInv, DiskInv, IndexedUndoIsSynced
  <2>5. \A i \in 1..Len(back) : /\ back[i] \in diskIndex.data \cap diskIndex.undo
                                /\ synced[back[i]] # NoEntry
                                /\ undoFile[back[i]] = UndoOf(back[i])
    BY Zenon, <2>2, <2>3, <2>4 DEF Kept
  <2>6. \A i \in 1..Len(forward) : forward[i] \in diskIndex.data
    BY <2>2, <2>3 DEF Kept
  <2>7. new \in diskIndex.data /\ old \in diskIndex.data \cup {Null}
    BY <2>2, <2>3, KeptParts
  <2>8. ReplayReadable(stable, diskIndex, synced)
    <3>1. DOMAIN back = 1..Len(back) /\ DOMAIN forward = 1..Len(forward)
      BY <2>2
    <3> HIDE DEF synced
    <3> QED
      BY <2>5, <2>6, <2>7, <3>1 DEF ReplayReadable
  <2>9. DbAfterBatch(stable.coins, Replayed(stable, undoFile)) = Utxo[new]
    <3>1. Between(stable.coins, new, old)
      BY <2>1 DEF VersionOK
    <3>2. \A i \in 1..Len(OldBranch(stable)) : undoFile[OldBranch(stable)[i]] = UndoOf(OldBranch(stable)[i])
      BY Zenon, <2>5
    <3> HIDE DEF new, old, back, forward
    <3> QED
      BY <2>1, <2>2, <3>1, <3>2, ReplayedIs
  <2> QED
    BY <2>8, <2>9
<1> QED
  BY <1>1, InductiveInvariant, DiskInvariant, PTL

\* FlushStateToDisk syncs the last block file only; with a single one that is
\* what its comment promises (validation.cpp:2753), and by the theorems above
\* the node never fails and can always recover.
THEOREM OneFileIsSafe ==
    ASSUME MaxFile = 0
    PROVE  Spec => [](IndexedUndoIsSynced /\ NeverFails /\ AlwaysRecoverable)
<1>1. Init => IndexedUndoIsSynced
  BY DEF Init, IndexedUndoIsSynced
<1>2. IInv /\ DiskInv /\ IndexedUndoIsSynced /\ [Next]_vars => DiskInv' /\ IndexedUndoIsSynced'
  BY NextDisk, NextSynced
<1>3. Spec => []IndexedUndoIsSynced
  BY <1>1, <1>2, InitDisk, InductiveInvariant, PTL DEF Spec
<1> QED
  BY <1>3, NothingFails, RecoveryIsPossible, PTL

=============================================================================
