-------------------------- MODULE CoinsViewsProof ---------------------------
(***************************************************************************)
(* Proofs about CoinsViews, for any sets of outpoints, coins and blocks.   *)
(* IInv is the inductive invariant: truthful flags alone are not inductive,*)
(* because a FRESH pruned entry would be dropped by one path and kept by   *)
(* another, so it also says which pruned entries exist.                    *)
(***************************************************************************)
EXTENDS CoinsViews, TLAPS

\* A cache c over a base b whose flags are truthful and whose pruned entries
\* all wait for a flush.
GoodCache(c, b) ==
    \A o \in Outpoint : c[o] # NoEntry =>
        /\ ~c[o].dirty => c[o].coin = b[o]
        /\ c[o].fresh => b[o] = Spent
        /\ c[o].coin = Spent => c[o].dirty /\ ~c[o].fresh

IInv ==
    /\ TypeOK
    /\ GoodCache(tip, db)
    /\ GoodCache(view, TipView)
    /\ phase = "closed" => view = EmptyCache /\ viewHash = Null
    /\ phase = "done" => viewHash \in Block
    /\ ~thrown

-----------------------------------------------------------------------------
(* Lemmas about the operators of CoinsCache. *)

\* What a view over a base answers is a base view itself (GetCoin).
LEMMA ViewOfType ==
    ASSUME NEW c \in Cache, NEW b \in BaseView
    PROVE  ViewOf(c, b) \in BaseView
BY NoEntryIsNoEntry DEF ViewOf, BaseView, Cache, Entry

\* An empty cache shows its base.
LEMMA ViewOfEmpty ==
    ASSUME NEW b \in BaseView
    PROVE  ViewOf(EmptyCache, b) = b
BY DEF ViewOf, EmptyCache, BaseView

\* Fetching keeps a cache good and changes nothing that is visible
\* (coins.cpp:40-55).
LEMMA FetchCoinGood ==
    ASSUME NEW c \in Cache, NEW b \in BaseView, NEW o \in Outpoint,
           GoodCache(c, b)
    PROVE  /\ FetchCoin(c, b, o) \in Cache
           /\ GoodCache(FetchCoin(c, b, o), b)
           /\ ViewOf(FetchCoin(c, b, o), b) = ViewOf(c, b)
BY SpentIsNoCoin, NoEntryIsNoEntry
   DEF FetchCoin, GoodCache, ViewOf, Cache, BaseView, Entry, CoinOrSpent

\* Spending keeps a cache good and makes exactly that coin invisible
\* (coins.cpp:98-112).
LEMMA SpendCoinGood ==
    ASSUME NEW c \in Cache, NEW b \in BaseView, NEW o \in Outpoint,
           GoodCache(c, b)
    PROVE  /\ SpendCoin(c, b, o) \in Cache
           /\ GoodCache(SpendCoin(c, b, o), b)
           /\ ViewOf(SpendCoin(c, b, o), b) = [ViewOf(c, b) EXCEPT ![o] = Spent]
<1> DEFINE f == FetchCoin(c, b, o)
<1>1. f \in Cache /\ GoodCache(f, b) /\ ViewOf(f, b) = ViewOf(c, b)
  BY FetchCoinGood
<1>2. CASE f[o] = NoEntry
  <2>1. SpendCoin(c, b, o) = f
    BY <1>2 DEF SpendCoin
  <2>2. b[o] = Spent
    <3>1. [coin |-> b[o], dirty |-> FALSE, fresh |-> FALSE] \in Entry
      BY DEF Entry, BaseView
    <3> QED
      BY <1>2, <3>1, NoEntryIsNoEntry DEF FetchCoin, Cache
  <2>3. ViewOf(c, b)[o] = Spent
    BY <1>1, <1>2, <2>2 DEF ViewOf
  <2>4. ViewOf(c, b) = [ViewOf(c, b) EXCEPT ![o] = Spent]
    BY <2>3 DEF ViewOf
  <2> QED
    BY <1>1, <2>1, <2>4
<1>3. CASE f[o] # NoEntry /\ f[o].fresh
  <2>1. SpendCoin(c, b, o) = [f EXCEPT ![o] = NoEntry]
    BY <1>3 DEF SpendCoin
  <2>2. b[o] = Spent
    BY <1>1, <1>3 DEF GoodCache
  <2> HIDE DEF f
  <2>3. [f EXCEPT ![o] = NoEntry] \in Cache /\ GoodCache([f EXCEPT ![o] = NoEntry], b)
    BY <1>1 DEF GoodCache, Cache
  <2>4. ViewOf([f EXCEPT ![o] = NoEntry], b) = [ViewOf(f, b) EXCEPT ![o] = Spent]
    BY <1>1, <2>2 DEF ViewOf, Cache
  <2> QED
    BY <1>1, <2>1, <2>3, <2>4
<1>4. CASE f[o] # NoEntry /\ ~f[o].fresh
  <2> DEFINE e == [coin |-> Spent, dirty |-> TRUE, fresh |-> FALSE]
  <2>1. SpendCoin(c, b, o) = [f EXCEPT ![o] = e]
    BY <1>4 DEF SpendCoin
  <2> HIDE DEF f
  <2>2. e \in Entry
    BY DEF Entry, CoinOrSpent
  <2>3. [f EXCEPT ![o] = e] \in Cache
    BY <1>1, <2>2 DEF Cache
  <2>4. GoodCache([f EXCEPT ![o] = e], b)
    BY <1>1 DEF GoodCache, Cache
  <2>5. ViewOf([f EXCEPT ![o] = e], b) = [ViewOf(f, b) EXCEPT ![o] = Spent]
    BY <1>1, <2>2, NoEntryIsNoEntry DEF ViewOf, Cache
  <2> QED
    BY <1>1, <2>1, <2>3, <2>4, <2>5
<1> QED
  BY <1>2, <1>3, <1>4

\* Adding a coin keeps a cache good and shows exactly that coin, provided the
\* caller tells the truth about overwrites (coins.cpp:66-85).
LEMMA AddCoinGood ==
    ASSUME NEW c \in Cache, NEW b \in BaseView, NEW o \in Outpoint,
           NEW coin \in Coin, NEW overwrite \in BOOLEAN,
           GoodCache(c, b),
           ~overwrite => ViewOf(c, b)[o] = Spent
    PROVE  /\ AddCoin(c, o, coin, overwrite) \in Cache
           /\ GoodCache(AddCoin(c, o, coin, overwrite), b)
           /\ ViewOf(AddCoin(c, o, coin, overwrite), b)
                 = [ViewOf(c, b) EXCEPT ![o] = coin]
           /\ ~AddCoinThrows(c, o, overwrite)
<1> DEFINE e == [coin  |-> coin,
                 dirty |-> TRUE,
                 fresh |-> \/ EntryAt(c, o).fresh
                           \/ ~overwrite /\ ~EntryAt(c, o).dirty]
<1>1. AddCoin(c, o, coin, overwrite) = [c EXCEPT ![o] = e]
  BY DEF AddCoin
<1>2. e \in Entry
  BY DEF Entry, CoinOrSpent
<1>3. e.fresh => b[o] = Spent
  BY NoEntryIsNoEntry, SpentIsNoCoin DEF EntryAt, GoodCache, ViewOf, Cache, Entry
<1>4. e.coin = coin /\ e.dirty /\ coin # Spent
  BY SpentIsNoCoin
<1>5. ~AddCoinThrows(c, o, overwrite)
  BY DEF AddCoinThrows, EntryAt, ViewOf
<1> HIDE DEF e
<1>6. [c EXCEPT ![o] = e] \in Cache
  BY <1>2 DEF Cache
<1>7. GoodCache([c EXCEPT ![o] = e], b)
  BY <1>3, <1>4 DEF GoodCache, Cache
<1>8. ViewOf([c EXCEPT ![o] = e], b) = [ViewOf(c, b) EXCEPT ![o] = coin]
  BY <1>2, <1>4, NoEntryIsNoEntry DEF ViewOf, Cache
<1> QED
  BY <1>1, <1>5, <1>6, <1>7, <1>8

\* Evicting an unmodified entry keeps a cache good and is not visible
\* (coins.cpp:210-217).
LEMMA UncacheGood ==
    ASSUME NEW c \in Cache, NEW b \in BaseView, NEW o \in Outpoint,
           GoodCache(c, b)
    PROVE  /\ Uncache(c, o) \in Cache
           /\ GoodCache(Uncache(c, o), b)
           /\ ViewOf(Uncache(c, o), b) = ViewOf(c, b)
BY DEF Uncache, GoodCache, ViewOf, Cache

\* Merging a good child into a good parent keeps the parent good over its own
\* base, shows what the child showed, and throws nothing (coins.cpp:145-201).
LEMMA BatchWriteGood ==
    ASSUME NEW p \in Cache, NEW c \in Cache, NEW b \in BaseView,
           GoodCache(p, b), GoodCache(c, ViewOf(p, b))
    PROVE  /\ BatchWrite(p, c) \in Cache
           /\ GoodCache(BatchWrite(p, c), b)
           /\ ViewOf(BatchWrite(p, c), b) = ViewOf(c, ViewOf(p, b))
           /\ ~BatchWriteThrows(p, c)
<1> DEFINE m == BatchWrite(p, c)
<1>1. ASSUME NEW o \in Outpoint
      PROVE  /\ m[o] \in Entry \cup {NoEntry}
             /\ m[o] # NoEntry =>
                   /\ ~m[o].dirty => m[o].coin = b[o]
                   /\ m[o].fresh => b[o] = Spent
                   /\ m[o].coin = Spent => m[o].dirty /\ ~m[o].fresh
             /\ ViewOf(m, b)[o] = ViewOf(c, ViewOf(p, b))[o]
  <2>1. CASE ~ToApply(c, o)
    <3>1. m[o] = p[o]
      BY <2>1 DEF BatchWrite
    <3>2. ViewOf(c, ViewOf(p, b))[o] = ViewOf(p, b)[o]
      BY <2>1 DEF ToApply, ViewOf, GoodCache
    <3>3. ViewOf(m, b)[o] = ViewOf(p, b)[o]
      BY <3>1 DEF ViewOf
    <3> QED
      BY <3>1, <3>2, <3>3 DEF GoodCache, Cache
  <2>2. CASE ToApply(c, o)
    <3>1. m[o] = MergeEntry(p[o], c[o])
      BY <2>2 DEF BatchWrite
    <3>2. c[o] \in Entry /\ c[o] # NoEntry /\ c[o].dirty
      BY <2>2 DEF ToApply, Cache
    <3>3. ViewOf(c, ViewOf(p, b))[o] = c[o].coin
      BY <3>2 DEF ViewOf
    <3>4. /\ c[o].fresh => ViewOf(p, b)[o] = Spent
          /\ c[o].coin = Spent => ~c[o].fresh
      BY <3>2 DEF GoodCache
    <3>5. CASE p[o] = NoEntry
      <4>1. m[o] = c[o]
        BY <3>1, <3>4, <3>5 DEF MergeEntry
      <4>2. ViewOf(p, b)[o] = b[o]
        BY <3>5 DEF ViewOf
      <4>3. ViewOf(m, b)[o] = c[o].coin
        BY <4>1, <3>2 DEF ViewOf
      <4> QED
        BY <4>1, <4>2, <4>3, <3>2, <3>3, <3>4
    <3>6. CASE p[o] # NoEntry /\ p[o].fresh /\ c[o].coin = Spent
      <4>1. m[o] = NoEntry
        BY <3>1, <3>6 DEF MergeEntry
      <4>2. b[o] = Spent
        BY <3>6 DEF GoodCache
      <4>3. ViewOf(m, b)[o] = Spent
        BY <4>1, <4>2 DEF ViewOf
      <4> QED
        BY <4>1, <4>3, <3>3, <3>6
    <3>7. CASE p[o] # NoEntry /\ ~(p[o].fresh /\ c[o].coin = Spent)
      <4> DEFINE e == [coin |-> c[o].coin, dirty |-> TRUE, fresh |-> p[o].fresh]
      <4>1. m[o] = e
        BY <3>1, <3>7 DEF MergeEntry
      <4>2. p[o] \in Entry
        BY <3>7 DEF Cache
      <4>3. e \in Entry
        BY <4>2, <3>2 DEF Entry
      <4> HIDE DEF e
      <4>4. e # NoEntry
        BY <4>3, NoEntryIsNoEntry
      <4> USE DEF e
      <4>5. p[o].fresh => b[o] = Spent
        BY <3>7 DEF GoodCache
      <4>6. ViewOf(m, b)[o] = c[o].coin
        BY <4>1, <4>4 DEF ViewOf
      <4> QED
        BY <4>1, <4>3, <4>5, <4>6, <3>3, <3>7
    <3> QED
      BY <3>5, <3>6, <3>7
  <2> QED
    BY <2>1, <2>2
<1>2. m \in Cache
  BY <1>1 DEF BatchWrite, Cache
<1>3. GoodCache(m, b)
  BY <1>1 DEF GoodCache
<1>4. ViewOf(m, b) = ViewOf(c, ViewOf(p, b))
  BY <1>1 DEF ViewOf
<1>5. ~BatchWriteThrows(p, c)
  BY DEF BatchWriteThrows, ToApply, GoodCache, ViewOf
<1> QED
  BY <1>2, <1>3, <1>4, <1>5

\* Writing the DIRTY entries makes the database hold what the cache showed
\* (txdb.cpp:91-150).
LEMMA DbAfterBatchGood ==
    ASSUME NEW c \in Cache, NEW b \in BaseView, GoodCache(c, b)
    PROVE  DbAfterBatch(b, c) = ViewOf(c, b)
BY DEF DbAfterBatch, ViewOf, ToApply, GoodCache

\* An empty cache is good over anything.
LEMMA EmptyCacheGood ==
    ASSUME NEW b \in BaseView
    PROVE  EmptyCache \in Cache /\ GoodCache(EmptyCache, b)
BY DEF EmptyCache, Cache, GoodCache

-----------------------------------------------------------------------------
(* The inductive invariant and the refinement, action by action. *)

\* The initial state of the stack.
LEMMA InitGood ==
    ASSUME Init
    PROVE  IInv /\ Layers!Init
<1>1. db \in BaseView
  BY DEF Init
<1>2. EmptyCache \in Cache /\ GoodCache(EmptyCache, db)
  BY <1>1, EmptyCacheGood
<1>3. TipView = db
  BY <1>1, ViewOfEmpty DEF Init, TipView
<1>4. ScratchView = db
  BY <1>1, <1>3, ViewOfEmpty DEF Init, ScratchView
<1>5. TypeOK
  BY <1>1, <1>2 DEF Init, TypeOK
<1>6. IInv
  BY <1>2, <1>3, <1>5 DEF Init, IInv
<1>7. TipBestBlock = dbBest /\ ViewBestBlock = dbBest
  BY DEF Init, TipBestBlock, ViewBestBlock
<1>8. Layers!Init
  BY <1>1, <1>3, <1>4, <1>7 DEF Init, Layers!Init, Layers!Layer, BaseView
<1> QED
  BY <1>6, <1>8

\* Opening a scratch view changes no layer.
LEMMA OpenViewGood ==
    ASSUME IInv, OpenView
    PROVE  IInv' /\ UNCHANGED Layers!vars
<1>1. TipView' = TipView /\ ScratchView' = ScratchView
  BY DEF OpenView, TipView, ScratchView, ViewOf
<1>2. TypeOK'
  BY DEF IInv, TypeOK, OpenView, TipBestBlock
<1>3. GoodCache(tip, db)' /\ GoodCache(view, TipView)'
  BY <1>1 DEF IInv, OpenView, GoodCache
<1>4. IInv'
  BY <1>2, <1>3 DEF IInv, OpenView
<1>5. TipBestBlock' = TipBestBlock /\ ViewBestBlock' = ViewBestBlock
  BY DEF OpenView, IInv, TipBestBlock, ViewBestBlock
<1>6. UNCHANGED Layers!vars
  BY <1>1, <1>5 DEF OpenView, Layers!vars
<1> QED
  BY <1>4, <1>6

\* What every action that works through the scratch view does to pcoinsTip:
\* at most a fetch, which no one sees.
LEMMA FetchIntoTipGood ==
    ASSUME IInv, NEW o \in Outpoint, FetchIntoTip(o), UNCHANGED db
    PROVE  tip' \in Cache /\ GoodCache(tip, db)' /\ TipView' = TipView
<1>1. tip \in Cache /\ db \in BaseView /\ GoodCache(tip, db)
  BY DEF IInv, TypeOK
<1>2. CASE view[o] = NoEntry
  <2>1. tip' = FetchCoin(tip, db, o)
    BY <1>2 DEF FetchIntoTip
  <2>2. tip' \in Cache /\ GoodCache(tip', db) /\ ViewOf(tip', db) = ViewOf(tip, db)
    BY <1>1, <2>1, FetchCoinGood
  <2> QED
    BY <2>2 DEF TipView, GoodCache
<1>3. CASE view[o] # NoEntry
  BY <1>1, <1>3 DEF FetchIntoTip, TipView, GoodCache
<1> QED
  BY <1>2, <1>3

\* Reading through the scratch view changes no layer.
LEMMA ViewFetchGood ==
    ASSUME IInv, NEW o \in Outpoint, ViewFetch(o)
    PROVE  IInv' /\ UNCHANGED Layers!vars
<1>1. tip' \in Cache /\ GoodCache(tip, db)' /\ TipView' = TipView
  BY FetchIntoTipGood DEF ViewFetch
<1>2. view \in Cache /\ TipView \in BaseView /\ GoodCache(view, TipView)
  BY ViewOfType DEF IInv, TypeOK, TipView
<1>3. /\ view' \in Cache
      /\ GoodCache(view', TipView)
      /\ ViewOf(view', TipView) = ViewOf(view, TipView)
  BY <1>2, FetchCoinGood DEF ViewFetch
<1>4. ScratchView' = ScratchView
  BY <1>1, <1>3 DEF ScratchView
<1>5. GoodCache(view, TipView)'
  BY <1>1, <1>3 DEF GoodCache
<1>6. IInv'
  BY <1>1, <1>3, <1>5 DEF IInv, TypeOK, ViewFetch
<1>7. TipBestBlock' = TipBestBlock /\ ViewBestBlock' = ViewBestBlock
  BY DEF ViewFetch, TipBestBlock, ViewBestBlock
<1>8. UNCHANGED Layers!vars
  BY <1>1, <1>4, <1>7 DEF ViewFetch, Layers!vars
<1> QED
  BY <1>6, <1>8

\* Spending through the scratch view writes Spent in the top layer.
LEMMA ViewSpendGood ==
    ASSUME IInv, NEW o \in Outpoint, ViewSpend(o)
    PROVE  IInv' /\ Layers!Write(o, Spent)
<1>1. tip' \in Cache /\ GoodCache(tip, db)' /\ TipView' = TipView
  BY FetchIntoTipGood DEF ViewSpend
<1>2. view \in Cache /\ TipView \in BaseView /\ GoodCache(view, TipView)
  BY ViewOfType DEF IInv, TypeOK, TipView
<1>3. /\ view' \in Cache
      /\ GoodCache(view', TipView)
      /\ ViewOf(view', TipView) = [ViewOf(view, TipView) EXCEPT ![o] = Spent]
  BY <1>2, SpendCoinGood DEF ViewSpend
<1>4. ScratchView' = [ScratchView EXCEPT ![o] = Spent]
  BY <1>1, <1>3 DEF ScratchView
<1>5. GoodCache(view, TipView)'
  BY <1>1, <1>3 DEF GoodCache
<1>6. IInv'
  BY <1>1, <1>3, <1>5 DEF IInv, TypeOK, ViewSpend
<1>7. TipBestBlock' = TipBestBlock /\ ViewBestBlock' = ViewBestBlock
  BY DEF ViewSpend, TipBestBlock, ViewBestBlock
<1>8. Layers!Write(o, Spent)
  BY <1>1, <1>4, <1>7 DEF ViewSpend, Layers!Write
<1> QED
  BY <1>6, <1>8

\* Adding through the scratch view writes the coin in the top layer and never
\* throws.
LEMMA ViewAddGood ==
    ASSUME IInv, NEW o \in Outpoint, NEW c \in Coin, NEW overwrite \in BOOLEAN,
           ViewAdd(o, c, overwrite)
    PROVE  IInv' /\ Layers!Write(o, c)
<1>1. TipView' = TipView
  BY DEF ViewAdd, TipView, ViewOf
<1>2. view \in Cache /\ TipView \in BaseView /\ GoodCache(view, TipView)
  BY ViewOfType DEF IInv, TypeOK, TipView
<1>3. ~overwrite => ViewOf(view, TipView)[o] = Spent
  BY DEF ViewAdd, ScratchView
<1>4. /\ view' \in Cache
      /\ GoodCache(view', TipView)
      /\ ViewOf(view', TipView) = [ViewOf(view, TipView) EXCEPT ![o] = c]
      /\ ~AddCoinThrows(view, o, overwrite)
  BY <1>2, <1>3, AddCoinGood DEF ViewAdd
<1>5. ScratchView' = [ScratchView EXCEPT ![o] = c]
  BY <1>1, <1>4 DEF ScratchView
<1>6. GoodCache(view, TipView)' /\ GoodCache(tip, db)'
  BY <1>1, <1>4 DEF GoodCache, IInv, ViewAdd
<1>7. ~thrown'
  BY <1>4 DEF ViewAdd, IInv
<1>8. TypeOK'
  BY <1>4, <1>7 DEF IInv, TypeOK, ViewAdd
<1>9. IInv'
  BY <1>6, <1>7, <1>8 DEF IInv, ViewAdd
<1>10. TipBestBlock' = TipBestBlock /\ ViewBestBlock' = ViewBestBlock
  BY DEF ViewAdd, TipBestBlock, ViewBestBlock
<1>11. Layers!Write(o, c)
  BY <1>1, <1>5, <1>10 DEF ViewAdd, Layers!Write
<1> QED
  BY <1>9, <1>11

\* SetBestBlock names the block of the top layer.
LEMMA ViewSetBestBlockGood ==
    ASSUME IInv, NEW b \in Block, ViewSetBestBlock(b)
    PROVE  IInv' /\ Layers!SetBest(b)
<1>1. TipView' = TipView /\ ScratchView' = ScratchView
  BY DEF ViewSetBestBlock, TipView, ScratchView, ViewOf
<1>2. GoodCache(tip, db)' /\ GoodCache(view, TipView)'
  BY <1>1 DEF IInv, ViewSetBestBlock, GoodCache
<1>3. IInv'
  BY <1>2 DEF IInv, TypeOK, ViewSetBestBlock
<1>4. TipBestBlock' = TipBestBlock /\ ViewBestBlock' = b
  BY NullIsNoBlock DEF ViewSetBestBlock, TipBestBlock, ViewBestBlock
<1>5. Layers!SetBest(b)
  BY <1>1, <1>4 DEF ViewSetBestBlock, Layers!SetBest
<1> QED
  BY <1>3, <1>5

\* Flushing the scratch view publishes the top layer whole and never throws.
LEMMA ViewFlushGood ==
    ASSUME IInv, ViewFlush
    PROVE  IInv' /\ Layers!Publish
<1>1. /\ tip \in Cache /\ view \in Cache /\ db \in BaseView
      /\ GoodCache(tip, db) /\ GoodCache(view, ViewOf(tip, db))
  BY DEF IInv, TypeOK, TipView
<1>2. /\ tip' \in Cache
      /\ GoodCache(tip', db)
      /\ ViewOf(tip', db) = ScratchView
      /\ ~BatchWriteThrows(tip, view)
  BY <1>1, BatchWriteGood DEF ViewFlush, ScratchView, TipView
<1>3. TipView' = ScratchView /\ TipView' \in BaseView
  BY <1>1, <1>2, ViewOfType DEF TipView, ViewFlush
<1>4. ScratchView' = ScratchView
  BY <1>3, ViewOfEmpty DEF ViewFlush, ScratchView
<1>5. GoodCache(tip, db)'
  BY <1>2 DEF ViewFlush, GoodCache
<1>6. EmptyCache \in Cache /\ GoodCache(view, TipView)'
  BY <1>3, EmptyCacheGood DEF ViewFlush, GoodCache
<1>7. ~thrown'
  BY <1>2 DEF ViewFlush, IInv
<1>8. TypeOK'
  BY <1>2, <1>6, <1>7 DEF IInv, TypeOK, ViewFlush
<1>9. IInv'
  BY <1>5, <1>6, <1>7, <1>8 DEF IInv, ViewFlush
<1>10. viewHash # Null
  BY NullIsNoBlock DEF ViewFlush, IInv
<1>11. TipBestBlock' = ViewBestBlock /\ ViewBestBlock' = ViewBestBlock
  BY <1>10 DEF ViewFlush, TipBestBlock, ViewBestBlock
<1>12. Layers!Publish
  BY <1>3, <1>4, <1>11 DEF ViewFlush, Layers!Publish
<1> QED
  BY <1>9, <1>12

\* Dropping the scratch view discards the top layer whole.
LEMMA ViewDropGood ==
    ASSUME IInv, ViewDrop
    PROVE  IInv' /\ Layers!Discard
<1>1. TipView' = TipView /\ TipView \in BaseView
  BY ViewOfType DEF ViewDrop, TipView, ViewOf, IInv, TypeOK
<1>2. ScratchView' = TipView
  BY <1>1, ViewOfEmpty DEF ViewDrop, ScratchView
<1>3. EmptyCache \in Cache /\ GoodCache(view, TipView)'
  BY <1>1, EmptyCacheGood DEF ViewDrop, GoodCache
<1>4. GoodCache(tip, db)'
  BY DEF IInv, ViewDrop, GoodCache
<1>5. IInv'
  BY <1>3, <1>4 DEF IInv, TypeOK, ViewDrop
<1>6. TipBestBlock' = TipBestBlock /\ ViewBestBlock' = TipBestBlock
  BY DEF ViewDrop, TipBestBlock, ViewBestBlock
<1>7. Layers!Discard
  BY <1>1, <1>2, <1>6 DEF ViewDrop, Layers!Discard
<1> QED
  BY <1>5, <1>7

\* A step that only changes pcoinsTip, with no scratch view open, and keeps
\* what it shows is invisible.
LEMMA TipStepGood ==
    ASSUME IInv, phase = "closed", tip' \in Cache, GoodCache(tip', db),
           ViewOf(tip', db) = ViewOf(tip, db),
           UNCHANGED <<db, dbBest, tipHash, view, viewHash, phase, thrown>>
    PROVE  IInv' /\ UNCHANGED Layers!vars
<1>1. TipView' = TipView
  BY DEF TipView
<1>2. ScratchView' = ScratchView
  BY <1>1 DEF ScratchView
<1>3. GoodCache(tip, db)' /\ GoodCache(view, TipView)'
  BY <1>1 DEF IInv, GoodCache
<1>4. IInv'
  BY <1>3 DEF IInv, TypeOK
<1>5. UNCHANGED Layers!vars
  BY <1>1, <1>2 DEF Layers!vars, TipBestBlock, ViewBestBlock
<1> QED
  BY <1>4, <1>5

\* Looking a coin up in pcoinsTip changes no layer.
LEMMA TipFetchGood ==
    ASSUME IInv, NEW o \in Outpoint, TipFetch(o)
    PROVE  IInv' /\ UNCHANGED Layers!vars
BY FetchCoinGood, TipStepGood DEF IInv, TypeOK, TipFetch

\* Evicting a coin from pcoinsTip changes no layer.
LEMMA TipUncacheGood ==
    ASSUME IInv, NEW o \in Outpoint, TipUncache(o)
    PROVE  IInv' /\ UNCHANGED Layers!vars
BY UncacheGood, TipStepGood DEF IInv, TypeOK, TipUncache

\* Flushing pcoinsTip persists the middle layer whole.
LEMMA TipFlushGood ==
    ASSUME IInv, TipFlush
    PROVE  IInv' /\ Layers!Persist
<1>1. /\ tip \in Cache /\ db \in BaseView /\ GoodCache(tip, db)
      /\ TipView \in BaseView
      /\ view = EmptyCache /\ viewHash = Null
  BY ViewOfType DEF IInv, TypeOK, TipFlush, TipView
<1>2. db' = TipView
  BY <1>1, DbAfterBatchGood DEF TipFlush, TipView
<1>3. TipView' = TipView
  BY <1>1, <1>2, ViewOfEmpty DEF TipFlush, TipView
<1>4. ScratchView = TipView /\ ScratchView' = TipView
  BY <1>1, <1>3, ViewOfEmpty DEF TipFlush, ScratchView
<1>5. EmptyCache \in Cache /\ GoodCache(tip, db)' /\ GoodCache(view, TipView)'
  BY <1>1, <1>2, <1>3, EmptyCacheGood DEF TipFlush, GoodCache
<1>6. IInv'
  BY <1>1, <1>2, <1>5 DEF IInv, TypeOK, TipFlush, TipBestBlock
<1>7. /\ ViewBestBlock = TipBestBlock
      /\ TipBestBlock' = TipBestBlock
      /\ ViewBestBlock' = TipBestBlock
  BY <1>1 DEF TipFlush, TipBestBlock, ViewBestBlock
<1>8. Layers!Persist
  BY <1>2, <1>3, <1>4, <1>7 DEF TipFlush, Layers!Persist
<1> QED
  BY <1>6, <1>8

\* A stuttering step.
LEMMA StutterGood ==
    ASSUME IInv, UNCHANGED vars
    PROVE  IInv' /\ UNCHANGED Layers!vars
BY DEF vars, IInv, TypeOK, GoodCache, TipView, ScratchView, ViewOf,
       TipBestBlock, ViewBestBlock, Layers!vars

\* Every step keeps the invariant and is a step of UtxoLayers.
LEMMA StepGood ==
    ASSUME IInv, [Next]_vars
    PROVE  IInv' /\ [Layers!Next]_(Layers!vars)
<1>1. CASE OpenView
  BY <1>1, OpenViewGood
<1>2. ASSUME NEW o \in Outpoint, ViewFetch(o)
      PROVE  IInv' /\ [Layers!Next]_(Layers!vars)
  BY <1>2, ViewFetchGood
<1>3. ASSUME NEW o \in Outpoint, ViewSpend(o)
      PROVE  IInv' /\ [Layers!Next]_(Layers!vars)
  <2>1. Spent \in CoinOrSpent
    BY DEF CoinOrSpent
  <2> QED
    BY <1>3, <2>1, ViewSpendGood DEF Layers!Next
<1>4. ASSUME NEW o \in Outpoint, NEW c \in Coin, NEW overwrite \in BOOLEAN,
             ViewAdd(o, c, overwrite)
      PROVE  IInv' /\ [Layers!Next]_(Layers!vars)
  <2>1. c \in CoinOrSpent
    BY DEF CoinOrSpent
  <2> QED
    BY <1>4, <2>1, ViewAddGood DEF Layers!Next
<1>5. ASSUME NEW b \in Block, ViewSetBestBlock(b)
      PROVE  IInv' /\ [Layers!Next]_(Layers!vars)
  BY <1>5, ViewSetBestBlockGood DEF Layers!Next
<1>6. CASE ViewFlush
  BY <1>6, ViewFlushGood DEF Layers!Next
<1>7. CASE ViewDrop
  BY <1>7, ViewDropGood DEF Layers!Next
<1>8. ASSUME NEW o \in Outpoint, TipFetch(o)
      PROVE  IInv' /\ [Layers!Next]_(Layers!vars)
  BY <1>8, TipFetchGood
<1>9. ASSUME NEW o \in Outpoint, TipUncache(o)
      PROVE  IInv' /\ [Layers!Next]_(Layers!vars)
  BY <1>9, TipUncacheGood
<1>10. CASE TipFlush
  BY <1>10, TipFlushGood DEF Layers!Next
<1>11. CASE UNCHANGED vars
  BY <1>11, StutterGood
<1> QED
  BY <1>1, <1>2, <1>3, <1>4, <1>5, <1>6, <1>7, <1>8, <1>9, <1>10, <1>11 DEF Next

-----------------------------------------------------------------------------
\* The inductive invariant holds in every behaviour of the stack.
THEOREM Invariance == Spec => []IInv
<1>1. Init => IInv
  BY InitGood
<1>2. IInv /\ [Next]_vars => IInv'
  BY StepGood
<1> QED
  BY <1>1, <1>2, PTL DEF Spec

\* The variables keep their types, whatever the outpoints, coins and blocks.
THEOREM TypeCorrect == Spec => []TypeOK
<1>1. IInv => TypeOK
  BY DEF IInv
<1> QED
  BY <1>1, Invariance, PTL

\* DIRTY and FRESH always mean what coins.h:112-113 says they mean, in both
\* caches of the stack.
THEOREM FlagsAlwaysSound == Spec => []FlagsSound
<1>1. IInv => FlagsSound
  BY DEF IInv, FlagsSound, GoodCache, FlagsMeanWhatTheySay
<1> QED
  BY <1>1, Invariance, PTL

\* Pruned entries are always DIRTY and never FRESH (coins.cpp:105-110).
THEOREM PrunedAlwaysNeedsFlush == Spec => []PrunedNeedsFlush
<1>1. IInv => PrunedNeedsFlush
  BY DEF IInv, PrunedNeedsFlush, GoodCache
<1> QED
  BY <1>1, Invariance, PTL

\* The logic errors of coins.cpp:78 and coins.cpp:175 are never thrown.
THEOREM NeverLogicError == Spec => []NoLogicError
<1>1. IInv => NoLogicError
  BY DEF IInv, NoLogicError
<1> QED
  BY <1>1, Invariance, PTL

\* The stack of caches implements three plain coin sets: a block's changes
\* become visible whole or not at all, and the caches are invisible.
THEOREM Refinement == Spec => ImplementsLayers
<1>1. Init => Layers!Init
  BY InitGood
<1>2. IInv /\ [Next]_vars => [Layers!Next]_(Layers!vars)
  BY StepGood
<1> QED
  BY <1>1, <1>2, Invariance, PTL DEF Spec, ImplementsLayers, Layers!Spec

=============================================================================
