---------------------------- MODULE ReplayProof ----------------------------
(***************************************************************************)
(* What the operations of ChainRecovery on coins do, for every tree of     *)
(* valid blocks: a cache over a base, ConnectBlock, DisconnectBlock and    *)
(* RollforwardBlock on the coins of a block or on a mixture of the coins   *)
(* of two blocks, and ReplayBlocks from one head to the other.             *)
(***************************************************************************)
EXTENDS ChainRecovery, BlockTreeProof

\* What the flags of an entry mean: without DIRTY the base has the same coin,
\* and FRESH says that the base has none.
Sound(cache, base) ==
    \A o \in Outpoint : cache[o] # NoEntry =>
        /\ ~cache[o].dirty => cache[o].coin = base[o]
        /\ cache[o].fresh => cache[o].dirty /\ base[o] = Spent

\* The undo data of a valid block: the coin that each input spends.
UndoOf(b) ==
    [o \in Outpoint |-> CASE o \in BlockIns(b) \cap BlockOuts(b) -> Height[b]
                          [] o \in BlockIns(b) \ BlockOuts(b) -> Utxo[Parent[b]][o]
                          [] OTHER -> Spent]

\* The coins of a or those of b, coin by coin.
Between(coins, a, b) == \A o \in Outpoint : coins[o] \in {Utxo[a][o], Utxo[b][o]}

\* What the replay has left to do is a path from `at` down to the fork and up
\* to the block `to`.
At(back, forward, to) ==
    IF back # <<>> THEN back[1] ELSE IF forward # <<>> THEN Parent[forward[1]] ELSE to

PathOK(back, forward, to) ==
    /\ \A i \in 1..Len(back) : back[i] # Genesis
    /\ \A i \in 1..Len(back) : Parent[back[i]] = IF i < Len(back) THEN back[i + 1]
                                                ELSE At(<<>>, forward, to)
    /\ \A i \in 1..Len(forward) : forward[i] # Genesis
    /\ \A i \in 1..Len(forward) : forward[i] = IF i < Len(forward) THEN Parent[forward[i + 1]]
                                              ELSE to

-----------------------------------------------------------------------------
(* Caches.                                                                 *)

\* What a cache shows is a view, coin by coin.
LEMMA ViewOfIs ==
    ASSUME NEW cache \in Cache, NEW base \in BaseView
    PROVE  /\ ViewOf(cache, base) \in BaseView
           /\ \A o \in Outpoint : ViewOf(cache, base)[o] = IF cache[o] = NoEntry THEN base[o]
                                                           ELSE cache[o].coin
BY DEF ViewOf, Cache, BaseView, Entry

\* Two views with the same coins are the same.
LEMMA SameView ==
    ASSUME NEW u \in BaseView, NEW v \in BaseView, \A o \in Outpoint : u[o] = v[o]
    PROVE  u = v
BY DEF BaseView

\* The empty cache shows its base.
LEMMA EmptyCacheIs ==
    ASSUME NEW base \in BaseView
    PROVE  EmptyCache \in Cache /\ Sound(EmptyCache, base) /\ ViewOf(EmptyCache, base) = base
<1>1. EmptyCache \in Cache
  BY DEF EmptyCache, Cache
<1>2. Sound(EmptyCache, base)
  BY DEF EmptyCache, Sound
<1>3. \A o \in Outpoint : ViewOf(EmptyCache, base)[o] = base[o]
  BY <1>1, ViewOfIs DEF EmptyCache
<1> QED
  BY <1>1, <1>2, <1>3, ViewOfIs, SameView

\* A coin with its two flags is an entry.
LEMMA EntryIs ==
    ASSUME NEW c \in CoinOrSpent, NEW d \in BOOLEAN, NEW f \in BOOLEAN
    PROVE  /\ [coin |-> c, dirty |-> d, fresh |-> f] \in Entry
           /\ [coin |-> c, dirty |-> d, fresh |-> f] # NoEntry
<1>1. [coin |-> c, dirty |-> d, fresh |-> f] \in Entry
  BY DEF Entry
<1> QED
  BY <1>1, NoEntryIsNoEntry

\* SpendCoin (coins.cpp:98-112) removes the coin and keeps the flags true.
LEMMA SpendAllIs ==
    ASSUME NEW cache \in Cache, NEW base \in BaseView, Sound(cache, base), NEW S
    PROVE  /\ SpendAll(cache, base, S) \in Cache
           /\ Sound(SpendAll(cache, base, S), base)
           /\ \A o \in Outpoint : ViewOf(SpendAll(cache, base, S), base)[o] =
                  IF o \in S THEN Spent ELSE ViewOf(cache, base)[o]
<1> DEFINE r == SpendAll(cache, base, S)
<1>1. ASSUME NEW o \in Outpoint, o \in S
      PROVE  /\ r[o] \in Entry \cup {NoEntry}
             /\ r[o] # NoEntry => r[o].dirty /\ ~r[o].fresh /\ r[o].coin = Spent
             /\ r[o] = NoEntry => base[o] = Spent
  <2>1. r[o] = SpendCoin(cache, base, o)[o]
    BY <1>1 DEF SpendAll
  <2> HIDE DEF r
  <2>2. LET e == [coin |-> Spent, dirty |-> TRUE, fresh |-> FALSE]
        IN  e \in Entry /\ e # NoEntry
    BY Zenon, EntryIs DEF CoinOrSpent
  <2>3. CASE cache[o] = NoEntry /\ base[o] = Spent
    BY <2>1, <2>3 DEF SpendCoin, FetchCoin
  <2>4. CASE cache[o] = NoEntry /\ base[o] # Spent
    <3> DEFINE e == [coin |-> base[o], dirty |-> FALSE, fresh |-> FALSE]
               c == [cache EXCEPT ![o] = e]
    <3>1. FetchCoin(cache, base, o) = c
      BY <2>4 DEF FetchCoin
    <3>2. e \in Entry /\ e # NoEntry /\ ~e.fresh
      BY Zenon, EntryIs DEF BaseView
    <3> HIDE DEF e
    <3>3. c[o] = e /\ c \in Cache
      BY <3>2 DEF Cache
    <3>4. SpendCoin(cache, base, o) = [c EXCEPT ![o] = [coin |-> Spent, dirty |-> TRUE, fresh |-> FALSE]]
      BY <3>1, <3>2, <3>3 DEF SpendCoin
    <3>5. r[o] = [coin |-> Spent, dirty |-> TRUE, fresh |-> FALSE]
      BY <2>1, <3>4, <3>3 DEF Cache
    <3> QED
      BY <3>5, <2>2
  <2>5. CASE cache[o] # NoEntry
    <3>1. FetchCoin(cache, base, o) = cache
      BY <2>5 DEF FetchCoin
    <3>2. CASE cache[o].fresh
      <4>1. r[o] = NoEntry
        BY <2>1, <2>5, <3>1, <3>2 DEF SpendCoin, Cache
      <4> QED
        BY <4>1, <2>5, <3>2 DEF Sound
    <3>3. CASE ~cache[o].fresh
      <4>1. r[o] = [coin |-> Spent, dirty |-> TRUE, fresh |-> FALSE]
        BY <2>1, <2>5, <3>1, <3>3 DEF SpendCoin, Cache
      <4> QED
        BY <4>1, <2>2
    <3> QED
      BY <3>2, <3>3
  <2> QED
    BY <2>3, <2>4, <2>5
<1>2. \A o \in Outpoint : o \notin S => r[o] = cache[o]
  BY DEF SpendAll
<1>3. r \in Cache
  <2>1. \A o \in Outpoint : r[o] \in Entry \cup {NoEntry}
    BY <1>1, <1>2 DEF Cache
  <2>2. r = [o \in Outpoint |-> r[o]]
    BY DEF SpendAll
  <2> QED
    BY <2>1, <2>2 DEF Cache
<1>4. Sound(r, base)
  BY <1>1, <1>2 DEF Sound
<1>5. \A o \in Outpoint : ViewOf(r, base)[o] = IF o \in S THEN Spent ELSE ViewOf(cache, base)[o]
  BY <1>1, <1>2, <1>3, ViewOfIs
<1> QED
  BY <1>3, <1>4, <1>5

\* FetchCoin (coins.cpp:40-55) changes neither what is seen nor what the flags
\* say.
LEMMA FetchCoinIs ==
    ASSUME NEW cache \in Cache, NEW base \in BaseView, Sound(cache, base), NEW o \in Outpoint
    PROVE  /\ FetchCoin(cache, base, o) \in Cache
           /\ Sound(FetchCoin(cache, base, o), base)
           /\ ViewOf(FetchCoin(cache, base, o), base) = ViewOf(cache, base)
<1> DEFINE e == [coin |-> base[o], dirty |-> FALSE, fresh |-> FALSE]
<1>1. CASE ~(cache[o] = NoEntry /\ base[o] # Spent)
  BY <1>1 DEF FetchCoin
<1>2. CASE cache[o] = NoEntry /\ base[o] # Spent
  <2>1. FetchCoin(cache, base, o) = [cache EXCEPT ![o] = e]
    BY <1>2 DEF FetchCoin
  <2>2. e \in Entry /\ e # NoEntry /\ ~e.fresh /\ e.coin = base[o]
    BY Zenon, EntryIs DEF BaseView
  <2> HIDE DEF e
  <2> DEFINE c == [cache EXCEPT ![o] = e]
  <2>3. c \in Cache /\ c[o] = e /\ \A p \in Outpoint \ {o} : c[p] = cache[p]
    BY <2>2 DEF Cache
  <2> HIDE DEF c
  <2>4. Sound(c, base)
    BY <2>2, <2>3 DEF Sound
  <2>5. \A p \in Outpoint : ViewOf(c, base)[p] = ViewOf(cache, base)[p]
    BY <2>2, <2>3, <1>2, ViewOfIs
  <2>6. ViewOf(c, base) = ViewOf(cache, base)
    BY <2>3, <2>5, ViewOfIs, SameView
  <2> QED
    BY <2>1, <2>3, <2>4, <2>6 DEF c
<1> QED
  BY <1>1, <1>2

\* The entry that AddCoin (coins.cpp:66-85) leaves.
LEMMA AddCoinIs ==
    ASSUME NEW cache \in Cache, NEW base \in BaseView, Sound(cache, base), NEW o \in Outpoint,
           NEW coin \in CoinOrSpent, NEW overwrite \in BOOLEAN,
           overwrite \/ base[o] = Spent \/ ViewOf(cache, base)[o] = Spent
    PROVE  LET e == AddCoin(cache, o, coin, overwrite)[o]
           IN  /\ e \in Entry /\ e # NoEntry
               /\ e.coin = coin /\ e.dirty
               /\ e.fresh => base[o] = Spent
<1> DEFINE fresh == EntryAt(cache, o).fresh \/ (~overwrite /\ ~EntryAt(cache, o).dirty)
           e == [coin |-> coin, dirty |-> TRUE, fresh |-> fresh]
<1>1. AddCoin(cache, o, coin, overwrite)[o] = e
  BY Zenon DEF AddCoin, Cache
<1>2. fresh \in BOOLEAN
  OBVIOUS
<1>3. fresh => base[o] = Spent
  <2>1. CASE cache[o] = NoEntry
    <3>1. EntryAt(cache, o) = [coin |-> Spent, dirty |-> FALSE, fresh |-> FALSE]
      BY <2>1 DEF EntryAt
    <3>2. ViewOf(cache, base)[o] = base[o]
      BY <2>1, ViewOfIs
    <3> QED
      BY <3>1, <3>2
  <2>2. CASE cache[o] # NoEntry
    <3>1. EntryAt(cache, o) = cache[o]
      BY <2>2 DEF EntryAt
    <3>2. ViewOf(cache, base)[o] = cache[o].coin
      BY <2>2, ViewOfIs
    <3>3. /\ ~cache[o].dirty => cache[o].coin = base[o]
          /\ cache[o].fresh => base[o] = Spent
      BY <2>2 DEF Sound
    <3> QED
      BY <3>1, <3>2, <3>3
  <2> QED
    BY <2>1, <2>2
<1> HIDE DEF fresh
<1>4. e \in Entry /\ e # NoEntry
  BY Zenon, <1>2, EntryIs
<1> QED
  BY <1>1, <1>3, <1>4

\* Entries replaced on the outpoints of S, each by a DIRTY one.
LEMMA ReplacedIs ==
    ASSUME NEW cache \in Cache, NEW base \in BaseView, Sound(cache, base), NEW S,
           NEW coin \in BaseView, NEW r,
           r = [o \in Outpoint |-> r[o]],
           \A o \in Outpoint : o \notin S => r[o] = cache[o],
           \A o \in Outpoint : o \in S => /\ r[o] \in Entry /\ r[o] # NoEntry
                                          /\ r[o].coin = coin[o] /\ r[o].dirty
                                          /\ r[o].fresh => base[o] = Spent
    PROVE  /\ r \in Cache
           /\ Sound(r, base)
           /\ \A o \in Outpoint : ViewOf(r, base)[o] = IF o \in S THEN coin[o]
                                                       ELSE ViewOf(cache, base)[o]
<1>1. r \in Cache
  <2>1. \A o \in Outpoint : r[o] \in Entry \cup {NoEntry}
    BY DEF Cache
  <2> QED
    BY <2>1 DEF Cache
<1>2. Sound(r, base)
  BY DEF Sound
<1>3. \A o \in Outpoint : ViewOf(r, base)[o] = IF o \in S THEN coin[o] ELSE ViewOf(cache, base)[o]
  BY <1>1, ViewOfIs
<1> QED
  BY <1>1, <1>2, <1>3

\* AddCoins in ConnectBlock: the outputs appear, where the base has no coin.
LEMMA AddCoinsIs ==
    ASSUME NEW cache \in Cache, NEW base \in BaseView, Sound(cache, base),
           NEW tx \in Transaction, NEW h \in CoinOrSpent,
           \A o \in tx.outs : base[o] = Spent
    PROVE  /\ AddCoins(cache, tx, h) \in Cache
           /\ Sound(AddCoins(cache, tx, h), base)
           /\ \A o \in Outpoint : ViewOf(AddCoins(cache, tx, h), base)[o] =
                  IF o \in tx.outs THEN h ELSE ViewOf(cache, base)[o]
<1> DEFINE r == AddCoins(cache, tx, h)
           S == tx.outs
           coin == [o \in Outpoint |-> h]
<1>1. coin \in BaseView /\ \A o \in Outpoint : coin[o] = h
  BY DEF BaseView
<1>2. r = [o \in Outpoint |-> r[o]]
  BY DEF AddCoins
<1>3. \A o \in Outpoint : o \notin S => r[o] = cache[o]
  BY DEF AddCoins
<1>4. ASSUME NEW o \in Outpoint, o \in S
      PROVE  /\ r[o] \in Entry /\ r[o] # NoEntry
             /\ r[o].coin = coin[o] /\ r[o].dirty
             /\ r[o].fresh => base[o] = Spent
  <2>1. r[o] = AddCoin(cache, o, h, tx.coinbase)[o]
    BY <1>4 DEF AddCoins
  <2>2. tx.coinbase \in BOOLEAN /\ base[o] = Spent
    BY <1>4 DEF Transaction
  <2> HIDE DEF r, coin
  <2> QED
    BY <1>1, <2>1, <2>2, AddCoinIs
<1> HIDE DEF r, S, coin
<1>5. /\ r \in Cache
      /\ Sound(r, base)
      /\ \A o \in Outpoint : ViewOf(r, base)[o] = IF o \in S THEN coin[o] ELSE ViewOf(cache, base)[o]
  BY <1>1, <1>2, <1>3, <1>4, ReplacedIs
<1> QED
  BY <1>1, <1>5 DEF r, S

\* AddCoins in RollforwardBlock: the outputs appear, whatever was there.
LEMMA AddCoinsCheckedIs ==
    ASSUME NEW cache \in Cache, NEW base \in BaseView, Sound(cache, base),
           NEW tx \in Transaction, NEW h \in CoinOrSpent
    PROVE  /\ AddCoinsChecked(cache, base, tx, h) \in Cache
           /\ Sound(AddCoinsChecked(cache, base, tx, h), base)
           /\ \A o \in Outpoint : ViewOf(AddCoinsChecked(cache, base, tx, h), base)[o] =
                  IF o \in tx.outs THEN h ELSE ViewOf(cache, base)[o]
<1> DEFINE r == AddCoinsChecked(cache, base, tx, h)
           S == tx.outs
           coin == [o \in Outpoint |-> h]
<1>1. coin \in BaseView /\ \A o \in Outpoint : coin[o] = h
  BY DEF BaseView
<1>2. r = [o \in Outpoint |-> r[o]]
  BY DEF AddCoinsChecked
<1>3. \A o \in Outpoint : o \notin S => r[o] = cache[o]
  BY DEF AddCoinsChecked
<1>4. ASSUME NEW o \in Outpoint, o \in S
      PROVE  /\ r[o] \in Entry /\ r[o] # NoEntry
             /\ r[o].coin = coin[o] /\ r[o].dirty
             /\ r[o].fresh => base[o] = Spent
  <2> DEFINE c == FetchCoin(cache, base, o)
             overwrite == ViewOf(cache, base)[o] # Spent
  <2>1. r[o] = AddCoin(c, o, h, overwrite)[o]
    BY <1>4 DEF AddCoinsChecked
  <2>2. c \in Cache /\ Sound(c, base) /\ ViewOf(c, base) = ViewOf(cache, base)
    BY FetchCoinIs
  <2>3. overwrite \in BOOLEAN /\ (overwrite \/ ViewOf(c, base)[o] = Spent)
    BY <2>2
  <2> HIDE DEF r, coin, c, overwrite
  <2> QED
    BY <1>1, <2>1, <2>2, <2>3, AddCoinIs
<1> HIDE DEF r, S, coin
<1>5. /\ r \in Cache
      /\ Sound(r, base)
      /\ \A o \in Outpoint : ViewOf(r, base)[o] = IF o \in S THEN coin[o] ELSE ViewOf(cache, base)[o]
  BY <1>1, <1>2, <1>3, <1>4, ReplacedIs
<1> QED
  BY <1>1, <1>5 DEF r, S

\* ApplyTxInUndo of the inputs in DisconnectBlock: the undo coins appear.
RestoreAll(cache, base, S, undo) ==
    [o \in Outpoint |-> IF o \in S
                        THEN AddCoin(FetchCoin(cache, base, o), o, undo[o],
                                     ViewOf(cache, base)[o] # Spent)[o]
                        ELSE cache[o]]

\* The inputs come back with the coins of the undo data, whatever was there.
LEMMA RestoreAllIs ==
    ASSUME NEW cache \in Cache, NEW base \in BaseView, Sound(cache, base), NEW S,
           NEW undo \in BaseView
    PROVE  /\ RestoreAll(cache, base, S, undo) \in Cache
           /\ Sound(RestoreAll(cache, base, S, undo), base)
           /\ \A o \in Outpoint : ViewOf(RestoreAll(cache, base, S, undo), base)[o] =
                  IF o \in S THEN undo[o] ELSE ViewOf(cache, base)[o]
<1> DEFINE r == RestoreAll(cache, base, S, undo)
<1>1. r = [o \in Outpoint |-> r[o]]
  BY DEF RestoreAll
<1>2. \A o \in Outpoint : o \notin S => r[o] = cache[o]
  BY DEF RestoreAll
<1>3. ASSUME NEW o \in Outpoint, o \in S
      PROVE  /\ r[o] \in Entry /\ r[o] # NoEntry
             /\ r[o].coin = undo[o] /\ r[o].dirty
             /\ r[o].fresh => base[o] = Spent
  <2> DEFINE c == FetchCoin(cache, base, o)
             overwrite == ViewOf(cache, base)[o] # Spent
  <2>1. r[o] = AddCoin(c, o, undo[o], overwrite)[o]
    BY <1>3 DEF RestoreAll
  <2>2. c \in Cache /\ Sound(c, base) /\ ViewOf(c, base) = ViewOf(cache, base)
    BY FetchCoinIs
  <2>3. overwrite \in BOOLEAN /\ (overwrite \/ ViewOf(c, base)[o] = Spent)
    BY <2>2
  <2>4. undo[o] \in CoinOrSpent
    BY DEF BaseView
  <2> HIDE DEF r, c, overwrite
  <2> QED
    BY <2>1, <2>2, <2>3, <2>4, AddCoinIs
<1> HIDE DEF r
<1>4. /\ r \in Cache
      /\ Sound(r, base)
      /\ \A o \in Outpoint : ViewOf(r, base)[o] = IF o \in S THEN undo[o] ELSE ViewOf(cache, base)[o]
  BY <1>1, <1>2, <1>3, ReplacedIs
<1> QED
  BY <1>4 DEF r

\* AccessCoin fetches what a child reads; nothing that is seen changes.
LEMMA FetchAllIs ==
    ASSUME NEW cache \in Cache, NEW base \in BaseView, Sound(cache, base), NEW S
    PROVE  /\ FetchAll(cache, base, S) \in Cache
           /\ Sound(FetchAll(cache, base, S), base)
           /\ ViewOf(FetchAll(cache, base, S), base) = ViewOf(cache, base)
<1> DEFINE r == FetchAll(cache, base, S)
<1>1. ASSUME NEW o \in Outpoint
      PROVE  /\ r[o] \in Entry \cup {NoEntry}
             /\ r[o] # NoEntry => /\ ~r[o].dirty => r[o].coin = base[o]
                                  /\ r[o].fresh => r[o].dirty /\ base[o] = Spent
             /\ (IF r[o] = NoEntry THEN base[o] ELSE r[o].coin) = ViewOf(cache, base)[o]
  <2> DEFINE c == FetchCoin(cache, base, o)
  <2>1. r[o] = IF o \in S THEN c[o] ELSE cache[o]
    BY DEF FetchAll
  <2>2. c \in Cache /\ Sound(c, base) /\ ViewOf(c, base) = ViewOf(cache, base)
    BY FetchCoinIs
  <2> HIDE DEF r, c
  <2>3. ViewOf(cache, base)[o] = (IF c[o] = NoEntry THEN base[o] ELSE c[o].coin)
    BY <2>2, ViewOfIs
  <2>4. ViewOf(cache, base)[o] = (IF cache[o] = NoEntry THEN base[o] ELSE cache[o].coin)
    BY ViewOfIs
  <2>5. c[o] \in Entry \cup {NoEntry} /\ cache[o] \in Entry \cup {NoEntry}
    BY <2>2 DEF Cache
  <2> QED
    BY <2>1, <2>2, <2>3, <2>4, <2>5 DEF Sound
<1>2. r = [o \in Outpoint |-> r[o]]
  BY DEF FetchAll
<1> HIDE DEF r
<1>3. r \in Cache
  BY <1>1, <1>2 DEF Cache
<1>4. Sound(r, base)
  BY <1>1 DEF Sound
<1>5. ViewOf(r, base) = ViewOf(cache, base)
  BY <1>1, <1>3, ViewOfIs, SameView
<1> QED
  BY <1>3, <1>4, <1>5 DEF r

\* CCoinsViewCache::BatchWrite (coins.cpp:145-201): the parent shows what the
\* child showed.
LEMMA BatchWriteIs ==
    ASSUME NEW parent \in Cache, NEW base \in BaseView, Sound(parent, base),
           NEW child \in Cache, Sound(child, ViewOf(parent, base))
    PROVE  /\ BatchWrite(parent, child) \in Cache
           /\ Sound(BatchWrite(parent, child), base)
           /\ ViewOf(BatchWrite(parent, child), base) = ViewOf(child, ViewOf(parent, base))
<1> DEFINE r == BatchWrite(parent, child)
           v == ViewOf(parent, base)
<1>1. v \in BaseView /\ ViewOf(child, v) \in BaseView
  BY ViewOfIs
<1>2. ASSUME NEW o \in Outpoint
      PROVE  /\ r[o] \in Entry \cup {NoEntry}
             /\ r[o] # NoEntry => /\ ~r[o].dirty => r[o].coin = base[o]
                                  /\ r[o].fresh => r[o].dirty /\ base[o] = Spent
             /\ (IF r[o] = NoEntry THEN base[o] ELSE r[o].coin) = ViewOf(child, v)[o]
  <2> DEFINE up == parent[o]
             e == child[o]
  <2>1. up \in Entry \cup {NoEntry} /\ e \in Entry \cup {NoEntry}
    BY DEF Cache
  <2>2. v[o] = (IF up = NoEntry THEN base[o] ELSE up.coin)
    BY ViewOfIs
  <2>3. ViewOf(child, v)[o] = (IF e = NoEntry THEN v[o] ELSE e.coin)
    BY <1>1, ViewOfIs
  <2>4. /\ up # NoEntry => /\ ~up.dirty => up.coin = base[o]
                           /\ up.fresh => up.dirty /\ base[o] = Spent
        /\ e # NoEntry => /\ ~e.dirty => e.coin = v[o]
                          /\ e.fresh => e.dirty /\ v[o] = Spent
    BY DEF Sound
  <2>5. r[o] = IF e # NoEntry /\ e.dirty THEN MergeEntry(up, e) ELSE up
    BY DEF BatchWrite, ToApply
  <2> HIDE DEF r, v, up, e
  <2>6. CASE ~(e # NoEntry /\ e.dirty)
    BY <2>1, <2>2, <2>3, <2>4, <2>5, <2>6
  <2>7. CASE e # NoEntry /\ e.dirty
    <3>1. CASE up = NoEntry /\ e.fresh /\ e.coin = Spent
      BY <2>1, <2>2, <2>3, <2>4, <2>5, <2>7, <3>1 DEF MergeEntry
    <3>2. CASE up = NoEntry /\ ~(e.fresh /\ e.coin = Spent)
      BY <2>1, <2>2, <2>3, <2>4, <2>5, <2>7, <3>2 DEF MergeEntry
    <3>3. CASE up # NoEntry /\ up.fresh /\ e.coin = Spent
      BY <2>1, <2>2, <2>3, <2>4, <2>5, <2>7, <3>3 DEF MergeEntry
    <3>4. CASE up # NoEntry /\ ~(up.fresh /\ e.coin = Spent)
      <4>1. r[o] = [coin |-> e.coin, dirty |-> TRUE, fresh |-> up.fresh]
        BY <2>5, <2>7, <3>4 DEF MergeEntry
      <4>2. e.coin \in CoinOrSpent /\ up.fresh \in BOOLEAN
        BY <2>1, <2>7, <3>4 DEF Entry
      <4>3. r[o] \in Entry /\ r[o] # NoEntry
        BY Zenon, <4>1, <4>2, EntryIs
      <4> QED
        BY <2>3, <2>4, <2>7, <3>4, <4>1, <4>3
    <3> QED
      BY <3>1, <3>2, <3>3, <3>4
  <2> QED
    BY <2>6, <2>7
<1>3. r = [o \in Outpoint |-> r[o]]
  BY DEF BatchWrite
<1> HIDE DEF r
<1>4. r \in Cache
  BY <1>2, <1>3 DEF Cache
<1>5. Sound(r, base)
  BY <1>2 DEF Sound
<1>6. ViewOf(r, base) = ViewOf(child, v)
  BY <1>1, <1>2, <1>4, ViewOfIs, SameView
<1> QED
  BY <1>4, <1>5, <1>6 DEF r

\* The last batch of CCoinsViewDB::BatchWrite leaves what the cache showed.
LEMMA DbAfterBatchIs ==
    ASSUME NEW cache \in Cache, NEW base \in BaseView, Sound(cache, base)
    PROVE  DbAfterBatch(base, cache) = ViewOf(cache, base)
<1>1. \A o \in Outpoint : DbAfterBatch(base, cache)[o] = ViewOf(cache, base)[o]
  BY DEF DbAfterBatch, ViewOf, ToApply, Sound
<1>2. DbAfterBatch(base, cache) \in BaseView
  BY DEF DbAfterBatch, BaseView, ToApply, Cache, Entry
<1> QED
  BY <1>1, <1>2, ViewOfIs, SameView

-----------------------------------------------------------------------------
(* The coins of a chain.                                                   *)

\* The blocks of a chain that name an outpoint, and the last of them.
Naming(b, o) == {a \in ChainTo[b] \ {Genesis} : o \in BlockIns(a) \cup BlockOuts(a)}

LastNaming(b, o) == CHOOSE a \in Naming(b, o) : \A c \in Naming(b, o) : Height[c] <= Height[a]

\* The inputs and outputs of blocks are outpoints.
LEMMA BlockNames ==
    ASSUME NEW b \in Block
    PROVE  /\ Len(Txs[b]) \in Nat /\ DOMAIN Txs[b] = 1..Len(Txs[b])
           /\ \A i \in 1..Len(Txs[b]) : Txs[b][i] \in Transaction
           /\ BlockIns(b) \subseteq Outpoint /\ BlockOuts(b) \subseteq Outpoint
<1>1. Txs[b] \in Seq(Transaction)
  BY BlocksAssumption
<1>2. /\ Len(Txs[b]) \in Nat /\ DOMAIN Txs[b] = 1..Len(Txs[b])
      /\ \A i \in 1..Len(Txs[b]) : Txs[b][i] \in Transaction
  BY <1>1
<1>3. \A i \in 1..Len(Txs[b]) : Txs[b][i].ins \subseteq Outpoint /\ Txs[b][i].outs \subseteq Outpoint
  BY <1>2 DEF Transaction
<1>4. BlockIns(b) \subseteq Outpoint
  BY <1>2, <1>3 DEF BlockIns
<1>5. BlockOuts(b) \subseteq Outpoint
  BY <1>2, <1>3 DEF BlockOuts
<1> QED
  BY <1>2, <1>4, <1>5

\* The last block that names an outpoint is one that names it.
LEMMA LastNamingIs ==
    ASSUME NEW b \in Block \cup {Null}, NEW o, Naming(b, o) # {}
    PROVE  /\ LastNaming(b, o) \in Naming(b, o)
           /\ LastNaming(b, o) \in Block \ {Genesis}
           /\ \A c \in Naming(b, o) : Height[c] <= Height[LastNaming(b, o)]
<1>1. b \in Block
  BY ChainToStep DEF Naming
<1>2. Naming(b, o) \subseteq ChainTo[b]
  BY DEF Naming
<1>3. \E x \in Naming(b, o) : \A y \in Naming(b, o) : Height[y] <= Height[x]
  BY <1>1, <1>2, HighestBlock
<1>4. /\ LastNaming(b, o) \in Naming(b, o)
      /\ \A c \in Naming(b, o) : Height[c] <= Height[LastNaming(b, o)]
  BY <1>3 DEF LastNaming
<1> QED
  BY <1>1, <1>4, ChainToStep DEF Naming

\* The coins of a block, outpoint by outpoint.
LEMMA UtxoIs ==
    /\ Utxo \in [Block \cup {Null} -> BaseView]
    /\ \A b \in Block \cup {Null}, o \in Outpoint :
            Utxo[b][o] = IF Naming(b, o) = {} \/ o \in BlockIns(LastNaming(b, o)) THEN Spent
                         ELSE Height[LastNaming(b, o)]
<1>1. \A b \in Block \cup {Null}, o \in Outpoint :
          /\ Utxo[b] = [p \in Outpoint |-> Utxo[b][p]]
          /\ Utxo[b][o] = IF Naming(b, o) = {} \/ o \in BlockIns(LastNaming(b, o)) THEN Spent
                          ELSE Height[LastNaming(b, o)]
  BY DEF Utxo, Naming, LastNaming
<1>2. \A b \in Block \cup {Null}, o \in Outpoint : Utxo[b][o] \in CoinOrSpent
  <2> SUFFICES ASSUME NEW b \in Block \cup {Null}, NEW o \in Outpoint
               PROVE  Utxo[b][o] \in CoinOrSpent
    OBVIOUS
  <2>1. CASE Naming(b, o) = {}
    BY Zenon, <1>1, <2>1 DEF CoinOrSpent
  <2>2. CASE Naming(b, o) # {}
    <3>1. Height[LastNaming(b, o)] \in Coin
      BY <2>2, LastNamingIs, BlocksAssumption
    <3> QED
      BY Zenon, <1>1, <3>1 DEF CoinOrSpent
  <2> QED
    BY <2>1, <2>2
<1>3. \A b \in Block \cup {Null} : Utxo[b] = [p \in Outpoint |-> Utxo[b][p]]
  BY DEF Utxo
<1>4. \A b \in Block \cup {Null} : Utxo[b] \in BaseView
  BY Zenon, <1>2, <1>3 DEF BaseView
<1>5. Utxo = [b \in Block \cup {Null} |-> Utxo[b]]
  BY DEF Utxo
<1> QED
  BY Zenon, <1>1, <1>4, <1>5

\* A block spends its inputs and creates its other outputs; the genesis block
\* changes nothing.
LEMMA UtxoStep ==
    /\ Utxo \in [Block \cup {Null} -> BaseView]
    /\ Utxo[Genesis] = Utxo[Null]
    /\ \A o \in Outpoint : Utxo[Null][o] = Spent
    /\ \A b \in Block \ {Genesis}, o \in Outpoint :
            Utxo[b][o] = IF o \in BlockIns(b) THEN Spent
                         ELSE IF o \in BlockOuts(b) THEN Height[b]
                         ELSE Utxo[Parent[b]][o]
<1>1. \A o \in Outpoint : Naming(Null, o) = {} /\ Naming(Genesis, o) = {}
  BY ChainToStep, GenesisChain DEF Naming
<1>2. \A o \in Outpoint : Utxo[Null][o] = Spent /\ Utxo[Genesis][o] = Spent
  BY <1>1, UtxoIs, TreeAssumption
<1>3. Utxo[Genesis] = Utxo[Null]
  BY <1>2, UtxoIs, TreeAssumption, SameView
<1>4. ASSUME NEW b \in Block \ {Genesis}, NEW o \in Outpoint
      PROVE  Utxo[b][o] = IF o \in BlockIns(b) THEN Spent
                          ELSE IF o \in BlockOuts(b) THEN Height[b]
                          ELSE Utxo[Parent[b]][o]
  <2>1. ChainTo[b] = {b} \cup ChainTo[Parent[b]] /\ Parent[b] \in Block \cup {Null}
    BY ChainToStep
  <2>2. CASE o \in BlockIns(b) \cup BlockOuts(b)
    <3>1. b \in Naming(b, o)
      BY <2>1, <2>2 DEF Naming
    <3> DEFINE a == LastNaming(b, o)
    <3>2. a \in Naming(b, o) /\ Height[b] <= Height[a]
      BY <3>1, LastNamingIs
    <3> HIDE DEF a
    <3>3. a \in ChainTo[b]
      BY <3>2 DEF Naming
    <3>4. a = b
      BY <3>2, <3>3, ChainHeights, HeightType
    <3> QED
      BY <2>2, <3>1, <3>4, UtxoIs DEF a
  <2>3. CASE o \notin BlockIns(b) \cup BlockOuts(b)
    <3>1. Naming(b, o) = Naming(Parent[b], o)
      BY <2>1, <2>3 DEF Naming
    <3>2. LastNaming(b, o) = LastNaming(Parent[b], o)
      BY <3>1 DEF LastNaming
    <3> QED
      BY <2>1, <2>3, <3>1, <3>2, UtxoIs
  <2> QED
    BY <2>2, <2>3
<1> QED
  BY <1>2, <1>3, <1>4, UtxoIs

-----------------------------------------------------------------------------
(* Steps taken one after the other.                                        *)

\* A set with 0 that is closed under the next number has all up to N.
LEMMA UpTo ==
    ASSUME NEW N \in Nat, NEW S, 0 \in S, \A n \in 1..N : n - 1 \in S => n \in S
    PROVE  \A n \in 0..N : n \in S
<1> SUFFICES ASSUME NEW k \in 0..N, k \notin S
             PROVE  FALSE
  OBVIOUS
<1> DEFINE R == {n \in 0..N : n \notin S}
<1>1. R \subseteq Nat /\ R # {}
  OBVIOUS
<1> HIDE DEF R
<1>2. PICK n \in R : \A m \in R : n <= m
  BY Zenon, <1>1, LeastNat
<1>3. n \in 0..N /\ n \notin S
  BY <1>2 DEF R
<1>4. n \in 1..N /\ n - 1 \in 0..N
  BY <1>3
<1>5. n - 1 \notin R
  BY <1>2, <1>4
<1>6. n - 1 \in S
  BY <1>4, <1>5 DEF R
<1> QED
  BY <1>3, <1>4, <1>6

\* The functions st[1], ..., st[N] stay in X, and f is what they make of x0.
StaysIn(X, st, N) == \A n \in 1..N : \A x \in X : st[n][x] \in X

IsRun(f, x0, st, N) == f[0] = x0 /\ \A n \in 1..N : f[n] = st[n][f[n - 1]]

\* N steps can be taken.
LEMMA Steps ==
    ASSUME NEW N \in Nat, NEW X, NEW x0 \in X, NEW st, StaysIn(X, st, N)
    PROVE  \E f \in [0..N -> X] : IsRun(f, x0, st, N)
<1> DEFINE Runs(m) == \E f \in [0..m -> X] : f[0] = x0 /\ \A n \in 1..m : f[n] = st[n][f[n - 1]]
           S == {m \in 0..N : Runs(m)}
<1>1. 0 \in S
  <2> DEFINE f == [k \in 0..0 |-> x0]
  <2>1. f \in [0..0 -> X] /\ f[0] = x0 /\ \A n \in 1..0 : f[n] = st[n][f[n - 1]]
    OBVIOUS
  <2> HIDE DEF f
  <2> QED
    BY <2>1
<1>2. ASSUME NEW n \in 1..N, n - 1 \in S
      PROVE  n \in S
  <2>1. PICK f \in [0..(n - 1) -> X] :
            f[0] = x0 /\ \A k \in 1..(n - 1) : f[k] = st[k][f[k - 1]]
    BY <1>2
  <2> DEFINE g == [k \in 0..n |-> IF k = n THEN st[n][f[n - 1]] ELSE f[k]]
  <2>2. f[n - 1] \in X /\ st[n][f[n - 1]] \in X
    BY <2>1 DEF StaysIn
  <2>3. g \in [0..n -> X]
    BY <2>1, <2>2
  <2>4. g[0] = x0
    BY <2>1
  <2>5. ASSUME NEW k \in 1..n
        PROVE  g[k] = st[k][g[k - 1]]
    <3>1. g[k - 1] = f[k - 1]
      OBVIOUS
    <3>2. CASE k = n
      BY <3>1, <3>2
    <3>3. CASE k # n
      <4>1. k \in 1..(n - 1) /\ g[k] = f[k]
        BY <3>3
      <4> QED
        BY <2>1, <3>1, <4>1
    <3> QED
      BY <3>2, <3>3
  <2> HIDE DEF g
  <2>6. Runs(n)
    BY <2>3, <2>4, <2>5
  <2> QED
    BY <2>6
<1> HIDE DEF S
<1>3. N \in S
  BY <1>1, <1>2, UpTo
<1> QED
  BY <1>3 DEF S, IsRun

-----------------------------------------------------------------------------
(* Inside a valid block.                                                   *)

\* The outpoints that the first n transactions of a block spend and create, and
\* the coins between transactions n and n + 1.
Used(b, n) == UNION {Txs[b][i].ins : i \in 1..n}
Made(b, n) == UNION {Txs[b][i].outs : i \in 1..n}

After(b, n) ==
    [o \in Outpoint |-> IF o \in Used(b, n) THEN Spent
                        ELSE IF o \in Made(b, n) THEN Height[b] ELSE Utxo[Parent[b]][o]]

\* The coins before the first transaction and after the last one.
LEMMA AfterEnds ==
    ASSUME NEW b \in Block \ {Genesis}
    PROVE  /\ \A n \in Nat : After(b, n) \in BaseView
           /\ After(b, 0) = Utxo[Parent[b]]
           /\ After(b, Len(Txs[b])) = Utxo[b]
           /\ Height[b] \in Coin /\ Height[b] # Spent
<1>1. Height[b] \in Coin /\ Height[b] # Spent
  BY BlocksAssumption, SpentIsNoCoin
<1>2. Parent[b] \in Block \cup {Null} /\ Utxo[Parent[b]] \in BaseView /\ Utxo[b] \in BaseView
  BY ChainToStep, UtxoStep
<1>3. \A n \in Nat : After(b, n) \in BaseView
  BY <1>1, <1>2 DEF After, BaseView, CoinOrSpent
<1>4. After(b, 0) = Utxo[Parent[b]]
  <2>1. Used(b, 0) = {} /\ Made(b, 0) = {}
    BY DEF Used, Made
  <2>2. \A o \in Outpoint : After(b, 0)[o] = Utxo[Parent[b]][o]
    BY <2>1 DEF After
  <2> QED
    BY <1>2, <1>3, <2>2, SameView
<1>5. After(b, Len(Txs[b])) = Utxo[b]
  <2>1. /\ Len(Txs[b]) \in Nat
        /\ Used(b, Len(Txs[b])) = BlockIns(b) /\ Made(b, Len(Txs[b])) = BlockOuts(b)
    BY BlockNames DEF Used, Made, BlockIns, BlockOuts
  <2>2. \A o \in Outpoint : After(b, Len(Txs[b]))[o] = Utxo[b][o]
    BY <2>1, UtxoStep DEF After
  <2> QED
    BY <1>2, <1>3, <2>1, <2>2, SameView
<1> QED
  BY <1>1, <1>3, <1>4, <1>5

\* One transaction more.
LEMMA UsedStep ==
    ASSUME NEW b \in Block, NEW n \in 1..Len(Txs[b])
    PROVE  /\ Used(b, n) = Used(b, n - 1) \cup Txs[b][n].ins
           /\ Made(b, n) = Made(b, n - 1) \cup Txs[b][n].outs
<1>1. 1..n = 1..(n - 1) \cup {n}
  BY BlockNames
<1> QED
  BY <1>1 DEF Used, Made

\* The checks of ConnectBlock, in terms of what came before a transaction.
LEMMA ValidTx ==
    ASSUME NEW b \in Block \ {Genesis}, NEW n \in 1..Len(Txs[b]), NEW o \in Outpoint
    PROVE  /\ Txs[b][n] \in Transaction
           /\ Used(b, n) = Used(b, n - 1) \cup Txs[b][n].ins
           /\ Made(b, n) = Made(b, n - 1) \cup Txs[b][n].outs
           /\ o \in Txs[b][n].ins => /\ o \notin Used(b, n - 1)
                                     /\ o \in Made(b, n - 1) <=> o \in BlockOuts(b)
                                     /\ o \in Made(b, n - 1) \/ Utxo[Parent[b]][o] # Spent
           /\ o \in Txs[b][n].outs => /\ o \notin Used(b, n) /\ o \notin Made(b, n - 1)
                                      /\ Utxo[Parent[b]][o] = Spent
<1> DEFINE txs == Txs[b]
           N == Len(txs)
<1>1. N \in Nat /\ DOMAIN txs = 1..N /\ \A i \in 1..N : txs[i] \in Transaction
  BY BlockNames
<1>2. /\ \A i \in 1..N : \A p \in txs[i].ins :
            Utxo[Parent[b]][p] # Spent \/ \E j \in 1..(i - 1) : p \in txs[j].outs
      /\ \A i \in 1..N : \A p \in txs[i].outs : Utxo[Parent[b]][p] = Spent
      /\ \A i, j \in 1..N : i # j => txs[i].ins \cap txs[j].ins = {} /\ txs[i].outs \cap txs[j].outs = {}
  BY Zenon, <1>1, BlocksAssumption DEF Valid
<1>3. /\ Used(b, n) = Used(b, n - 1) \cup txs[n].ins
      /\ Made(b, n) = Made(b, n - 1) \cup txs[n].outs
  BY UsedStep
<1>4. o \in Used(b, n - 1) <=> \E i \in 1..(n - 1) : o \in txs[i].ins
  BY DEF Used
<1>5. o \in Made(b, n - 1) <=> \E i \in 1..(n - 1) : o \in txs[i].outs
  BY DEF Made
<1>6. o \in BlockOuts(b) <=> \E i \in 1..N : o \in txs[i].outs
  BY <1>1 DEF BlockOuts
<1> HIDE DEF txs, N
<1>7. n \in 1..N /\ \A i \in 1..(n - 1) : i \in 1..N /\ i # n
  BY <1>1 DEF N, txs
<1>8. ASSUME o \in txs[n].ins
      PROVE  /\ o \notin Used(b, n - 1)
             /\ o \in Made(b, n - 1) <=> o \in BlockOuts(b)
             /\ o \in Made(b, n - 1) \/ Utxo[Parent[b]][o] # Spent
  <2>1. o \notin Used(b, n - 1)
    BY <1>2, <1>4, <1>7, <1>8
  <2>2. o \in Made(b, n - 1) \/ Utxo[Parent[b]][o] # Spent
    BY <1>2, <1>5, <1>7, <1>8
  <2>3. o \in Made(b, n - 1) => o \in BlockOuts(b)
    BY <1>5, <1>6, <1>7
  <2>4. o \in BlockOuts(b) => Utxo[Parent[b]][o] = Spent
    BY <1>2, <1>6
  <2> QED
    BY <2>1, <2>2, <2>3, <2>4
<1>9. ASSUME o \in txs[n].outs
      PROVE  /\ o \notin Used(b, n) /\ o \notin Made(b, n - 1)
             /\ Utxo[Parent[b]][o] = Spent
  <2>1. Utxo[Parent[b]][o] = Spent
    BY <1>2, <1>7, <1>9
  <2>2. o \notin Made(b, n - 1)
    BY <1>2, <1>5, <1>7, <1>9
  <2>3. ASSUME NEW i \in 1..n, o \in txs[i].ins
        PROVE  FALSE
    <3>1. i \in 1..N
      BY <1>1, <1>7 DEF N, txs
    <3>2. PICK j \in 1..(i - 1) : o \in txs[j].outs
      BY <1>2, <2>1, <2>3, <3>1
    <3>3. j \in 1..N /\ j # n
      BY <3>1, <3>2, <1>7
    <3> QED
      BY <1>2, <1>7, <1>9, <3>2, <3>3
  <2>4. o \notin Used(b, n)
    BY <2>3 DEF Used, txs
  <2> QED
    BY <2>1, <2>2, <2>4
<1> QED
  BY <1>1, <1>3, <1>7, <1>8, <1>9 DEF txs

\* One transaction of a valid block: its inputs exist before it and are what the
\* undo data says; its outputs do not.
LEMMA AfterStep ==
    ASSUME NEW b \in Block \ {Genesis}, NEW n \in 1..Len(Txs[b]), NEW o \in Outpoint
    PROVE  /\ After(b, n)[o] = IF o \in Txs[b][n].outs THEN Height[b]
                               ELSE IF o \in Txs[b][n].ins THEN Spent ELSE After(b, n - 1)[o]
           /\ o \in Txs[b][n].ins => /\ After(b, n - 1)[o] = UndoOf(b)[o]
                                     /\ o \notin Txs[b][n].outs
           /\ o \in Txs[b][n].outs => After(b, n - 1)[o] = Spent /\ Utxo[Parent[b]][o] = Spent
<1> DEFINE tx == Txs[b][n]
<1>1. /\ Used(b, n) = Used(b, n - 1) \cup tx.ins
      /\ Made(b, n) = Made(b, n - 1) \cup tx.outs
      /\ o \in tx.ins => /\ o \notin Used(b, n - 1)
                         /\ o \in Made(b, n - 1) <=> o \in BlockOuts(b)
                         /\ o \in Made(b, n - 1) \/ Utxo[Parent[b]][o] # Spent
      /\ o \in tx.outs => /\ o \notin Used(b, n) /\ o \notin Made(b, n - 1)
                          /\ Utxo[Parent[b]][o] = Spent
  BY ValidTx
<1>2. o \in tx.ins => o \in BlockIns(b)
  BY BlockNames DEF BlockIns
<1> HIDE DEF tx
<1>3. After(b, n)[o] = IF o \in tx.outs THEN Height[b]
                       ELSE IF o \in tx.ins THEN Spent ELSE After(b, n - 1)[o]
  BY <1>1 DEF After
<1>4. ASSUME o \in tx.ins
      PROVE  After(b, n - 1)[o] = UndoOf(b)[o] /\ o \notin tx.outs
  <2>1. o \notin tx.outs
    BY <1>1, <1>4
  <2>2. CASE o \in Made(b, n - 1)
    <3>1. After(b, n - 1)[o] = Height[b]
      BY <1>1, <1>4, <2>2 DEF After
    <3>2. UndoOf(b)[o] = Height[b]
      BY <1>1, <1>2, <1>4, <2>2 DEF UndoOf
    <3> QED
      BY <2>1, <3>1, <3>2
  <2>3. CASE o \notin Made(b, n - 1)
    <3>1. After(b, n - 1)[o] = Utxo[Parent[b]][o]
      BY <1>1, <1>4, <2>3 DEF After
    <3>2. o \in BlockIns(b) \ BlockOuts(b)
      BY <1>1, <1>2, <1>4, <2>3
    <3>3. UndoOf(b)[o] = Utxo[Parent[b]][o]
      BY <3>2 DEF UndoOf
    <3> QED
      BY <2>1, <3>1, <3>3
  <2> QED
    BY <2>2, <2>3
<1>5. o \in tx.outs => After(b, n - 1)[o] = Spent /\ Utxo[Parent[b]][o] = Spent
  BY <1>1 DEF After
<1> QED
  BY <1>3, <1>4, <1>5 DEF tx

\* The undo data of a block is a set of coins; where the block has no input it
\* is empty.
LEMMA UndoOfIs ==
    ASSUME NEW b \in Block \ {Genesis}
    PROVE  /\ UndoOf(b) \in BaseView
           /\ \A o \in Outpoint : o \notin BlockIns(b) => UndoOf(b)[o] = Spent
<1>1. Height[b] \in CoinOrSpent /\ Utxo[Parent[b]] \in BaseView
  BY AfterEnds, ChainToStep, UtxoStep DEF CoinOrSpent
<1>2. \A o \in Outpoint : UndoOf(b)[o] \in CoinOrSpent
  BY <1>1 DEF UndoOf, BaseView, CoinOrSpent
<1>3. UndoOf(b) = [o \in Outpoint |-> UndoOf(b)[o]]
  BY DEF UndoOf
<1>4. \A o \in Outpoint : o \notin BlockIns(b) => UndoOf(b)[o] = Spent
  BY DEF UndoOf
<1> QED
  BY <1>2, <1>3, <1>4 DEF BaseView

\* What ConnectBlock carries from one transaction to the next.
Applying(base) == {x \in [view : Cache, undo : BaseView] : Sound(x.view, base)}

\* From x to y the inputs of a transaction go, into the undo data, and its
\* outputs come.
TxApplied(base, h, tx, x, y) ==
    \A o \in Outpoint :
        /\ ViewOf(y.view, base)[o] = IF o \in tx.outs THEN h
                                     ELSE IF o \in tx.ins THEN Spent ELSE ViewOf(x.view, base)[o]
        /\ y.undo[o] = IF o \in tx.ins THEN ViewOf(x.view, base)[o] ELSE x.undo[o]

\* UpdateCoins: the coins after a transaction, and the undo data so far.
LEMMA ApplyTxIs ==
    ASSUME NEW base \in BaseView, NEW h \in CoinOrSpent, NEW tx \in Transaction,
           \A o \in tx.outs : base[o] = Spent,
           NEW acc \in Applying(base)
    PROVE  /\ ApplyTx(base, h, acc, tx) \in Applying(base)
           /\ TxApplied(base, h, tx, acc, ApplyTx(base, h, acc, tx))
<1> DEFINE v == acc.view
           u == SpendAll(v, base, tx.ins)
           w == AddCoins(u, tx, h)
           undo == [o \in Outpoint |-> IF o \in tx.ins THEN ViewOf(v, base)[o] ELSE acc.undo[o]]
<1>1. v \in Cache /\ Sound(v, base) /\ acc.undo \in BaseView /\ ViewOf(v, base) \in BaseView
  BY ViewOfIs DEF Applying
<1>2. /\ u \in Cache /\ Sound(u, base)
      /\ \A o \in Outpoint : ViewOf(u, base)[o] = IF o \in tx.ins THEN Spent ELSE ViewOf(v, base)[o]
  BY <1>1, SpendAllIs
<1>3. /\ w \in Cache /\ Sound(w, base)
      /\ \A o \in Outpoint : ViewOf(w, base)[o] = IF o \in tx.outs THEN h ELSE ViewOf(u, base)[o]
  <2> HIDE DEF u
  <2> QED
    BY <1>2, AddCoinsIs
<1>4. undo \in BaseView
  BY <1>1 DEF BaseView
<1>5. ApplyTx(base, h, acc, tx) = [view |-> w, undo |-> undo]
  BY DEF ApplyTx
<1>6. \A o \in Outpoint : undo[o] = IF o \in tx.ins THEN ViewOf(v, base)[o] ELSE acc.undo[o]
  OBVIOUS
<1> HIDE DEF u, w, undo
<1>7. ApplyTx(base, h, acc, tx) \in Applying(base)
  BY <1>3, <1>4, <1>5 DEF Applying
<1>8. \A o \in Outpoint : ViewOf(w, base)[o] = IF o \in tx.outs THEN h
                                               ELSE IF o \in tx.ins THEN Spent ELSE ViewOf(v, base)[o]
  BY <1>2, <1>3
<1> QED
  BY <1>5, <1>6, <1>7, <1>8 DEF TxApplied

\* ConnectBlock (validation.cpp:2286-2640) on the coins of the parent leaves the
\* coins of the block, and its undo data.
LEMMA ConnectBlockIs ==
    ASSUME NEW b \in Block \ {Genesis}, NEW base, base = Utxo[Parent[b]]
    PROVE  /\ ConnectBlock(base, b).view \in Cache
           /\ Sound(ConnectBlock(base, b).view, base)
           /\ ViewOf(ConnectBlock(base, b).view, base) = Utxo[b]
           /\ ConnectBlock(base, b).undo = UndoOf(b)
<1> DEFINE txs == Txs[b]
           N == Len(txs)
           X == Applying(base)
           x0 == [view |-> EmptyCache, undo |-> NoUndo]
           st == [n \in 1..N |-> [x \in X |-> ApplyTx(base, Height[b], x, txs[n])]]
           Step(f) == [n \in 0..N |-> IF n = 0 THEN x0
                                      ELSE ApplyTx(base, Height[b], f[n - 1], txs[n])]
           F == CHOOSE f : f = Step(f)
<1>1. /\ N \in Nat /\ \A n \in 1..N : txs[n] \in Transaction
      /\ base \in BaseView /\ Height[b] \in CoinOrSpent
  BY BlockNames, ChainToStep, UtxoStep, AfterEnds DEF CoinOrSpent
<1>2. x0 \in X
  BY <1>1, EmptyCacheIs DEF NoUndo, BaseView, CoinOrSpent, Applying
<1>3. \A n \in 1..N : txs[n] \in Transaction /\ \A o \in txs[n].outs : base[o] = Spent
  <2> SUFFICES ASSUME NEW n \in 1..N, NEW o \in txs[n].outs
               PROVE  base[o] = Spent
    BY <1>1
  <2>1. o \in Outpoint
    BY <1>1 DEF Transaction
  <2> QED
    BY <2>1, AfterStep
<1>4. \A n \in 1..N, x \in X :
          /\ ApplyTx(base, Height[b], x, txs[n]) \in X
          /\ TxApplied(base, Height[b], txs[n], x, ApplyTx(base, Height[b], x, txs[n]))
  <2> HIDE DEF txs, N
  <2> QED
    BY <1>1, <1>3, ApplyTxIs
<1>5. PICK f \in [0..N -> X] : IsRun(f, x0, st, N)
  <2>1. StaysIn(X, st, N)
    BY Zenon, <1>4 DEF StaysIn
  <2>2. N \in Nat
    BY <1>1
  <2> HIDE DEF st, X, N, x0
  <2> QED
    BY <1>2, <2>1, <2>2, Steps
<1>6. f = Step(f)
  <2>1. \A n \in 1..N : f[n] = ApplyTx(base, Height[b], f[n - 1], txs[n])
    <3> HIDE DEF X, N, txs
    <3>1. \A n \in 1..N : n - 1 \in 0..N
      BY <1>1
    <3>2. \A n \in 1..N : f[n - 1] \in X
      BY <1>5, <3>1
    <3> QED
      BY Zenon, <1>5, <3>2 DEF IsRun
  <2> HIDE DEF X, N, txs, x0
  <2>2. \A n \in 0..N : f[n] = Step(f)[n]
    BY <1>1, <1>5, <2>1 DEF IsRun
  <2> QED
    BY <1>5, <2>2
<1>7. F = Step(F)
  BY Zenon, <1>6
<1>8. ConnectBlock(base, b) = F[N]
  BY DEF ConnectBlock
<1> HIDE DEF F, txs, N
<1>9. F[0] = x0 /\ \A n \in 1..N : F[n] = ApplyTx(base, Height[b], F[n - 1], txs[n])
  <2>1. \A n \in 1..N : n \in 0..N /\ n # 0
    BY <1>1
  <2>2. 0 \in 0..N
    BY <1>1
  <2>3. \A n \in 0..N : F[n] = Step(F)[n]
    <3> HIDE DEF Step
    <3> QED
      BY <1>7
  <2>4. F[0] = x0
    BY <2>2, <2>3
  <2>5. ASSUME NEW n \in 1..N
        PROVE  F[n] = ApplyTx(base, Height[b], F[n - 1], txs[n])
    BY <2>1, <2>3
  <2> QED
    BY <2>4, <2>5
<1> DEFINE Done(n) == /\ F[n] \in X
                      /\ \A o \in Outpoint :
                            /\ ViewOf(F[n].view, base)[o] = After(b, n)[o]
                            /\ F[n].undo[o] = IF o \in Used(b, n) THEN UndoOf(b)[o] ELSE Spent
           S == {n \in 0..N : Done(n)}
<1>10. 0 \in S
  <2>1. ViewOf(x0.view, base) = base /\ After(b, 0) = base
    BY <1>1, EmptyCacheIs, AfterEnds
  <2>2. Used(b, 0) = {}
    BY DEF Used
  <2>3. \A o \in Outpoint : x0.undo[o] = Spent
    BY DEF NoUndo
  <2>4. 0 \in 0..N
    BY <1>1
  <2> HIDE DEF X, x0
  <2>5. Done(0)
    BY Zenon, <1>2, <1>9, <2>1, <2>2, <2>3
  <2> QED
    BY Zenon, <2>4, <2>5
<1>11. ASSUME NEW n \in 1..N, n - 1 \in S
       PROVE  n \in S
  <2>1. Done(n - 1)
    BY <1>11
  <2> HIDE DEF X
  <2>2. F[n] = ApplyTx(base, Height[b], F[n - 1], txs[n])
    BY <1>9
  <2>3. F[n] \in X /\ TxApplied(base, Height[b], txs[n], F[n - 1], F[n])
    BY Zenon, <1>4, <2>1, <2>2
  <2>4. Used(b, n) = Used(b, n - 1) \cup txs[n].ins
    BY UsedStep DEF txs, N
  <2>5. ASSUME NEW o \in Outpoint
        PROVE  /\ ViewOf(F[n].view, base)[o] = After(b, n)[o]
               /\ F[n].undo[o] = IF o \in Used(b, n) THEN UndoOf(b)[o] ELSE Spent
    <3>1. /\ ViewOf(F[n].view, base)[o] =
                 IF o \in txs[n].outs THEN Height[b]
                 ELSE IF o \in txs[n].ins THEN Spent ELSE ViewOf(F[n - 1].view, base)[o]
          /\ F[n].undo[o] = IF o \in txs[n].ins THEN ViewOf(F[n - 1].view, base)[o] ELSE F[n - 1].undo[o]
      BY Zenon, <2>3 DEF TxApplied
    <3>2. /\ After(b, n)[o] = IF o \in txs[n].outs THEN Height[b]
                              ELSE IF o \in txs[n].ins THEN Spent ELSE After(b, n - 1)[o]
          /\ o \in txs[n].ins => After(b, n - 1)[o] = UndoOf(b)[o]
      BY Zenon, AfterStep DEF txs, N
    <3>3. /\ ViewOf(F[n - 1].view, base)[o] = After(b, n - 1)[o]
          /\ F[n - 1].undo[o] = IF o \in Used(b, n - 1) THEN UndoOf(b)[o] ELSE Spent
      BY Zenon, <2>1
    <3> QED
      BY Zenon, <2>4, <3>1, <3>2, <3>3
  <2>6. n \in 0..N
    BY <1>1
  <2> QED
    BY Zenon, <2>3, <2>5, <2>6
<1>12. Done(N)
  <2> HIDE DEF S
  <2>1. N \in Nat /\ N \in 0..N
    BY <1>1
  <2>2. \A n \in 1..N : n - 1 \in S => n \in S
    BY <1>11
  <2>3. N \in S
    BY Zenon, <1>10, <2>1, <2>2, UpTo
  <2> QED
    BY Zenon, <2>3 DEF S
<1>13. F[N].view \in Cache /\ Sound(F[N].view, base) /\ F[N].undo \in BaseView
  BY <1>12 DEF Applying
<1>14. ViewOf(F[N].view, base) = Utxo[b]
  <2>1. After(b, N) = Utxo[b] /\ After(b, N) \in BaseView
    BY <1>1, AfterEnds DEF N, txs
  <2>2. ViewOf(F[N].view, base) \in BaseView
    BY <1>1, <1>13, ViewOfIs
  <2> QED
    BY <1>12, <2>1, <2>2, SameView
<1>15. F[N].undo = UndoOf(b)
  <2>1. Used(b, N) = BlockIns(b)
    BY BlockNames DEF Used, BlockIns, N, txs
  <2>2. \A o \in Outpoint : F[N].undo[o] = UndoOf(b)[o]
    BY <1>12, <2>1, UndoOfIs
  <2> QED
    BY <1>13, <2>2, UndoOfIs, SameView
<1> QED
  BY Zenon, <1>8, <1>13, <1>14, <1>15

\* The caches of ReplayBlocks: sound ones.
SoundCaches(base) == {x \in Cache : Sound(x, base)}

\* One transaction of RollforwardBlock (validation.cpp:4817-4825), on any coins:
\* its outputs are there, its inputs are gone, the others stay.
LEMMA RollforwardTxIs ==
    ASSUME NEW base \in BaseView, NEW h \in CoinOrSpent, NEW tx \in Transaction,
           NEW view \in SoundCaches(base)
    PROVE  /\ RollforwardTx(base, h, view, tx) \in SoundCaches(base)
           /\ \A o \in Outpoint :
                ViewOf(RollforwardTx(base, h, view, tx), base)[o] =
                    IF o \in tx.outs THEN h
                    ELSE IF o \in tx.ins THEN Spent ELSE ViewOf(view, base)[o]
<1> DEFINE u == SpendAll(view, base, tx.ins)
           w == AddCoinsChecked(u, base, tx, h)
<1>1. /\ u \in Cache /\ Sound(u, base)
      /\ \A o \in Outpoint : ViewOf(u, base)[o] = IF o \in tx.ins THEN Spent ELSE ViewOf(view, base)[o]
  BY SpendAllIs DEF SoundCaches
<1>2. RollforwardTx(base, h, view, tx) = w
  BY DEF RollforwardTx
<1> HIDE DEF u
<1>3. /\ w \in Cache /\ Sound(w, base)
      /\ \A o \in Outpoint : ViewOf(w, base)[o] = IF o \in tx.outs THEN h ELSE ViewOf(u, base)[o]
  BY <1>1, AddCoinsCheckedIs
<1> QED
  BY <1>1, <1>2, <1>3 DEF SoundCaches

\* RollforwardBlock (validation.cpp:4809-4827) on any coins: the outpoints that
\* the block names get the coins of the block, the others stay.
LEMMA RollforwardBlockIs ==
    ASSUME NEW b \in Block \ {Genesis}, NEW base \in BaseView, NEW view \in SoundCaches(base)
    PROVE  /\ RollforwardBlock(view, base, b) \in SoundCaches(base)
           /\ \A o \in Outpoint : ViewOf(RollforwardBlock(view, base, b), base)[o] =
                  IF o \in BlockIns(b) \cup BlockOuts(b) THEN Utxo[b][o] ELSE ViewOf(view, base)[o]
<1> DEFINE txs == Txs[b]
           N == Len(txs)
           X == SoundCaches(base)
           st == [n \in 1..N |-> [x \in X |-> RollforwardTx(base, Height[b], x, txs[n])]]
           Step(f) == [n \in 0..N |-> IF n = 0 THEN view
                                      ELSE RollforwardTx(base, Height[b], f[n - 1], txs[n])]
           F == CHOOSE f : f = Step(f)
<1>1. N \in Nat /\ (\A n \in 1..N : txs[n] \in Transaction) /\ Height[b] \in CoinOrSpent
  BY BlockNames, AfterEnds DEF CoinOrSpent
<1>2. view \in X
  OBVIOUS
<1>3. \A n \in 1..N, x \in X :
          /\ RollforwardTx(base, Height[b], x, txs[n]) \in X
          /\ \A o \in Outpoint : ViewOf(RollforwardTx(base, Height[b], x, txs[n]), base)[o] =
                 IF o \in txs[n].outs THEN Height[b]
                 ELSE IF o \in txs[n].ins THEN Spent ELSE ViewOf(x, base)[o]
  <2> HIDE DEF txs, N
  <2> QED
    BY <1>1, RollforwardTxIs
<1>4. PICK f \in [0..N -> X] : IsRun(f, view, st, N)
  <2>1. StaysIn(X, st, N)
    BY <1>3 DEF StaysIn
  <2>2. N \in Nat
    BY <1>1
  <2> HIDE DEF st, X, N
  <2> QED
    BY <1>2, <2>1, <2>2, Steps
<1>5. f = Step(f)
  <2> HIDE DEF X, N, txs
  <2>1. \A n \in 1..N : n - 1 \in 0..N
    BY <1>1
  <2>2. \A n \in 1..N : f[n - 1] \in X
    BY <1>4, <2>1
  <2>3. \A n \in 1..N : f[n] = RollforwardTx(base, Height[b], f[n - 1], txs[n])
    BY Zenon, <1>4, <2>2 DEF IsRun
  <2>4. \A n \in 0..N : f[n] = Step(f)[n]
    BY <1>1, <1>4, <2>3 DEF IsRun
  <2> QED
    BY <1>4, <2>4
<1>6. F = Step(F)
  BY <1>5
<1>7. RollforwardBlock(view, base, b) = F[N]
  BY DEF RollforwardBlock
<1> HIDE DEF F, txs, N
<1>8. F[0] = view /\ \A n \in 1..N : F[n] = RollforwardTx(base, Height[b], F[n - 1], txs[n])
  <2>1. \A n \in 1..N : n \in 0..N /\ n # 0
    BY <1>1
  <2>2. 0 \in 0..N
    BY <1>1
  <2>3. \A n \in 0..N : F[n] = Step(F)[n]
    <3> HIDE DEF Step
    <3> QED
      BY <1>6
  <2>4. F[0] = view
    BY <2>2, <2>3
  <2>5. ASSUME NEW n \in 1..N
        PROVE  F[n] = RollforwardTx(base, Height[b], F[n - 1], txs[n])
    BY <2>1, <2>3
  <2> QED
    BY <2>4, <2>5
<1> DEFINE Done(n) == /\ F[n] \in X
                      /\ \A o \in Outpoint : ViewOf(F[n], base)[o] =
                             IF o \in Used(b, n) \cup Made(b, n) THEN After(b, n)[o]
                             ELSE ViewOf(view, base)[o]
           S == {n \in 0..N : Done(n)}
<1>9. 0 \in S
  <2>1. Used(b, 0) = {} /\ Made(b, 0) = {}
    BY DEF Used, Made
  <2> QED
    BY <1>1, <1>2, <1>8, <2>1
<1>10. ASSUME NEW n \in 1..N, n - 1 \in S
       PROVE  n \in S
  <2>1. Done(n - 1)
    BY <1>10
  <2> HIDE DEF X
  <2>2. F[n] = RollforwardTx(base, Height[b], F[n - 1], txs[n])
    BY <1>8
  <2>3. F[n] \in X
    BY <1>3, <2>1, <2>2
  <2>4. /\ Used(b, n) = Used(b, n - 1) \cup txs[n].ins
        /\ Made(b, n) = Made(b, n - 1) \cup txs[n].outs
    BY UsedStep DEF txs, N
  <2>5. ASSUME NEW o \in Outpoint
        PROVE  ViewOf(F[n], base)[o] = IF o \in Used(b, n) \cup Made(b, n) THEN After(b, n)[o]
                                       ELSE ViewOf(view, base)[o]
    <3>1. ViewOf(F[n], base)[o] = IF o \in txs[n].outs THEN Height[b]
                                  ELSE IF o \in txs[n].ins THEN Spent ELSE ViewOf(F[n - 1], base)[o]
      BY <1>3, <2>1, <2>2
    <3>2. After(b, n)[o] = IF o \in txs[n].outs THEN Height[b]
                           ELSE IF o \in txs[n].ins THEN Spent ELSE After(b, n - 1)[o]
      BY Zenon, AfterStep DEF txs, N
    <3>3. ViewOf(F[n - 1], base)[o] = IF o \in Used(b, n - 1) \cup Made(b, n - 1)
                                      THEN After(b, n - 1)[o] ELSE ViewOf(view, base)[o]
      BY <2>1
    <3> QED
      BY Zenon, <2>4, <3>1, <3>2, <3>3
  <2>6. n \in 0..N
    BY <1>1
  <2> QED
    BY <2>3, <2>5, <2>6
<1>11. Done(N)
  <2> HIDE DEF S
  <2>1. N \in Nat /\ N \in 0..N
    BY <1>1
  <2>2. \A n \in 1..N : n - 1 \in S => n \in S
    BY <1>10
  <2>3. N \in S
    BY <1>9, <2>1, <2>2, UpTo
  <2> QED
    BY <2>3 DEF S
<1>12. Used(b, N) = BlockIns(b) /\ Made(b, N) = BlockOuts(b) /\ After(b, N) = Utxo[b]
  BY BlockNames, AfterEnds DEF Used, Made, BlockIns, BlockOuts, N, txs
<1> QED
  BY <1>7, <1>11, <1>12

\* What DisconnectBlock carries from one transaction to the next.
Undoing(base) == {x \in [view : Cache, clean : BOOLEAN] : Sound(x.view, base)}

\* From x to y the outputs of a transaction go and its inputs come back.
TxUndone(base, undo, tx, x, y) ==
    \A o \in Outpoint : ViewOf(y.view, base)[o] =
        IF o \in tx.ins THEN undo[o]
        ELSE IF o \in tx.outs THEN Spent ELSE ViewOf(x.view, base)[o]

\* The outputs were there as the block made them, and the inputs were not.
TxUnspoiled(base, h, tx, x) ==
    /\ \A o \in tx.outs : ViewOf(x.view, base)[o] = h
    /\ \A o \in tx.ins : o \in tx.outs \/ ViewOf(x.view, base)[o] = Spent

\* One transaction undone (validation.cpp:1917-1975), on any coins.
LEMMA UndoTxIs ==
    ASSUME NEW base \in BaseView, NEW h \in CoinOrSpent, NEW undo \in BaseView,
           NEW tx \in Transaction, NEW acc \in Undoing(base)
    PROVE  /\ UndoTx(base, h, undo, acc, tx) \in Undoing(base)
           /\ TxUndone(base, undo, tx, acc, UndoTx(base, h, undo, acc, tx))
           /\ UndoTx(base, h, undo, acc, tx).clean <=> acc.clean /\ TxUnspoiled(base, h, tx, acc)
<1> DEFINE v == acc.view
           u == SpendAll(v, base, tx.outs)
           w == RestoreAll(u, base, tx.ins, undo)
           clean == /\ acc.clean
                    /\ \A o \in tx.outs : ViewOf(v, base)[o] = h
                    /\ \A o \in tx.ins : ViewOf(u, base)[o] = Spent
<1>1. v \in Cache /\ Sound(v, base) /\ acc.clean \in BOOLEAN /\ tx.ins \subseteq Outpoint
  BY DEF Transaction, Undoing
<1>2. /\ u \in Cache /\ Sound(u, base)
      /\ \A o \in Outpoint : ViewOf(u, base)[o] = IF o \in tx.outs THEN Spent ELSE ViewOf(v, base)[o]
  BY <1>1, SpendAllIs
<1>3. /\ w \in Cache /\ Sound(w, base)
      /\ \A o \in Outpoint : ViewOf(w, base)[o] = IF o \in tx.ins THEN undo[o] ELSE ViewOf(u, base)[o]
  <2> HIDE DEF u
  <2> QED
    BY <1>2, RestoreAllIs
<1>4. UndoTx(base, h, undo, acc, tx) = [view |-> w, clean |-> clean]
  BY Zenon DEF UndoTx, RestoreAll
<1>5. clean \in BOOLEAN
  OBVIOUS
<1>6. clean <=> acc.clean /\ TxUnspoiled(base, h, tx, acc)
  <2> HIDE DEF u
  <2> QED
    BY <1>1, <1>2 DEF TxUnspoiled
<1>7. \A o \in Outpoint : ViewOf(w, base)[o] =
          IF o \in tx.ins THEN undo[o] ELSE IF o \in tx.outs THEN Spent ELSE ViewOf(acc.view, base)[o]
  <2> HIDE DEF u, w
  <2> QED
    BY <1>2, <1>3
<1> HIDE DEF u, v, w, clean
<1>8. UndoTx(base, h, undo, acc, tx) \in Undoing(base)
  BY <1>3, <1>4, <1>5 DEF Undoing
<1> QED
  BY <1>4, <1>6, <1>7, <1>8 DEF TxUndone

\* The outpoints that the transactions after the n-th name.
NamedAfter(b, n) == UNION {Txs[b][i].ins \cup Txs[b][i].outs : i \in (n + 1)..Len(Txs[b])}

\* All of them, and none.
LEMMA NamedAfterIs ==
    ASSUME NEW b \in Block
    PROVE  /\ NamedAfter(b, Len(Txs[b])) = {}
           /\ NamedAfter(b, 0) = BlockIns(b) \cup BlockOuts(b)
           /\ \A n \in 1..Len(Txs[b]) :
                  NamedAfter(b, n - 1) = NamedAfter(b, n) \cup Txs[b][n].ins \cup Txs[b][n].outs
<1> DEFINE N == Len(Txs[b])
<1>1. N \in Nat /\ DOMAIN Txs[b] = 1..N
  BY BlockNames
<1>2. NamedAfter(b, N) = {}
  <2>1. (N + 1)..N = {}
    BY <1>1
  <2> QED
    BY <2>1 DEF NamedAfter
<1>3. NamedAfter(b, 0) = BlockIns(b) \cup BlockOuts(b)
  BY <1>1 DEF NamedAfter, BlockIns, BlockOuts
<1>4. ASSUME NEW n \in 1..N
      PROVE  NamedAfter(b, n - 1) = NamedAfter(b, n) \cup Txs[b][n].ins \cup Txs[b][n].outs
  <2>1. (n - 1 + 1)..N = {n} \cup (n + 1)..N
    BY <1>1
  <2> QED
    BY <2>1 DEF NamedAfter
<1> QED
  BY <1>2, <1>3, <1>4

\* DisconnectBlock (validation.cpp:1893-2003) with the block's undo data, on any
\* coins: the outpoints that the block names get the coins of the parent, the
\* others stay.  On the coins of the block the disconnect is clean.
THEOREM DisconnectBlockIs ==
    ASSUME NEW b \in Block \ {Genesis}, NEW base \in BaseView, NEW view \in SoundCaches(base)
    PROVE  /\ DisconnectBlock(view, base, b, UndoOf(b)).view \in SoundCaches(base)
           /\ \A o \in Outpoint : ViewOf(DisconnectBlock(view, base, b, UndoOf(b)).view, base)[o] =
                  IF o \in BlockIns(b) \cup BlockOuts(b) THEN Utxo[Parent[b]][o]
                  ELSE ViewOf(view, base)[o]
           /\ ViewOf(view, base) = Utxo[b] => DisconnectBlock(view, base, b, UndoOf(b)).clean
<1> DEFINE txs == Txs[b]
           N == Len(txs)
           undo == UndoOf(b)
           X == Undoing(base)
           x0 == [view |-> view, clean |-> TRUE]
           Tx(n) == txs[N - n + 1]
           st == [n \in 1..N |-> [x \in X |-> UndoTx(base, Height[b], undo, x, Tx(n))]]
           Step(f) == [n \in 0..N |-> IF n = 0 THEN x0
                                      ELSE UndoTx(base, Height[b], undo, f[n - 1], Tx(n))]
           F == CHOOSE f : f = Step(f)
<1>1. /\ N \in Nat /\ \A n \in 1..N : txs[n] \in Transaction
      /\ Height[b] \in CoinOrSpent /\ undo \in BaseView
  BY Zenon, BlockNames, AfterEnds, UndoOfIs DEF CoinOrSpent, undo
<1> HIDE DEF undo
<1>2. x0 \in X
  BY DEF Undoing, SoundCaches
<1>3. \A n \in 1..N : N - n + 1 \in 1..N /\ Tx(n) \in Transaction
  <2> HIDE DEF txs, N
  <2> QED
    BY <1>1
<1>4. \A n \in 1..N, x \in X :
          /\ UndoTx(base, Height[b], undo, x, Tx(n)) \in X
          /\ TxUndone(base, undo, Tx(n), x, UndoTx(base, Height[b], undo, x, Tx(n)))
          /\ UndoTx(base, Height[b], undo, x, Tx(n)).clean <=>
                 x.clean /\ TxUnspoiled(base, Height[b], Tx(n), x)
  <2> HIDE DEF Tx, N
  <2> QED
    BY Zenon, <1>1, <1>3, UndoTxIs
<1>5. PICK f \in [0..N -> X] : IsRun(f, x0, st, N)
  <2>1. StaysIn(X, st, N)
    BY Zenon, <1>4 DEF StaysIn
  <2>2. N \in Nat
    BY <1>1
  <2> HIDE DEF st, X, N, x0
  <2> QED
    BY <1>2, <2>1, <2>2, Steps
<1>6. f = Step(f)
  <2> HIDE DEF X, N, txs, x0, Tx
  <2>1. \A n \in 1..N : n - 1 \in 0..N
    BY <1>1
  <2>2. \A n \in 1..N : f[n - 1] \in X
    BY <1>5, <2>1
  <2>3. \A n \in 1..N : f[n] = UndoTx(base, Height[b], undo, f[n - 1], Tx(n))
    BY Zenon, <1>5, <2>2 DEF IsRun
  <2>4. \A n \in 0..N : f[n] = Step(f)[n]
    BY <1>1, <1>5, <2>3 DEF IsRun
  <2> QED
    BY <1>5, <2>4
<1>7. F = Step(F)
  BY Zenon, <1>6
<1>8. DisconnectBlock(view, base, b, undo) = F[N]
  BY DEF DisconnectBlock, undo
<1> HIDE DEF F, txs, N, Tx
<1>9. F[0] = x0 /\ \A n \in 1..N : F[n] = UndoTx(base, Height[b], undo, F[n - 1], Tx(n))
  <2>1. \A n \in 1..N : n \in 0..N /\ n # 0
    BY <1>1
  <2>2. 0 \in 0..N
    BY <1>1
  <2>3. \A n \in 0..N : F[n] = Step(F)[n]
    <3> HIDE DEF Step
    <3> QED
      BY <1>7
  <2>4. F[0] = x0
    BY Zenon, <2>2, <2>3
  <2>5. ASSUME NEW n \in 1..N
        PROVE  F[n] = UndoTx(base, Height[b], undo, F[n - 1], Tx(n))
    BY <2>1, <2>3
  <2> QED
    BY <2>4, <2>5
<1> DEFINE v0 == ViewOf(view, base)
           Coins(n, m) == \A o \in Outpoint :
               /\ ViewOf(F[n].view, base)[o] = IF o \in NamedAfter(b, m) THEN After(b, m)[o] ELSE v0[o]
               /\ v0 = Utxo[b] => ViewOf(F[n].view, base)[o] = After(b, m)[o]
           Done(n) == F[n] \in X /\ Coins(n, N - n) /\ (v0 = Utxo[b] => F[n].clean)
           S == {n \in 0..N : Done(n)}
<1>10. 0 \in S
  <2>1. NamedAfter(b, N) = {} /\ After(b, N) = Utxo[b]
    BY Zenon, NamedAfterIs, AfterEnds DEF N, txs
  <2>2. N - 0 = N /\ 0 \in 0..N
    BY <1>1
  <2>3. x0.view = view /\ x0.clean
    OBVIOUS
  <2>4. Coins(0, N)
    <3> HIDE DEF x0, v0
    <3> QED
      BY Zenon, <1>9, <2>1, <2>3 DEF v0
  <2> HIDE DEF X, x0, Coins, v0
  <2> QED
    BY Zenon, <1>2, <1>9, <2>2, <2>3, <2>4
<1>11. ASSUME NEW n \in 1..N, n - 1 \in S
       PROVE  n \in S
  <2> DEFINE m == N - n + 1
  <2>1. m \in 1..N /\ N - (n - 1) = m /\ N - n = m - 1 /\ n \in 0..N
    BY <1>1
  <2>2. Done(n - 1)
    BY Zenon, <1>11
  <2>3. Tx(n) = txs[m]
    BY DEF Tx
  <2> HIDE DEF X, Tx, m, v0, Coins
  <2>4. F[n] = UndoTx(base, Height[b], undo, F[n - 1], Tx(n))
    BY <1>9
  <2>5. /\ F[n] \in X /\ TxUndone(base, undo, txs[m], F[n - 1], F[n])
        /\ F[n].clean <=> F[n - 1].clean /\ TxUnspoiled(base, Height[b], txs[m], F[n - 1])
    <3>1. F[n - 1] \in X
      BY Zenon, <2>2
    <3>2. /\ F[n] \in X /\ TxUndone(base, undo, Tx(n), F[n - 1], F[n])
          /\ F[n].clean <=> F[n - 1].clean /\ TxUnspoiled(base, Height[b], Tx(n), F[n - 1])
      BY <1>4, <2>4, <3>1
    <3> QED
      BY Zenon, <2>3, <3>2
  <2>6. NamedAfter(b, m - 1) = NamedAfter(b, m) \cup txs[m].ins \cup txs[m].outs
    BY <2>1, NamedAfterIs DEF N, txs
  <2>7. \A o \in Outpoint :
            /\ After(b, m)[o] = IF o \in txs[m].outs THEN Height[b]
                                ELSE IF o \in txs[m].ins THEN Spent ELSE After(b, m - 1)[o]
            /\ o \in txs[m].ins => After(b, m - 1)[o] = undo[o] /\ o \notin txs[m].outs
            /\ o \in txs[m].outs => After(b, m - 1)[o] = Spent
    BY Zenon, <2>1, AfterStep DEF N, txs, undo
  <2>8. Coins(n - 1, m)
    BY <2>1, <2>2
  <2>9. Coins(n, m - 1)
    BY Zenon, <2>5, <2>6, <2>7, <2>8 DEF Coins, TxUndone
  <2>10. ASSUME v0 = Utxo[b]
         PROVE  F[n].clean
    <3>1. F[n - 1].clean
      BY Zenon, <2>2, <2>10
    <3>2. txs[m] \in Transaction
      BY <1>1, <2>1
    <3>3. txs[m].ins \subseteq Outpoint /\ txs[m].outs \subseteq Outpoint
      BY Zenon, <3>2 DEF Transaction
    <3>4. \A o \in Outpoint : ViewOf(F[n - 1].view, base)[o] = After(b, m)[o]
      BY Zenon, <2>8, <2>10 DEF Coins
    <3>5. TxUnspoiled(base, Height[b], txs[m], F[n - 1])
      BY <2>7, <3>3, <3>4 DEF TxUnspoiled
    <3> QED
      BY Zenon, <2>5, <3>1, <3>5
  <2> QED
    BY <2>1, <2>5, <2>9, <2>10
<1>12. Done(N)
  <2> HIDE DEF S
  <2>1. N \in Nat /\ N \in 0..N
    BY <1>1
  <2>2. \A n \in 1..N : n - 1 \in S => n \in S
    BY <1>11
  <2>3. N \in S
    BY Zenon, <1>10, <2>1, <2>2, UpTo
  <2> QED
    BY <2>3 DEF S
<1>13. N - N = 0 /\ NamedAfter(b, 0) = BlockIns(b) \cup BlockOuts(b) /\ After(b, 0) = Utxo[Parent[b]]
  BY <1>1, NamedAfterIs, AfterEnds
<1>14. F[N].view \in SoundCaches(base)
  BY <1>12 DEF Undoing, SoundCaches
<1> QED
  BY Zenon, <1>8, <1>12, <1>13, <1>14 DEF undo

-----------------------------------------------------------------------------
(* The branches of a replay.                                               *)

\* GetAncestor (chain.cpp:83-112) finds the ancestor at a height, and each is
\* the parent of the one above.
LEMMA GetAncestorIs ==
    ASSUME NEW b \in Block, NEW h \in Nat, h <= Height[b]
    PROVE  /\ GetAncestor(b, h) \in ChainTo[b] /\ GetAncestor(b, h) \in Block
           /\ Height[GetAncestor(b, h)] = h
           /\ \A a \in ChainTo[b] : Height[a] = h => a = GetAncestor(b, h)
           /\ h > 0 => /\ GetAncestor(b, h) # Genesis
                       /\ Parent[GetAncestor(b, h)] = GetAncestor(b, h - 1)
<1> DEFINE g == GetAncestor(b, h)
<1>1. \E a \in ChainTo[b] : Height[a] = h
  BY AncestorAt
<1>2. g \in ChainTo[b] /\ Height[g] = h
  BY <1>1 DEF GetAncestor
<1> HIDE DEF g
<1>3. g \in Block /\ \A a \in ChainTo[b] : Height[a] = h => a = g
  BY <1>2, ChainToStep, ChainAtHeight
<1>4. ASSUME h > 0
      PROVE  g # Genesis /\ Parent[g] = GetAncestor(b, h - 1)
  <2>1. g # Genesis
    BY <1>2, <1>4, GenesisChain
  <2>2. Parent[g] \in Block
    BY <1>3, <2>1, TreeAssumption
  <2>3. Parent[g] \in ChainTo[b]
    BY <1>2, <1>3, <2>2, ChainClosed, ChainToStep
  <2>4. Height[Parent[g]] = h - 1
    BY <1>2, <1>3, HeightStep
  <2>5. h - 1 \in Nat /\ h - 1 <= Height[b]
    BY <1>4, HeightType
  <2>6. \E a \in ChainTo[b] : Height[a] = h - 1
    BY <2>3, <2>4
  <2>7. GetAncestor(b, h - 1) \in ChainTo[b] /\ Height[GetAncestor(b, h - 1)] = h - 1
    BY <2>6 DEF GetAncestor
  <2> QED
    BY <2>1, <2>3, <2>4, <2>7, ChainAtHeight
<1> QED
  BY <1>2, <1>3, <1>4 DEF g

\* LastCommonAncestor (chain.cpp:151-167) is below both blocks.
LEMMA LastCommonAncestorIs ==
    ASSUME NEW a \in Block, NEW b \in Block
    PROVE  /\ LastCommonAncestor(a, b) \in ChainTo[a] \cap ChainTo[b]
           /\ LastCommonAncestor(a, b) \in Block
           /\ Height[LastCommonAncestor(a, b)] \in Nat
           /\ Height[LastCommonAncestor(a, b)] <= Height[a]
           /\ Height[LastCommonAncestor(a, b)] <= Height[b]
<1> DEFINE S == ChainTo[a] \cap ChainTo[b]
           f == LastCommonAncestor(a, b)
<1>1. S \subseteq ChainTo[a] /\ S # {}
  BY GenesisChain
<1>2. \E x \in S : \A y \in S : Height[y] <= Height[x]
  <2> HIDE DEF S
  <2> QED
    BY <1>1, HighestBlock
<1>3. f \in S
  BY <1>2 DEF LastCommonAncestor
<1> HIDE DEF f
<1>4. f \in ChainTo[a] /\ f \in ChainTo[b] /\ f \in Block
  BY <1>3, ChainToStep
<1> QED
  BY <1>4, ChainHeights, HeightType DEF f

\* With no old tip, ReplayBlocks goes up from the genesis block.
LEMMA BranchesFromNull ==
    ASSUME NEW d, NEW new \in Block, d.heads = <<new, Null>>
    PROVE  /\ OldBranch(d) = <<>> /\ NewBranch(d) \in Seq(Block)
           /\ PathOK(OldBranch(d), NewBranch(d), new)
           /\ At(OldBranch(d), NewBranch(d), new) = Genesis
           /\ \A i \in 1..Len(NewBranch(d)) : NewBranch(d)[i] \in ChainTo[new]
<1> DEFINE H == Height[new]
           back == OldBranch(d)
           forward == NewBranch(d)
<1>1. d.heads[1] = new /\ d.heads[2] = Null /\ ForkOf(d) = Null
  BY DEF ForkOf
<1>2. H \in Nat /\ Height[Null] = -1
  BY HeightType
<1>3. back = <<>>
  <2>1. 1..(Height[Null] - Height[Null]) = {}
    BY <1>2
  <2> QED
    BY <1>1, <2>1 DEF OldBranch
<1>4. forward = [i \in 1..H |-> GetAncestor(new, i)]
  <2>1. H - 0 = H /\ \A i \in 1..H : 0 + i = i
    BY <1>2
  <2> QED
    BY <1>1, <2>1 DEF NewBranch
<1>5. \A i \in 1..H :
          /\ GetAncestor(new, i) \in Block /\ GetAncestor(new, i) \in ChainTo[new]
          /\ GetAncestor(new, i) # Genesis
          /\ Parent[GetAncestor(new, i)] = GetAncestor(new, i - 1)
  BY <1>2, GetAncestorIs
<1>6. GetAncestor(new, H) = new /\ GetAncestor(new, 0) = Genesis
  BY <1>2, GetAncestorIs, GenesisChain, ChainToStep
<1> HIDE DEF H, back, forward
<1>7. forward \in Seq(Block) /\ Len(forward) = H /\ \A i \in 1..H : forward[i] = GetAncestor(new, i)
  BY <1>2, <1>4, <1>5
<1>8. PathOK(back, forward, new)
  <2>1. Len(back) = 0
    BY <1>3
  <2>2. \A i \in 1..H : forward[i] # Genesis
    BY <1>5, <1>7
  <2>3. ASSUME NEW i \in 1..H
        PROVE  forward[i] = IF i < H THEN Parent[forward[i + 1]] ELSE new
    <3>1. CASE i < H
      <4>1. i + 1 \in 1..H /\ (i + 1) - 1 = i
        BY <1>2, <3>1
      <4> QED
        BY <1>5, <1>7, <3>1, <4>1
    <3>2. CASE ~(i < H)
      BY <1>2, <1>6, <1>7, <3>2
    <3> QED
      BY <3>1, <3>2
  <2> QED
    BY <1>7, <2>1, <2>2, <2>3 DEF PathOK
<1>9. At(back, forward, new) = Genesis
  <2>1. CASE H = 0
    BY <1>3, <1>6, <1>7, <2>1 DEF At
  <2>2. CASE H # 0
    <3>1. 1 \in 1..H /\ 1 - 1 = 0
      BY <1>2, <2>2
    <3>2. forward # <<>> /\ Parent[forward[1]] = GetAncestor(new, 0)
      BY <1>5, <1>7, <3>1
    <3> QED
      BY <1>3, <1>6, <3>2 DEF At
  <2> QED
    BY <2>1, <2>2
<1> QED
  BY <1>3, <1>5, <1>7, <1>8, <1>9 DEF back, forward

\* With an old tip, ReplayBlocks goes down from it to the last common ancestor
\* and from there up to the new tip.
LEMMA BranchesFromBlock ==
    ASSUME NEW d, NEW new \in Block, NEW old \in Block, d.heads = <<new, old>>
    PROVE  /\ OldBranch(d) \in Seq(Block) /\ NewBranch(d) \in Seq(Block)
           /\ PathOK(OldBranch(d), NewBranch(d), new)
           /\ At(OldBranch(d), NewBranch(d), new) = old
           /\ \A i \in 1..Len(OldBranch(d)) : OldBranch(d)[i] \in ChainTo[old]
           /\ \A i \in 1..Len(NewBranch(d)) : NewBranch(d)[i] \in ChainTo[new]
<1> DEFINE f == ForkOf(d)
           H == Height[new] - Height[f]
           K == Height[old] - Height[f]
           back == OldBranch(d)
           forward == NewBranch(d)
           Up(i) == GetAncestor(new, Height[f] + i)
           Down(i) == GetAncestor(old, Height[old] - i + 1)
<1>1. d.heads[1] = new /\ d.heads[2] = old /\ old # Null /\ f = LastCommonAncestor(new, old)
  BY TreeAssumption DEF ForkOf
<1>2. /\ f \in ChainTo[new] /\ f \in ChainTo[old] /\ f \in Block /\ f # Null
      /\ Height[f] \in Nat /\ Height[f] <= Height[new] /\ Height[f] <= Height[old]
  <2>1. /\ LastCommonAncestor(new, old) \in ChainTo[new] \cap ChainTo[old]
        /\ LastCommonAncestor(new, old) \in Block
        /\ Height[LastCommonAncestor(new, old)] \in Nat
        /\ Height[LastCommonAncestor(new, old)] <= Height[new]
        /\ Height[LastCommonAncestor(new, old)] <= Height[old]
    BY LastCommonAncestorIs
  <2> HIDE DEF f
  <2>2. /\ f \in ChainTo[new] \cap ChainTo[old] /\ f \in Block
        /\ Height[f] \in Nat /\ Height[f] <= Height[new] /\ Height[f] <= Height[old]
    BY Zenon, <1>1, <2>1
  <2> QED
    BY <2>2, TreeAssumption
<1>3. back = [i \in 1..K |-> Down(i)]
  BY <1>1 DEF OldBranch
<1>4. forward = [i \in 1..H |-> Up(i)]
  BY <1>1, <1>2 DEF NewBranch
<1>5. Height[new] \in Nat /\ Height[old] \in Nat
  BY HeightType
<1> HIDE DEF f, back, forward
<1>6. H \in Nat /\ K \in Nat /\ Height[f] + H = Height[new] /\ Height[f] + K = Height[old]
  BY <1>2, <1>5
<1>7. ASSUME NEW i \in 1..H
      PROVE  /\ Up(i) \in Block /\ Up(i) \in ChainTo[new] /\ Up(i) # Genesis
             /\ Parent[Up(i)] = Up(i - 1)
  <2>1. /\ Height[f] + i \in Nat /\ Height[f] + i <= Height[new] /\ Height[f] + i > 0
        /\ Height[f] + (i - 1) = (Height[f] + i) - 1
    BY <1>2, <1>5, <1>6
  <2> QED
    BY <2>1, GetAncestorIs
<1>8. Up(H) = new /\ Up(0) = f
  <2>1. GetAncestor(new, Height[new]) = new
    BY <1>5, GetAncestorIs, ChainToStep
  <2>2. GetAncestor(new, Height[f]) = f
    BY <1>2, GetAncestorIs
  <2>3. Height[f] + H = Height[new] /\ Height[f] + 0 = Height[f]
    BY <1>2, <1>6
  <2> HIDE DEF H
  <2> QED
    BY <2>1, <2>2, <2>3
<1>9. ASSUME NEW i \in 1..K
      PROVE  /\ Down(i) \in Block /\ Down(i) \in ChainTo[old] /\ Down(i) # Genesis
             /\ Parent[Down(i)] = Down(i + 1)
  <2>1. /\ Height[old] - i + 1 \in Nat /\ Height[old] - i + 1 <= Height[old]
        /\ Height[old] - i + 1 > 0
        /\ Height[old] - (i + 1) + 1 = (Height[old] - i + 1) - 1
    BY <1>2, <1>5, <1>6
  <2> QED
    BY <2>1, GetAncestorIs
<1>10. Down(1) = old /\ Down(K + 1) = f
  <2>1. GetAncestor(old, Height[old]) = old
    BY <1>5, GetAncestorIs, ChainToStep
  <2>2. GetAncestor(old, Height[f]) = f
    BY <1>2, GetAncestorIs
  <2>3. Height[old] - 1 + 1 = Height[old] /\ Height[old] - (K + 1) + 1 = Height[f]
    BY <1>2, <1>5, <1>6
  <2> HIDE DEF K
  <2> QED
    BY <2>1, <2>2, <2>3
<1> HIDE DEF H, K, Up, Down
<1>11. forward \in Seq(Block) /\ Len(forward) = H /\ \A i \in 1..H : forward[i] = Up(i)
  BY <1>4, <1>6, <1>7
<1>12. back \in Seq(Block) /\ Len(back) = K /\ \A i \in 1..K : back[i] = Down(i)
  BY <1>3, <1>6, <1>9
<1>13. At(<<>>, forward, new) = f
  <2>1. CASE H = 0
    BY <1>8, <1>11, <2>1 DEF At
  <2>2. CASE H # 0
    <3>1. 1 \in 1..H /\ 1 - 1 = 0
      BY <1>6, <2>2
    <3>2. forward # <<>> /\ Parent[forward[1]] = Up(0)
      BY <1>7, <1>11, <3>1
    <3> QED
      BY <1>8, <3>2 DEF At
  <2> QED
    BY <2>1, <2>2
<1>14. At(back, forward, new) = old
  <2>1. CASE K = 0
    <3>1. back = <<>> /\ f = old
      BY <1>6, <1>10, <1>12, <2>1
    <3> QED
      BY <1>13, <3>1
  <2>2. CASE K # 0
    <3>1. 1 \in 1..K
      BY <1>6, <2>2
    <3>2. back # <<>> /\ back[1] = Down(1)
      BY <1>12, <3>1
    <3> QED
      BY <1>10, <3>2 DEF At
  <2> QED
    BY <2>1, <2>2
<1>15. ASSUME NEW i \in 1..K
       PROVE  Parent[back[i]] = IF i < K THEN back[i + 1] ELSE At(<<>>, forward, new)
  <2>1. CASE i < K
    <3>1. i + 1 \in 1..K
      BY <1>6, <2>1
    <3> QED
      BY <1>9, <1>12, <2>1, <3>1
  <2>2. CASE ~(i < K)
    <3>1. i + 1 = K + 1
      BY <1>6, <2>2
    <3> QED
      BY <1>9, <1>10, <1>12, <1>13, <2>2, <3>1
  <2> QED
    BY <2>1, <2>2
<1>16. ASSUME NEW i \in 1..H
       PROVE  forward[i] = IF i < H THEN Parent[forward[i + 1]] ELSE new
  <2>1. CASE i < H
    <3>1. i + 1 \in 1..H /\ (i + 1) - 1 = i
      BY <1>6, <2>1
    <3> QED
      BY <1>7, <1>11, <2>1, <3>1
  <2>2. CASE ~(i < H)
    BY <1>6, <1>8, <1>11, <2>2
  <2> QED
    BY <2>1, <2>2
<1>17. PathOK(back, forward, new)
  BY Zenon, <1>7, <1>9, <1>11, <1>12, <1>15, <1>16 DEF PathOK
<1> QED
  BY Zenon, <1>7, <1>9, <1>11, <1>12, <1>14, <1>17 DEF back, forward

\* Both cases together: the path starts where the coins are those of the old tip.
LEMMA BranchesAre ==
    ASSUME NEW d, NEW new \in Block, NEW old \in Block \cup {Null}, d.heads = <<new, old>>
    PROVE  /\ OldBranch(d) \in Seq(Block) /\ NewBranch(d) \in Seq(Block)
           /\ PathOK(OldBranch(d), NewBranch(d), new)
           /\ Utxo[At(OldBranch(d), NewBranch(d), new)] = Utxo[old]
           /\ \A i \in 1..Len(OldBranch(d)) : OldBranch(d)[i] \in ChainTo[old]
           /\ \A i \in 1..Len(NewBranch(d)) : NewBranch(d)[i] \in ChainTo[new]
<1>1. CASE old = Null
  <2>1. /\ OldBranch(d) = <<>> /\ NewBranch(d) \in Seq(Block)
        /\ PathOK(OldBranch(d), NewBranch(d), new)
        /\ At(OldBranch(d), NewBranch(d), new) = Genesis
        /\ \A i \in 1..Len(NewBranch(d)) : NewBranch(d)[i] \in ChainTo[new]
    BY Zenon, <1>1, BranchesFromNull
  <2>2. OldBranch(d) \in Seq(Block) /\ 1..Len(OldBranch(d)) = {}
    BY <2>1
  <2> QED
    BY Zenon, <1>1, <2>1, <2>2, UtxoStep
<1>2. CASE old \in Block
  BY <1>2, BranchesFromBlock
<1> QED
  BY Zenon, <1>1, <1>2

\* The first block of a path is left behind.
LEMMA PathBack ==
    ASSUME NEW back \in Seq(Block), NEW forward \in Seq(Block), NEW to \in Block,
           PathOK(back, forward, to), back # <<>>
    PROVE  /\ Head(back) \in Block \ {Genesis} /\ Tail(back) \in Seq(Block)
           /\ PathOK(Tail(back), forward, to)
           /\ At(back, forward, to) = Head(back)
           /\ At(Tail(back), forward, to) = Parent[Head(back)]
<1> DEFINE K == Len(back)
           t == Tail(back)
<1>1. /\ K \in Nat \ {0} /\ 1 \in 1..K /\ Head(back) = back[1] /\ back[1] \in Block
      /\ t \in Seq(Block) /\ Len(t) = K - 1 /\ \A i \in 1..(K - 1) : t[i] = back[i + 1]
  OBVIOUS
<1>2. /\ \A i \in 1..K : back[i] # Genesis
      /\ \A i \in 1..K : Parent[back[i]] = IF i < K THEN back[i + 1] ELSE At(<<>>, forward, to)
      /\ \A i \in 1..Len(forward) : forward[i] # Genesis
      /\ \A i \in 1..Len(forward) : forward[i] = IF i < Len(forward) THEN Parent[forward[i + 1]] ELSE to
  BY DEF PathOK
<1> HIDE DEF K, t
<1>3. \A i \in 1..(K - 1) : i + 1 \in 1..K /\ (i + 1 < K <=> i < K - 1)
  BY <1>1
<1>4. PathOK(t, forward, to)
  <2>1. \A i \in 1..Len(t) : t[i] # Genesis
    BY Zenon, <1>1, <1>2, <1>3
  <2>2. ASSUME NEW i \in 1..Len(t)
        PROVE  Parent[t[i]] = IF i < Len(t) THEN t[i + 1] ELSE At(<<>>, forward, to)
    <3>1. i \in 1..(K - 1) /\ t[i] = back[i + 1] /\ i + 1 \in 1..K /\ (i + 1 < K <=> i < Len(t))
      BY <1>1, <1>3, <2>2
    <3>2. i < Len(t) => i + 1 \in 1..(K - 1)
      BY <1>1, <3>1
    <3>3. i < Len(t) => t[i + 1] = back[(i + 1) + 1]
      BY <1>1, <3>2
    <3> QED
      BY <1>2, <3>1, <3>3
  <2> QED
    BY <1>2, <2>1, <2>2 DEF PathOK
<1>5. At(back, forward, to) = Head(back)
  BY <1>1 DEF At
<1>6. At(t, forward, to) = Parent[Head(back)]
  <2>1. CASE K = 1
    <3>1. t = <<>> /\ ~(1 < K)
      BY <1>1, <2>1
    <3> QED
      BY <1>1, <1>2, <3>1
  <2>2. CASE K # 1
    <3>1. 1 < K /\ 1 \in 1..(K - 1)
      BY <1>1, <2>2
    <3>2. t # <<>> /\ t[1] = back[1 + 1]
      BY <1>1, <3>1
    <3> QED
      BY <1>1, <1>2, <3>1, <3>2 DEF At
  <2> QED
    BY <2>1, <2>2
<1> QED
  BY Zenon, <1>1, <1>2, <1>4, <1>5, <1>6 DEF t

\* The first block of the way up is reached.
LEMMA PathForward ==
    ASSUME NEW forward \in Seq(Block), NEW to \in Block, PathOK(<<>>, forward, to), forward # <<>>
    PROVE  /\ Head(forward) \in Block \ {Genesis} /\ Tail(forward) \in Seq(Block)
           /\ PathOK(<<>>, Tail(forward), to)
           /\ At(<<>>, forward, to) = Parent[Head(forward)]
           /\ At(<<>>, Tail(forward), to) = Head(forward)
<1> DEFINE K == Len(forward)
           t == Tail(forward)
<1>1. /\ K \in Nat \ {0} /\ 1 \in 1..K /\ Head(forward) = forward[1] /\ forward[1] \in Block
      /\ t \in Seq(Block) /\ Len(t) = K - 1 /\ \A i \in 1..(K - 1) : t[i] = forward[i + 1]
  OBVIOUS
<1>2. /\ \A i \in 1..K : forward[i] # Genesis
      /\ \A i \in 1..K : forward[i] = IF i < K THEN Parent[forward[i + 1]] ELSE to
  BY DEF PathOK
<1> HIDE DEF K, t
<1>3. \A i \in 1..(K - 1) : i + 1 \in 1..K /\ (i + 1 < K <=> i < K - 1)
  BY <1>1
<1>4. PathOK(<<>>, t, to)
  <2>1. \A i \in 1..Len(t) : t[i] # Genesis
    BY <1>1, <1>2, <1>3
  <2>2. ASSUME NEW i \in 1..Len(t)
        PROVE  t[i] = IF i < Len(t) THEN Parent[t[i + 1]] ELSE to
    <3>1. i \in 1..(K - 1) /\ t[i] = forward[i + 1] /\ i + 1 \in 1..K /\ (i + 1 < K <=> i < Len(t))
      BY <1>1, <1>3, <2>2
    <3>2. i < Len(t) => i + 1 \in 1..(K - 1)
      BY <1>1, <3>1
    <3>3. i < Len(t) => t[i + 1] = forward[(i + 1) + 1]
      BY <1>1, <3>2
    <3> QED
      BY <1>2, <3>1, <3>3
  <2>3. 1..Len(<<>>) = {}
    OBVIOUS
  <2> QED
    BY <2>1, <2>2, <2>3 DEF PathOK
<1>5. At(<<>>, forward, to) = Parent[Head(forward)]
  BY <1>1 DEF At
<1>6. At(<<>>, t, to) = Head(forward)
  <2>1. CASE K = 1
    <3>1. t = <<>> /\ ~(1 < K)
      BY <1>1, <2>1
    <3> QED
      BY <1>1, <1>2, <3>1 DEF At
  <2>2. CASE K # 1
    <3>1. 1 < K /\ 1 \in 1..(K - 1)
      BY <1>1, <2>2
    <3>2. t # <<>> /\ t[1] = forward[1 + 1]
      BY <1>1, <3>1
    <3> QED
      BY <1>1, <1>2, <3>1, <3>2 DEF At
  <2> QED
    BY <2>1, <2>2
<1> QED
  BY <1>1, <1>2, <1>4, <1>5, <1>6 DEF t

\* A block undone, or applied again, on a mixture of its coins and those of the
\* new tip: what it names is set, and the rest does not differ.
LEMMA BackStep ==
    ASSUME NEW b \in Block \ {Genesis}, NEW to \in Block, NEW base \in BaseView,
           NEW view \in SoundCaches(base)
    PROVE  LET v == DisconnectBlock(view, base, b, UndoOf(b)).view
           IN  /\ v \in SoundCaches(base)
               /\ Between(ViewOf(view, base), b, to) => Between(ViewOf(v, base), Parent[b], to)
<1> DEFINE v == DisconnectBlock(view, base, b, UndoOf(b)).view
<1>1. /\ v \in SoundCaches(base)
      /\ \A o \in Outpoint : ViewOf(v, base)[o] = IF o \in BlockIns(b) \cup BlockOuts(b)
                                                  THEN Utxo[Parent[b]][o] ELSE ViewOf(view, base)[o]
  BY Zenon, DisconnectBlockIs
<1> HIDE DEF v
<1>2. \A o \in Outpoint : o \notin BlockIns(b) \cup BlockOuts(b) => Utxo[b][o] = Utxo[Parent[b]][o]
  BY Zenon, UtxoStep
<1>3. Between(ViewOf(view, base), b, to) => Between(ViewOf(v, base), Parent[b], to)
  BY Zenon, <1>1, <1>2 DEF Between
<1> QED
  BY Zenon, <1>1, <1>3 DEF v

\* The same on the way up.
LEMMA ForwardStep ==
    ASSUME NEW b \in Block \ {Genesis}, NEW to \in Block, NEW base \in BaseView,
           NEW view \in SoundCaches(base)
    PROVE  LET v == RollforwardBlock(view, base, b)
           IN  /\ v \in SoundCaches(base)
               /\ Between(ViewOf(view, base), Parent[b], to) => Between(ViewOf(v, base), b, to)
<1> DEFINE v == RollforwardBlock(view, base, b)
<1>1. /\ v \in SoundCaches(base)
      /\ \A o \in Outpoint : ViewOf(v, base)[o] = IF o \in BlockIns(b) \cup BlockOuts(b)
                                                  THEN Utxo[b][o] ELSE ViewOf(view, base)[o]
  BY Zenon, RollforwardBlockIs
<1> HIDE DEF v
<1>2. \A o \in Outpoint : o \notin BlockIns(b) \cup BlockOuts(b) => Utxo[b][o] = Utxo[Parent[b]][o]
  BY Zenon, UtxoStep
<1>3. Between(ViewOf(view, base), Parent[b], to) => Between(ViewOf(v, base), b, to)
  BY Zenon, <1>1, <1>2 DEF Between
<1> QED
  BY Zenon, <1>1, <1>3 DEF v

\* A mixture of the coins of a block with themselves.
LEMMA BetweenSame ==
    ASSUME NEW v \in BaseView, NEW b \in Block \cup {Null}
    PROVE  Between(v, b, b) <=> v = Utxo[b]
<1>1. Utxo[b] \in BaseView
  BY UtxoStep
<1>2. Between(v, b, b) => v = Utxo[b]
  <2> SUFFICES ASSUME Between(v, b, b) PROVE v = Utxo[b]
    OBVIOUS
  <2>1. \A o \in Outpoint : v[o] = Utxo[b][o]
    BY DEF Between
  <2> QED
    BY <1>1, <2>1, SameView
<1>3. v = Utxo[b] => Between(v, b, b)
  BY DEF Between
<1> QED
  BY <1>2, <1>3

\* The caches that the way down goes through.
UndoneRun(base, back, undo) ==
    CHOOSE f : f = [n \in 0..Len(back) |->
        IF n = 0 THEN EmptyCache
        ELSE DisconnectBlock(f[n - 1], base, back[n], undo[back[n]]).view]

\* The way down of ReplayBlocks (validation.cpp:4854-4877), as one function.
LEMMA UndoneIs ==
    ASSUME NEW back \in Seq(Block), NEW forward \in Seq(Block), NEW to \in Block,
           PathOK(back, forward, to), NEW base \in BaseView,
           Between(base, At(back, forward, to), to),
           NEW undo, \A i \in 1..Len(back) : undo[back[i]] = UndoOf(back[i])
    PROVE  /\ UndoneRun(base, back, undo)[Len(back)] \in SoundCaches(base)
           /\ Between(ViewOf(UndoneRun(base, back, undo)[Len(back)], base), At(<<>>, forward, to), to)
<1> DEFINE F == UndoneRun(base, back, undo)
           N == Len(back)
           X == SoundCaches(base)
           S1(n, x) == DisconnectBlock(x, base, back[n], undo[back[n]]).view
           st == [n \in 1..N |-> [x \in X |-> S1(n, x)]]
           Step(f) == [n \in 0..N |-> IF n = 0 THEN EmptyCache ELSE S1(n, f[n - 1])]
           pos(n) == IF n < N THEN back[n + 1] ELSE At(<<>>, forward, to)
<1>1. /\ N \in Nat
      /\ \A n \in 1..N : /\ back[n] \in Block \ {Genesis} /\ undo[back[n]] = UndoOf(back[n])
                         /\ Parent[back[n]] = pos(n)
  BY DEF PathOK
<1>2. EmptyCache \in X /\ ViewOf(EmptyCache, base) = base
  BY Zenon, EmptyCacheIs DEF SoundCaches
<1>3. ASSUME NEW n \in 1..N, NEW x \in X
      PROVE  /\ S1(n, x) \in X
             /\ Between(ViewOf(x, base), back[n], to) => Between(ViewOf(S1(n, x), base), pos(n), to)
  <2> DEFINE b == back[n]
  <2>1. b \in Block \ {Genesis} /\ S1(n, x) = DisconnectBlock(x, base, b, UndoOf(b)).view
    BY <1>1
  <2>2. Parent[b] = pos(n)
    BY <1>1
  <2> HIDE DEF b, S1, pos
  <2>3. /\ S1(n, x) \in X
        /\ Between(ViewOf(x, base), b, to) => Between(ViewOf(S1(n, x), base), Parent[b], to)
    BY Zenon, <2>1, BackStep
  <2> QED
    BY Zenon, <2>2, <2>3 DEF b
<1>4. PICK f \in [0..N -> X] : IsRun(f, EmptyCache, st, N)
  <2>1. StaysIn(X, st, N)
    BY <1>3 DEF StaysIn
  <2>2. N \in Nat
    BY <1>1
  <2> HIDE DEF st, X, N
  <2> QED
    BY Zenon, <1>2, <2>1, <2>2, Steps
<1>5. f = Step(f)
  <2> HIDE DEF X, N, S1
  <2>1. \A n \in 1..N : n - 1 \in 0..N
    BY <1>1
  <2>2. \A n \in 1..N : f[n - 1] \in X
    BY <1>4, <2>1
  <2>3. \A n \in 1..N : f[n] = S1(n, f[n - 1])
    BY Zenon, <1>4, <2>2 DEF IsRun
  <2>4. \A n \in 0..N : f[n] = Step(f)[n]
    BY <1>1, <1>4, <2>3 DEF IsRun
  <2> QED
    BY Zenon, <1>4, <2>4
<1>6. F = Step(F)
  BY Zenon, <1>5 DEF UndoneRun
<1> HIDE DEF F, N, S1
<1>7. F[0] = EmptyCache /\ \A n \in 1..N : F[n] = S1(n, F[n - 1])
  <2>1. \A n \in 1..N : n \in 0..N /\ n # 0
    BY <1>1
  <2>2. 0 \in 0..N
    BY <1>1
  <2>3. \A n \in 0..N : F[n] = Step(F)[n]
    <3> HIDE DEF Step
    <3> QED
      BY Zenon, <1>6
  <2>4. F[0] = EmptyCache
    BY Zenon, <2>2, <2>3
  <2>5. ASSUME NEW n \in 1..N
        PROVE  F[n] = S1(n, F[n - 1])
    BY Zenon, <2>1, <2>3
  <2> QED
    BY Zenon, <2>4, <2>5
<1> DEFINE Done(n) == F[n] \in X /\ Between(ViewOf(F[n], base), pos(n), to)
           S == {n \in 0..N : Done(n)}
<1>8. 0 \in S
  <2>1. pos(0) = At(back, forward, to)
    <3>1. CASE N = 0
      <4>1. back = <<>>
        BY <3>1 DEF N
      <4> QED
        BY <3>1, <4>1
    <3>2. CASE N # 0
      <4>1. back # <<>> /\ 0 < N /\ 0 + 1 = 1
        BY <1>1, <3>2 DEF N
      <4> QED
        BY <4>1 DEF At
    <3> QED
      BY <3>1, <3>2
  <2>2. 0 \in 0..N
    BY <1>1
  <2> HIDE DEF X, pos
  <2> QED
    BY Zenon, <1>2, <1>7, <2>1, <2>2
<1>9. ASSUME NEW n \in 1..N, n - 1 \in S
      PROVE  n \in S
  <2>1. Done(n - 1) /\ n \in 0..N
    BY <1>1, <1>9
  <2>2. pos(n - 1) = back[n]
    <3>1. n - 1 < N /\ (n - 1) + 1 = n
      BY <1>1
    <3> QED
      BY <3>1
  <2> HIDE DEF X, pos
  <2> QED
    BY Zenon, <1>3, <1>7, <2>1, <2>2
<1>10. Done(N)
  <2> HIDE DEF S
  <2>1. N \in Nat /\ N \in 0..N
    BY <1>1
  <2>2. \A n \in 1..N : n - 1 \in S => n \in S
    BY <1>9
  <2>3. N \in S
    BY Zenon, <1>8, <2>1, <2>2, UpTo
  <2> QED
    BY <2>3 DEF S
<1>11. pos(N) = At(<<>>, forward, to)
  BY <1>1
<1> QED
  BY <1>10, <1>11 DEF F, N

\* The caches that the way up goes through.
RedoneRun(base, view, forward) ==
    CHOOSE f : f = [n \in 0..Len(forward) |->
        IF n = 0 THEN view ELSE RollforwardBlock(f[n - 1], base, forward[n])]

\* The way up (validation.cpp:4879-4886), as one function.
LEMMA RedoneIs ==
    ASSUME NEW forward \in Seq(Block), NEW to \in Block, PathOK(<<>>, forward, to),
           NEW base \in BaseView, NEW view \in SoundCaches(base),
           Between(ViewOf(view, base), At(<<>>, forward, to), to)
    PROVE  /\ RedoneRun(base, view, forward)[Len(forward)] \in SoundCaches(base)
           /\ ViewOf(RedoneRun(base, view, forward)[Len(forward)], base) = Utxo[to]
<1> DEFINE F == RedoneRun(base, view, forward)
           N == Len(forward)
           X == SoundCaches(base)
           S1(n, x) == RollforwardBlock(x, base, forward[n])
           st == [n \in 1..N |-> [x \in X |-> S1(n, x)]]
           Step(f) == [n \in 0..N |-> IF n = 0 THEN view ELSE S1(n, f[n - 1])]
           pos(n) == IF n < N THEN Parent[forward[n + 1]] ELSE to
<1>1. /\ N \in Nat
      /\ \A n \in 1..N : forward[n] \in Block \ {Genesis} /\ forward[n] = pos(n)
  BY DEF PathOK
<1>2. view \in X
  OBVIOUS
<1>3. ASSUME NEW n \in 1..N, NEW x \in X
      PROVE  /\ S1(n, x) \in X
             /\ Between(ViewOf(x, base), Parent[forward[n]], to) => Between(ViewOf(S1(n, x), base), pos(n), to)
  <2> DEFINE b == forward[n]
  <2>1. b \in Block \ {Genesis} /\ S1(n, x) = RollforwardBlock(x, base, b)
    BY Zenon, <1>1
  <2>2. b = pos(n)
    BY <1>1
  <2> HIDE DEF b, S1, pos
  <2>3. /\ S1(n, x) \in X
        /\ Between(ViewOf(x, base), Parent[b], to) => Between(ViewOf(S1(n, x), base), b, to)
    BY Zenon, <2>1, ForwardStep
  <2> QED
    BY Zenon, <2>2, <2>3 DEF b
<1>4. PICK f \in [0..N -> X] : IsRun(f, view, st, N)
  <2>1. StaysIn(X, st, N)
    BY Zenon, <1>3 DEF StaysIn
  <2>2. N \in Nat
    BY Zenon, <1>1
  <2> HIDE DEF st, X, N
  <2> QED
    BY Zenon, <1>2, <2>1, <2>2, Steps
<1>5. f = Step(f)
  <2> HIDE DEF X, N, S1
  <2>1. \A n \in 1..N : n - 1 \in 0..N
    BY <1>1
  <2>2. \A n \in 1..N : f[n - 1] \in X
    BY <1>4, <2>1
  <2>3. \A n \in 1..N : f[n] = S1(n, f[n - 1])
    BY Zenon, <1>4, <2>2 DEF IsRun
  <2>4. \A n \in 0..N : n = 0 \/ n \in 1..N
    BY <1>1
  <2>5. \A n \in 0..N : f[n] = Step(f)[n]
    BY Zenon, <1>4, <2>3, <2>4 DEF IsRun
  <2> QED
    BY Zenon, <1>4, <2>5
<1>6. F = Step(F)
  BY Zenon, <1>5 DEF RedoneRun
<1> HIDE DEF F, N, S1
<1>7. F[0] = view /\ \A n \in 1..N : F[n] = S1(n, F[n - 1])
  <2>1. \A n \in 1..N : n \in 0..N /\ n # 0
    BY <1>1
  <2>2. 0 \in 0..N
    BY <1>1
  <2>3. \A n \in 0..N : F[n] = Step(F)[n]
    <3> HIDE DEF Step
    <3> QED
      BY Zenon, <1>6
  <2>4. F[0] = view
    BY Zenon, <2>2, <2>3
  <2>5. ASSUME NEW n \in 1..N
        PROVE  F[n] = S1(n, F[n - 1])
    BY Zenon, <2>1, <2>3
  <2> QED
    BY Zenon, <2>4, <2>5
<1> DEFINE Done(n) == F[n] \in X /\ Between(ViewOf(F[n], base), pos(n), to)
           S == {n \in 0..N : Done(n)}
<1>8. 0 \in S
  <2>1. pos(0) = At(<<>>, forward, to)
    <3>1. CASE N = 0
      <4>1. forward = <<>>
        BY <3>1 DEF N
      <4> QED
        BY <3>1, <4>1 DEF At
    <3>2. CASE N # 0
      <4>1. forward # <<>> /\ 0 < N /\ 0 + 1 = 1
        BY <1>1, <3>2 DEF N
      <4> QED
        BY <4>1 DEF At
    <3> QED
      BY <3>1, <3>2
  <2>2. 0 \in 0..N
    BY <1>1
  <2> HIDE DEF X, pos
  <2> QED
    BY <1>2, <1>7, <2>1, <2>2
<1>9. ASSUME NEW n \in 1..N, n - 1 \in S
      PROVE  n \in S
  <2>1. Done(n - 1)
    BY Zenon, <1>9
  <2>2. n \in 0..N
    BY <1>1
  <2>3. pos(n - 1) = Parent[forward[n]]
    <3>1. n - 1 < N /\ (n - 1) + 1 = n
      BY <1>1
    <3> QED
      BY <3>1
  <2> HIDE DEF X, pos
  <2> QED
    BY Zenon, <1>3, <1>7, <2>1, <2>2, <2>3
<1>10. Done(N)
  <2> HIDE DEF S
  <2>1. N \in Nat /\ N \in 0..N
    BY <1>1
  <2>2. \A n \in 1..N : n - 1 \in S => n \in S
    BY <1>9
  <2>3. N \in S
    BY Zenon, <1>8, <2>1, <2>2, UpTo
  <2> QED
    BY <2>3 DEF S
<1>11. pos(N) = to
  BY <1>1
<1>12. ViewOf(F[N], base) = Utxo[to]
  <2>1. F[N] \in Cache
    BY Zenon, <1>10 DEF SoundCaches
  <2>2. ViewOf(F[N], base) \in BaseView
    BY <2>1, ViewOfIs
  <2> HIDE DEF pos
  <2> QED
    BY Zenon, <1>10, <1>11, <2>2, BetweenSame
<1> QED
  BY Zenon, <1>10, <1>12 DEF F, N

\* ReplayBlocks (validation.cpp:4829-4892) on a database whose coins are each
\* those of one of its two heads, in any mixture, leaves exactly the coins of the
\* new head, given the undo data of the blocks to undo.
THEOREM ReplayedIs ==
    ASSUME NEW d, NEW new \in Block, NEW old \in Block \cup {Null}, d.heads = <<new, old>>,
           d.coins \in BaseView, Between(d.coins, new, old),
           NEW undo, \A i \in 1..Len(OldBranch(d)) : undo[OldBranch(d)[i]] = UndoOf(OldBranch(d)[i])
    PROVE  DbAfterBatch(d.coins, Replayed(d, undo)) = Utxo[new]
<1> DEFINE back == OldBranch(d)
           forward == NewBranch(d)
           base == d.coins
           F == UndoneRun(base, back, undo)
           v == F[Len(back)]
           G == RedoneRun(base, v, forward)
<1>1. /\ back \in Seq(Block) /\ forward \in Seq(Block)
      /\ PathOK(back, forward, new) /\ Utxo[At(back, forward, new)] = Utxo[old]
  BY Zenon, BranchesAre
<1>2. Replayed(d, undo) = G[Len(forward)]
  BY DEF Replayed, UndoneRun, RedoneRun
<1>3. \A i \in 1..Len(back) : undo[back[i]] = UndoOf(back[i])
  OBVIOUS
<1>4. base \in BaseView /\ Between(base, At(back, forward, new), new)
  BY <1>1 DEF Between
<1>5. forward \in Seq(Block) /\ base \in BaseView
  BY <1>1, <1>4
<1> HIDE DEF back, forward, base
<1>6. v \in SoundCaches(base) /\ Between(ViewOf(v, base), At(<<>>, forward, new), new)
  BY Zenon, <1>1, <1>3, <1>4, UndoneIs
<1> HIDE DEF v, F
<1>7. PathOK(<<>>, forward, new)
  <2>1. 1..Len(<<>>) = {}
    OBVIOUS
  <2> QED
    BY <1>1, <2>1 DEF PathOK
<1>8. /\ G[Len(forward)] \in SoundCaches(base)
      /\ ViewOf(G[Len(forward)], base) = Utxo[new]
  BY Zenon, <1>5, <1>6, <1>7, RedoneIs
<1> HIDE DEF G
<1> QED
  BY Zenon, <1>2, <1>4, <1>8, DbAfterBatchIs DEF base, SoundCaches

=============================================================================
