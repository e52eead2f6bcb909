----------------------------- MODULE CoinsViews -----------------------------
(***************************************************************************)
(* The stack of coin views of a running node: the coin database            *)
(* (CCoinsViewDB), the cache of the active chain over it (pcoinsTip) and   *)
(* the scratch cache a block is connected or disconnected in (`view` of    *)
(* ConnectTip, DisconnectTip, TestBlockValidity and VerifyDB), which is    *)
(* flushed into pcoinsTip or dropped.                                      *)
(*                                                                         *)
(* cs_main serialises the users: while a scratch view is open only its     *)
(* owner runs, and it reaches pcoinsTip through the view.  The database    *)
(* write is one step here; module ChainRecovery splits it.                 *)
(***************************************************************************)
EXTENDS CoinsCache

CONSTANTS
    Block,      \* block hashes
    Null        \* the null hash

VARIABLES
    db,         \* coins in the database
    dbBest,     \* DB_BEST_BLOCK
    tip,        \* pcoinsTip->cacheCoins
    tipHash,    \* pcoinsTip->hashBlock, Null until asked for or set
    view,       \* cacheCoins of the scratch view
    viewHash,   \* hashBlock of the scratch view
    phase,      \* "closed", "open", or "done" after SetBestBlock
    thrown      \* a std::logic_error was thrown

vars == <<db, dbBest, tip, tipHash, view, viewHash, phase, thrown>>

ASSUME NullIsNoBlock == Null \notin Block

\* pcoinsTip as a base view, and the scratch view on top of it.
TipView == ViewOf(tip, db)

ScratchView == ViewOf(view, TipView)

\* GetBestBlock asks the base while hashBlock is null.
TipBestBlock == IF tipHash = Null THEN dbBest ELSE tipHash

ViewBestBlock == IF viewHash = Null THEN TipBestBlock ELSE viewHash

TypeOK ==
    /\ db \in BaseView
    /\ dbBest \in Block \cup {Null}
    /\ tip \in Cache
    /\ tipHash \in Block \cup {Null}
    /\ view \in Cache
    /\ viewHash \in Block \cup {Null}
    /\ phase \in {"closed", "open", "done"}
    /\ thrown \in BOOLEAN

\* Start-up over whatever the database holds; a database without a best block
\* has no coins.
Init ==
    /\ dbBest \in Block \cup {Null}
    /\ db \in BaseView
    /\ dbBest = Null => db = [o \in Outpoint |-> Spent]
    /\ tip = EmptyCache
    /\ tipHash = Null
    /\ view = EmptyCache
    /\ viewHash = Null
    /\ phase = "closed"
    /\ thrown = FALSE

-----------------------------------------------------------------------------
(* A miss in the scratch view asks pcoinsTip, which caches the answer too. *)
FetchIntoTip(o) ==
    tip' = IF view[o] = NoEntry THEN FetchCoin(tip, db, o) ELSE tip

\* CCoinsViewCache view(pcoinsTip), and the assertion on view.GetBestBlock()
\* that ConnectBlock and DisconnectTip start with: the hash is cached at both
\* levels.
OpenView ==
    /\ phase = "closed"
    /\ phase' = "open"
    /\ tipHash' = TipBestBlock
    /\ viewHash' = TipBestBlock
    /\ UNCHANGED <<db, dbBest, tip, view, thrown>>

\* HaveCoin, AccessCoin or GetCoin through the scratch view.
ViewFetch(o) ==
    /\ phase = "open"
    /\ FetchIntoTip(o)
    /\ view' = FetchCoin(view, TipView, o)
    /\ UNCHANGED <<db, dbBest, tipHash, viewHash, phase, thrown>>

\* UpdateCoins spends an input, DisconnectBlock takes an output back.
ViewSpend(o) ==
    /\ phase = "open"
    /\ FetchIntoTip(o)
    /\ view' = SpendCoin(view, TipView, o)
    /\ UNCHANGED <<db, dbBest, tipHash, viewHash, phase, thrown>>

\* AddCoins and ApplyTxInUndo.  The caller passes possible_overwrite = false
\* only for a coin that is not unspent: the output of a new non-coinbase
\* transaction, or an input HaveCoin has just reported missing.
ViewAdd(o, c, overwrite) ==
    /\ phase = "open"
    /\ ~overwrite => ScratchView[o] = Spent
    /\ thrown' = (thrown \/ AddCoinThrows(view, o, overwrite))
    /\ view' = AddCoin(view, o, c, overwrite)
    /\ UNCHANGED <<db, dbBest, tip, tipHash, viewHash, phase>>

\* SetBestBlock ends ConnectBlock and DisconnectBlock.
ViewSetBestBlock(b) ==
    /\ phase = "open"
    /\ phase' = "done"
    /\ viewHash' = b
    /\ UNCHANGED <<db, dbBest, tip, tipHash, view, thrown>>

\* FlushView: the view is merged into pcoinsTip, then goes out of scope.
ViewFlush ==
    /\ phase = "done"
    /\ phase' = "closed"
    /\ thrown' = (thrown \/ BatchWriteThrows(tip, view))
    /\ tip' = BatchWrite(tip, view)
    /\ tipHash' = viewHash
    /\ view' = EmptyCache
    /\ viewHash' = Null
    /\ UNCHANGED <<db, dbBest>>

\* The view goes out of scope unflushed: an invalid block, TestBlockValidity
\* or VerifyDB.
ViewDrop ==
    /\ phase \in {"open", "done"}
    /\ phase' = "closed"
    /\ view' = EmptyCache
    /\ viewHash' = Null
    /\ UNCHANGED <<db, dbBest, tip, tipHash, thrown>>

\* Mempool acceptance looks inputs up in pcoinsTip.
TipFetch(o) ==
    /\ phase = "closed"
    /\ tip' = FetchCoin(tip, db, o)
    /\ UNCHANGED <<db, dbBest, tipHash, view, viewHash, phase, thrown>>

\* A rejected transaction's inputs are evicted again.
TipUncache(o) ==
    /\ phase = "closed"
    /\ tip' = Uncache(tip, o)
    /\ UNCHANGED <<db, dbBest, tipHash, view, viewHash, phase, thrown>>

\* FlushStateToDisk writes pcoinsTip once it stands for some block.
TipFlush ==
    /\ phase = "closed"
    /\ TipBestBlock # Null
    /\ db' = DbAfterBatch(db, tip)
    /\ dbBest' = TipBestBlock
    /\ tipHash' = TipBestBlock
    /\ tip' = EmptyCache
    /\ UNCHANGED <<view, viewHash, phase, thrown>>

Next ==
    \/ OpenView
    \/ \E o \in Outpoint : ViewFetch(o) \/ ViewSpend(o) \/ TipFetch(o) \/ TipUncache(o)
    \/ \E o \in Outpoint, c \in Coin, overwrite \in BOOLEAN : ViewAdd(o, c, overwrite)
    \/ \E b \in Block : ViewSetBestBlock(b)
    \/ ViewFlush
    \/ ViewDrop
    \/ TipFlush

Spec == Init /\ [][Next]_vars

-----------------------------------------------------------------------------
(* The meaning coins.h gives the flags, of a cache over its base: an entry *)
(* that is not DIRTY agrees with the base, and the base has no unspent     *)
(* coin under a FRESH entry.                                               *)
FlagsMeanWhatTheySay(cache, base) ==
    \A o \in Outpoint : cache[o] # NoEntry =>
        /\ ~cache[o].dirty => cache[o].coin = base[o]
        /\ cache[o].fresh => base[o] = Spent

\* Both caches keep their flags truthful through every sequence of fetches,
\* additions, spends, evictions, flushes and drops (coins.h:112-113).
FlagsSound ==
    /\ FlagsMeanWhatTheySay(tip, db)
    /\ FlagsMeanWhatTheySay(view, TipView)

\* A pruned entry is kept only while a base still has to be told: FRESH pruned
\* entries are dropped instead (coins.cpp:105-110, 155, 179-184).
PrunedNeedsFlush ==
    \A o \in Outpoint :
        /\ tip[o] # NoEntry /\ tip[o].coin = Spent => tip[o].dirty /\ ~tip[o].fresh
        /\ view[o] # NoEntry /\ view[o].coin = Spent => view[o].dirty /\ ~view[o].fresh

\* Neither std::logic_error of AddCoin and BatchWrite is ever thrown
\* (coins.cpp:78, 175).
NoLogicError == ~thrown

\* The stack behaves as three plain coin sets: no cached, evicted or merged
\* entry is ever visible to GetCoin as anything but the last value written.
Layers == INSTANCE UtxoLayers WITH
    CoinOrSpent <- CoinOrSpent,
    view <- [coins |-> ScratchView, best |-> ViewBestBlock],
    tip  <- [coins |-> TipView, best |-> TipBestBlock],
    disk <- [coins |-> db, best |-> dbBest]

\* The caches implement the plain coin sets of UtxoLayers (coins.cpp:40-217).
ImplementsLayers == Layers!Spec

=============================================================================
