----------------------------- MODULE CoinsCache -----------------------------
(***************************************************************************)
(* CCoinsViewCache (coins.h, coins.cpp): a write-back cache of coins over  *)
(* a base view, as operators on cache contents.                            *)
(*                                                                         *)
(* A cache is a function from outpoints to entries, NoEntry where          *)
(* cacheCoins has no key.  A base view is a function from outpoints to     *)
(* what base->GetCoin answers: a coin, or Spent when it returns false.     *)
(* The two bits of CCoinsCacheEntry::flags are the fields dirty and fresh. *)
(***************************************************************************)

CONSTANTS
    Outpoint,   \* COutPoint
    Coin,       \* unspent coins
    Spent,      \* a coin whose IsSpent() is true, and "not found"
    NoEntry     \* no key in cacheCoins

CoinOrSpent == Coin \cup {Spent}

Entry == [coin : CoinOrSpent, dirty : BOOLEAN, fresh : BOOLEAN]

Cache == [Outpoint -> Entry \cup {NoEntry}]

BaseView == [Outpoint -> CoinOrSpent]

ASSUME SpentIsNoCoin == Spent \notin Coin

ASSUME NoEntryIsNoEntry == NoEntry \notin Entry

EmptyCache == [o \in Outpoint |-> NoEntry]

\* The entry cacheCoins.emplace(outpoint) finds or default-constructs.
EntryAt(cache, o) ==
    IF cache[o] = NoEntry
    THEN [coin |-> Spent, dirty |-> FALSE, fresh |-> FALSE]
    ELSE cache[o]

\* What GetCoin, AccessCoin and HaveCoin of the cache answer.
ViewOf(cache, base) ==
    [o \in Outpoint |-> IF cache[o] = NoEntry THEN base[o] ELSE cache[o].coin]

\* A miss copies the coin of the base in; nothing is cached when the base has
\* none.  Both kinds of base answer true only for an unspent coin, so an entry
\* is never fetched as FRESH.
FetchCoin(cache, base, o) ==
    IF cache[o] = NoEntry /\ base[o] # Spent
    THEN [cache EXCEPT ![o] = [coin |-> base[o], dirty |-> FALSE, fresh |-> FALSE]]
    ELSE cache

\* Replacing an unspent coin without possible_overwrite is a logic_error.
AddCoinThrows(cache, o, overwrite) ==
    ~overwrite /\ EntryAt(cache, o).coin # Spent

\* Mutant: FRESH without looking at DIRTY.
AddCoinAlwaysFresh(cache, o, coin, overwrite) ==
    [cache EXCEPT ![o] = [coin |-> coin, dirty |-> TRUE, fresh |-> ~overwrite]]

\* A coin added over a pruned entry is FRESH unless that entry is DIRTY.
AddCoin(cache, o, coin, overwrite) ==
    [cache EXCEPT ![o] =
        [coin  |-> coin,
         dirty |-> TRUE,
         fresh |-> \/ EntryAt(cache, o).fresh
                   \/ ~overwrite /\ ~EntryAt(cache, o).dirty]]

\* Mutant: no Clear() after the coin was moved out, so the entry holds what is
\* left of it.
SpendCoinMovedFrom(cache, base, o) ==
    LET c == FetchCoin(cache, base, o)
    IN  CASE c[o] = NoEntry -> c
          [] c[o] # NoEntry /\ c[o].fresh -> [c EXCEPT ![o] = NoEntry]
          [] OTHER -> [c EXCEPT ![o] = [coin |-> NoEntry, dirty |-> TRUE, fresh |-> FALSE]]

\* Mutant: FRESH entries are kept as pruned ones.
SpendCoinKeepsFresh(cache, base, o) ==
    LET c == FetchCoin(cache, base, o)
    IN  IF c[o] = NoEntry THEN c
        ELSE [c EXCEPT ![o] = [coin |-> Spent, dirty |-> TRUE, fresh |-> c[o].fresh]]

\* A FRESH entry disappears; any other stays as a DIRTY pruned one.
SpendCoin(cache, base, o) ==
    LET c == FetchCoin(cache, base, o)
    IN  CASE c[o] = NoEntry -> c
          [] c[o] # NoEntry /\ c[o].fresh -> [c EXCEPT ![o] = NoEntry]
          [] OTHER -> [c EXCEPT ![o] = [coin |-> Spent, dirty |-> TRUE, fresh |-> FALSE]]

\* A child entry that BatchWrite has to apply.
ToApply(child, o) == child[o] # NoEntry /\ child[o].dirty

\* The child claims FRESH over a parent that holds the coin unspent.
BatchWriteThrows(parent, child) ==
    \E o \in Outpoint :
        /\ ToApply(child, o)
        /\ child[o].fresh
        /\ parent[o] # NoEntry
        /\ parent[o].coin # Spent

\* Mutant: the FRESH flag of the child is copied onto an entry the parent has.
MergeEntryCopyFresh(up, e) ==
    CASE up = NoEntry /\ e.fresh /\ e.coin = Spent -> NoEntry
      [] up = NoEntry /\ ~(e.fresh /\ e.coin = Spent) -> e
      [] up # NoEntry /\ up.fresh /\ e.coin = Spent -> NoEntry
      [] OTHER -> [coin |-> e.coin, dirty |-> TRUE, fresh |-> up.fresh \/ e.fresh]

\* One DIRTY child entry e merged into what the parent has, up.
MergeEntry(up, e) ==
    CASE up = NoEntry /\ e.fresh /\ e.coin = Spent -> NoEntry
      [] up = NoEntry /\ ~(e.fresh /\ e.coin = Spent) -> e
      [] up # NoEntry /\ up.fresh /\ e.coin = Spent -> NoEntry
      [] OTHER -> [coin |-> e.coin, dirty |-> TRUE, fresh |-> up.fresh]

\* CCoinsViewCache::BatchWrite: the entries of a child merged into the parent.
BatchWrite(parent, child) ==
    [o \in Outpoint |-> IF ToApply(child, o)
                        THEN MergeEntry(parent[o], child[o])
                        ELSE parent[o]]

\* Mutant: any entry is evicted.
UncacheAny(cache, o) == [cache EXCEPT ![o] = NoEntry]

\* Only an entry with no flag set is evicted.
Uncache(cache, o) ==
    IF cache[o] # NoEntry /\ ~cache[o].dirty /\ ~cache[o].fresh
    THEN [cache EXCEPT ![o] = NoEntry]
    ELSE cache

\* The coins of the database after every DIRTY entry is written or erased.
DbAfterBatch(coins, cache) ==
    [o \in Outpoint |-> IF ToApply(cache, o) THEN cache[o].coin ELSE coins[o]]

=============================================================================
