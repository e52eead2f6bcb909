# zyrk-core in TLA+

A verification development for zyrk-core, a Bitcoin node with a masternode layer
(payments, InstantSend, PrivateSend) and Zerocoin. It models the parts of the node that
decide which chain is active, keep its state through crashes, fetch its blocks, hold the
transactions waiting for it, and synchronise the masternode layer. TLC checks them on small
instances; TLAPS proves the central ones for every value of the constants.

`PROJECT.json` lists components, runs, mutants, the map from definitions to source lines,
findings, hazards and theorems. Source paths below are relative to `src/src/`.

## 1. The system and its parts

| Part | State | Operations | Hard behaviour |
|---|---|---|---|
| Coin cache (`coins.cpp`) | per view: outpoint -> coin with DIRTY, FRESH; best block | fetch, add, spend, batch write, flush, uncache | flags are promises about the layer *below*; a wrong one is seen flushes later |
| Coin database and recovery (`txdb.cpp`, `validation.cpp`) | coins, best block, head blocks, undo files, block index database | connect, disconnect, flush, partial batches, replay | crash or power loss between any two writes, also during the replay |
| Block index and activation (`validation.cpp`) | status flags, `nChainTx`, `setBlockIndexCandidates`, `mapBlocksUnlinked`, `g_failed_blocks`, tip | accept header or block, ActivateBestChain, three RPCs, write, load | blocks out of order, an invalid block in the middle of a reorganisation, lock released between steps |
| Script check queue (`checkqueue.h`) | queue, `nTodo`, `nIdle`, `nTotal`, `fAllOk` | Add, Wait, the worker loop | threads, condition variables, results carried across blocks |
| Block download (`net_processing.cpp`) | blocks in flight per peer, their counters and timers, headers sync, what each peer has | message handlers, SendMessages, connect and disconnect | a block delivered by someone else, peers that never answer, blame for stalling |
| Memory pool (`txmempool.cpp`, `validation.cpp`) | entries, links, ancestor and descendant totals, `disconnectpool` | accept, replace, evict, expire, block, reorganisation | totals kept by increments while the links are partly updated |
| Zerocoin serials (`zerocoin/zerocoin.cpp`) | used serials, serials waiting in the pool | accept, connect, disconnect, TestBlockValidity | two maps that stand in for a conflict search |
| Masternode sync (`masternode/masternode-sync.cpp`, `netfulfilledman.cpp`) | current asset, attempt, timers, fulfilled requests | tick, fail, reset, switch, mnsync | three threads on the same fields without a lock |
| Masternode payments (`masternode/masternode-payments.cpp`) | votes, vote hashes per payee and block | receive, own vote, clean up | one vote in three critical sections |
| Masternode list, InstantSend, PrivateSend, sporks, version bits, scheduler | | | not modelled, see section 6 |
| Wallet, RPC, GUI, vendored libraries | | | not modelled: I/O, or sequential and very large |

Interactions: download hands a block to the block index; activation connects it with the help
of the check queue, in a scratch view over `pcoinsTip`, and tells the memory pool; flushing
writes undo files, index and coins in this order; the masternode parts listen to the tip.
`ChainRecovery` is composed with the operators of `CoinsCache`, and `MasternodeSync` with
`MasternodePayments`. The other parts meet through a narrow state that each module keeps for
itself (a tip, a set of stored blocks), left as free as the neighbour could make it.

## 2. Modules

### Coin cache: `CoinsCache`, `CoinsViews`, `UtxoLayers`, `CoinsViewsProof`

`CoinsCache` holds the operations of `CCoinsViewCache` as operators on a cache (outpoint ->
entry or none) over a base view. `CoinsViews` is the stack the node uses: the database, the
cache `pcoinsTip`, and a scratch view opened to connect or disconnect a block. Every method
that changes state is an action; a read is one too, because it fills the cache and may set
FRESH. `UtxoLayers` is the promise: three plain copies of the coin set, with no flags.
`CoinsViews` implements it under a mapping that reads each layer through the caches above
the database (`ImplementsLayers`). A coin is a value; its script and amount do not matter.

### The tree of blocks: `BlockTree`, `BlockTreeProof`

Height and ancestors of a block, shared by the three modules that follow parents. `TreeAssumption` is
what `AcceptBlockHeader` guarantees: a block enters the index only after its parent, so no path of
parents is endless. The tree may be of any size and shape, also infinite.

### Crash recovery: `ChainRecovery`, `MCChainRecovery`, `ReplayProof`, `ChainRecoveryProof`

`ConnectTip` and `DisconnectTip` apply blocks and undo data through the cache operators
above. `FlushStateToDisk` keeps the order of the code: undo files, block index, coins.
`CCoinsViewDB::BatchWrite` is a sequence of actions, one per batch, marked by the head blocks.
A process crash loses memory; a power failure also loses what was not synced. `Restart` and
the replay actions follow `ReplayBlocks`, and may crash again. The next block to connect is
free, so the module covers every choice that activation can make. A coin is its height, the
field that disconnecting compares.

`Utxo` is the reference: the coins that exist after a block, read off the blocks alone (the last block
of its chain that names an outpoint decides). `Valid` is what is known of a connected block: inputs exist and
are spent once, outputs are new. `ConnectBlock` checks the first; it checks the second (BIP 30,
`validation.cpp:2368`) for proof-of-stake blocks only, and for the others it rests on the height that
`miner.cpp:190` puts into each coinbase, which validation does not compare.

### Block index: `BlockIndex`, `MCBlockIndex`, `BlockIndexProof`

Status flags as sets of blocks, the candidate set with its comparator (work, sequence id,
address), the blocks waiting for a parent, and the failed set. Each pass of the loop in
`ActivateBestChain` is one action, since `cs_main` is free between two passes. The RPCs, both kinds
of write and the reload are actions. Whether a block is valid is given by constants. Four
constants open behaviours in which the code breaks its own assertions: `Interleave` (others
run between two passes), `AnyTarget` (reconsiderblock on a descendant of an invalidated block),
`WriteFailedTip` (the index written alone while the stored tip is marked failed) and `DemoteTip`
(preciousblock gives the tip a worse number than it had). They are FALSE in the passing run, and each
is TRUE in the run of one finding.

### Check queue: `CheckQueue`, `CheckQueueProof`

One action per critical section of `mutex`, and one for the checks run outside it. A batch
stays with its thread until `nTodo -= nNow` accounts for it; `nNow = 0` is an empty batch.
Spurious wakeups and the interruption of the workers at shutdown are included. The order of
the queue is left open: a batch is any subset of the right size. Left out: the master being
interrupted, which needs it to be the import thread, during shutdown.

### Block download: `BlockDownload`, `MCBlockDownload`, `BlockDownloadProof`

One action per message (VERSION, PING, INV, HEADERS, CMPCTBLOCK, BLOCKTXN, BLOCK), one for
`SendMessages` with its timeouts, one each for a new, a closing and a removed peer, for a block
submitted by RPC and for the passing of time. All of them hold `cs_main`. `flight` has the map, the
queues, their counters and timers; `sync` the headers sync; `avail` what each peer is known to have.
Of the block index there is only what download asks: known, stored, invalid, tip. Peers behave as
the constants allow: prompt, faulty (damaged copies), pushy (unrequested blocks), or silent. Times are
ages, cut off one above the longest timeout.

### Memory pool: `Mempool`, `MCMempool`

`pool` is `mapTx` with links and totals, `mapNextTx` and `mapDeltas`. Acceptance with replacement and
limits, expiry and size limit are whole actions. A reorganisation is a sequence (disconnect, connect,
put back one transaction at a time, update), since `PrioritiseTransaction` takes only the pool's lock
and may come in between. `used` and `tags` are the two maps of Zerocoin serials; `TestBlockValidity` is
an action because it records the serials of a block it only tests. Transactions have one size, so count
and fees stand for all totals.

### Masternodes: `MasternodePayments`, `MasternodeSync`, `MCMasternodeSync`, `MasternodeProof`

`MasternodePayments` has the two vote maps and the critical sections of its three users.
`MasternodeSync` extends it with the asset machine. A tick is cut where another thread can act:
`SwitchToNextAsset` reads the asset in one step and writes it in a later one. `IsBlockchainSynced` with
its static variables is part of each caller. What the masternode list would answer is left open.
`asked` and `skipped` are history variables, and `left` bounds the disturbances: commands, sleeps,
lost peers, taken locks, expired requests.

## 3. Runs

| Run | Question | Bounds and why |
|---|---|---|
| `coins_views` | Do flags ever lie, does a legal call sequence throw, is caching invisible? | 2 outpoints, 2 coins, 2 blocks: entries do not interact, so two show independence; two coin values show an overwrite |
| `chain_recovery` | Is the state on disk always recoverable, and does start-up finish? | 5 blocks on two branches that spend the same coin with the same transaction; 2 crashes, so that the second can hit the replay |
| `chain_recovery_two_files` | *Violated.* Is undo data committed before the index names it? | 2 block files, no crash needed |
| `block_index` | Do the assertions of `CheckBlockIndex` hold between activations and after any write, crash and reload, does activation end at the best chain? | 5 blocks on two branches, the longer one with a block that fails to connect and one rejected on arrival; 1 RPC, 1 crash, both address orders, because sequence ids are gone after a load. Larger trees and more calls are covered by the proof |
| `block_index_unlock` | *Violated.* Is the active chain valid if others run while the lock is free? | `Interleave` |
| `block_index_reconsider` | *Violated.* Does the assertion on `g_failed_blocks` hold for any target? | `AnyTarget` |
| `block_index_failed_tip` | *Violated.* Does the node start after an index-only write of a failed tip? | `WriteFailedTip`, 1 crash |
| `block_index_precious` | *Violated.* Is a block as good as the tip always a candidate? | `DemoteTip`, 3 RPCs |
| `check_queue` | Is the answer of Wait() right, does it return? | 2 workers and the master, 4 checks so that a batch of two occurs, batch size 2, any number of blocks. The cap of 128 on a batch is never the smaller term here; it is covered by the proof |
| `block_download` | Do requests, queues and counters agree, is anyone blamed wrongly, is a missing block ever skipped, does the node catch up? | 2 peers, one prompt, one doing everything else; 3 blocks, the last invalid; a window of 1, so that it blocks and stalling starts; timeouts of 0 or 1 tick |
| `mempool` | Do totals follow the links at every point, is the pool minable afterwards? | 9 transactions: a diamond of depth 4, a conflict, two spends of one serial, a coinbase and its spend; chain of 3, pool of 4, `disconnectpool` of 3, so that every limit is hit |
| `masternode_sync` | Does sync finish, only after asking, and do the vote maps agree? | 4 peers (good, behind, ignored, outdated) with remembered requests, 1 own vote, 1 disturbance at any point. More votes, and votes of others, are covered by the proof |

No symmetry is used: most runs check liveness, order blocks by address or give each value a role. Where
`MaxCrashes` is 0 nothing is written to disk in `BlockIndex`, since nothing could read it.

### Fairness

* `ChainRecovery`: weak fairness of the recovery steps. Start-up is one thread that runs until
  it ends, and crashes are bounded; nothing is assumed about the running node.
* `BlockIndex`: weak fairness of `ActivateBestChainStep`. The loop takes `cs_main` again until it
  is done. `ActivationEnds` is checked with `Interleave` FALSE, so it is about one call, not
  about an endless supply of blocks.
* `CheckQueue`: weak fairness of the loop of every thread: a runnable thread gets the mutex in
  the end and a check terminates. A spurious wakeup is never assumed to happen.
* `BlockDownload`: the network thread removes closed peers (weak); the message thread visits every
  peer in each round (strong, since a visit is only possible while the peer is connected); time passes
  (strong, since it waits for prompt peers). A prompt peer connects and answers what it was asked,
  before a timeout that would disconnect it. Nothing is assumed about other peers.
* `MasternodeSync`: weak fairness of the thread, its clock, a command that has begun, the steps of
  block connection, and the stable peer's connection. Votes, commands and other peers have none. Once
  the disturbances are used up the environment is quiet; `SyncCompletes` is about what follows.
* `Mempool` is checked for safety only.

## 4. Proofs

The theorems hold for any sets of outpoints, coins, blocks, workers, checks, peers, votes (workers
and checks finite, in `BlockDownload` also peers and blocks, in `BlockIndex` blocks), any timeouts and limits,
any numbers of calls and crashes, and any batch size of at least one.

`BlockTreeProof` has no theorem about a state machine; it gives the other proofs induction over the
tree. The provers cannot instantiate an induction rule, so the rule is stated with a set: a set that has
a block whenever it has its parent has all blocks (`TreeInduction`, from `TreeAssumption`). From it follow
what the two recursive functions `Height` and `ChainTo` are, and that chains are closed and
linear (`ChainLinear`), with one block per height.

`BlockIndexProof`: types, `CandidatesAreExact`, `LinksAreExact`, `FailuresHaveCauses`,
`ActiveChainIsValid`, `NoAssertionFails` and the action property `ActivationReachesTheBest`, all under
`Regular` (the four constants of the findings are FALSE). `IInv` adds to the properties:

* for `nChainTx` and `mapBlocksUnlinked` (`LinkInv`): a failed block that waits for an ancestor waits for a failed
  one. `AcceptBlock` does not store data below such a block, so nothing is left behind when blocks link up;
* for the stored index (`DiskInv`): an entry that is not dirty is stored, except the marks that
  `FindMostWorkChain` makes without marking the entry dirty; the stored chain is complete and has no failed
  block. This is what makes a reload satisfy the assertions;
* for activation (`ChainInv`): half way, the tip may be worse than where it started, and the candidates are
  complete only from some valid block upwards. The block being worked towards is a candidate
  above the tip, and none with good ancestors is better.

`ChainRecoveryProof`: for any tree of valid blocks, any number of crashes and any split into batches,
types, `TipIsAlwaysUtxo` and `BestBlockIsAlwaysTrue`. `ReplayProof` gives the meaning of each operation
on coins: a sound cache (an unflagged entry equals its base, FRESH means none below) shows after
`ConnectBlock`, `DisconnectBlock` (`DisconnectBlockIs`) and `RollforwardBlock` the coins of the right
block, and `ReplayBlocks` turns any mixture of the coins of two heads into the coins of the new one
(`ReplayedIs`). `IInv` then says what each holder of coins has:

* a version of the database has the coins of its best block, or coin by coin those of one of its two heads;
* every undo record is absent or the one its block determines, so that writing it once is enough;
* a write under way shows, over the half-written database, the coins of the tip;
* an interrupted replay is a path down to the fork and up to the new head, and over the database the cache
  is coin by coin a mixture of where the path stands and where it ends. Both kinds of step keep this mixture
  because each sets every coin that its block names, whatever was there before.

What the disk must still have is a second invariant, `DiskInv`: every chain that the database or the tip
names is in the stored index with its undo data. It is proved under the promise in `FlushStateToDisk`
that the index names only synced undo records: `Spec /\ []IndexedUndoIsSynced` implies `NeverFails`
(`NothingFails`) and `AlwaysRecoverable` (`RecoveryIsPossible`) for any number of block files. Finding 1
is that the promise may be broken when there are several; with one it is kept (`OneFileIsSafe`). The
assumptions are `TreeAssumption`, `BlocksAssumption` (all blocks but genesis are `Valid`), and that the
missing record and the missing entry differ from real ones.

`CoinsViewsProof`: `TypeCorrect`, `FlagsAlwaysSound`, `PrunedAlwaysNeedsFlush`, `NeverLogicError`,
and `Refinement` (the stack implements `UtxoLayers`). The invariant `IInv` says of both caches
that an unflagged entry equals its base, that a FRESH entry has no coin below, and that a
pruned entry is DIRTY and not FRESH. The last part is what makes it inductive: without it a
merge could drop a pruned entry the grandparent still needs. Assumed: `Null` is not a block and
`NoEntry` is not an entry.

`CheckQueueProof`: `TypeCorrect`, `CountsAlwaysExact`, `AnswerAlwaysRight`, `NeverStranded`. Knowing
the answer needs the partial results: `fAllOk` false, or a thread's `fOk` false, implies that a bad
check was added; `fAllOk` true implies that no check accounted for is bad. The counters need
that batches are disjoint from each other and from the queue. The master waits only with an
empty queue and work left, so a worker holds it. Each of claim, sleep and return is an instance
of one step, `TopOfLoop`. Assumed: finite sets, the master is not a worker, a positive batch size.

`BlockDownloadProof`: `InFlightExactHolds`, `StallerHoldsBlockHolds`, `TypeOKHolds` and
`CommonIsFullHolds`. The invariant `IInv` has the types, the agreement of map, queues and counters, that
a stalling peer owes a block, that only connected peers hold requests, and that a peer preferred for
download is ready. Each way a request begins or ends is one lemma about `flight` (request, receive, drop
all of a peer), and the handlers are compositions of these. A second invariant, `Bounds`, is proved on
top of it: the ranges of the ages, and that the tip and every `pindexLastCommonBlock` are full. It needs
that stored blocks are never lost, that ancestors of a full block are full, and that a finite set of
blocks has a highest one (`HighestIs`), which is what `ActivateBestChain` and `FindNextBlocksToDownload`
pick. Assumed: `DownloadAssumption` (types of the constants, finite sets, positive window and limit) and
`TreeAssumption`.

`MasternodeProof`: `VotesBackPayeesHold` needs the types and that a vote on its way between two
critical sections is a vote. `FinishedAfterRequestsHolds` needs what is true between the read and
the write of a switch: a thread about to write FINISHED saw the votes asked for, or a command was
used; and a positive count in an asset means that this asset was asked for. Neither uses an
assumption about the constants.

Only model-checked:

* liveness (`Recovers`, `ActivationEnds`, `WaitReturns`, `CaughtUp`, `SyncCompletes`): fairness is outside the
  reach of the prover;
* everything about `Mempool`, whose links are followed by recursive operators.

## 5. Findings

1. `validation.cpp:2005` `FlushBlockFile` commits only the last block and undo file, while undo
   data goes to the file of its block. Shown by `chain_recovery_two_files`.
2. `validation.cpp:3324` `pindexMostWork` is kept while `cs_main` is free; a block invalidated in
   between is connected. Shown by `block_index_unlock`.
3. `validation.cpp:3504` `ResetBlockFailureFlags` clears ancestors but leaves them in
   `g_failed_blocks`, and a later header fails an assertion. Shown by `block_index_reconsider`.
4. `validation.cpp:3183` an index-only write of an invalidated tip and a crash leave no candidate
   at the next start. Shown by `block_index_failed_tip`.
5. `validation.cpp:3390` `PreciousBlock` starts its counter again when the chain has grown, so that a second
   call on the tip may give it a worse number; a block pruned before is then as good as the tip and
   not a candidate. Shown by `block_index_precious`.

The quoted lines of the source are in `PROJECT.json`. The passing run of `BlockIndex` and its proofs exclude
2 to 5 through the constants named above, so that what else could go wrong is still seen.

Seen while modelling, with no run of their own:

* `zerocoin/zerocoin.cpp:327` `ConnectBlockAnonymize` clears the serials of an index entry but not its
  mints; a block with a mint that is connected twice counts them twice, and disconnecting it meets
  the assertion at line 517.
* `zerocoin/zerocoin.h:99` says "serials of spends currently in the mempool"; entries stay when a spend
  expires or is evicted. `SerialsHeld` holds all the same: what the pool contains has its
  entry, and an entry too many only refuses a transaction.
* `masternode/masternode-payments.cpp:364` tests for a verified vote before taking the locks: the node's
  own vote, received while it is being added, counts twice. Line 246 says "Avoid processing same vote
  multiple times".
* `net_processing.cpp:3915` says "2 + 0.5 * N times the block interval"; `BLOCK_DOWNLOAD_TIMEOUT_BASE` in
  `validation.h:125` is one interval. Both timeouts are constants of the model.

## 6. Not modelled

* Consensus rules, scripts and signatures: pure predicates; blocks and checks are valid or not.
* Proof of work and of stake: 256-bit arithmetic outside a useful range of TLC. All blocks add
  the same work.
* Pruning, reindexing, the duplicate-stake flags, the optional address indexes.
* Serving data, transaction relay, orphans, address handling, eviction and sockets.
* Memory pool: rolling minimum fee, the optional indexes, `mempool.dat`, sizes and signature operations.
* Zerocoin mints, coin groups and accumulators: group arithmetic on large numbers.
* InstantSend: the handler of lock votes is commented out in `masternode/instantx.cpp`, so only the node's own
  vote can count and no lock reaches the six it needs. A model of the rest would check dead code.
* PrivateSend: the handler of an entry (`masternode/darksend.cpp:261`) makes a shared pointer to a local
  variable. Every step after it is undefined behaviour, so a faithful model would allow anything.
* Masternode list: ranks are scores of hashes, and states are thresholds on the clock, one masternode
  at a time. Its answers are free in `MasternodePayments`.
* Sporks (a table in which the latest signature wins), version bits (a cached pure function, with a
  randomised test in the repository), scheduler (orders callbacks of parts not modelled).
* Wallet, RPC, GUI, start-up options, and the vendored libraries.
