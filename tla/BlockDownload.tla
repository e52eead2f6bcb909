--------------------------- MODULE BlockDownload ---------------------------
(***************************************************************************)
(* net_processing.cpp: which block is asked from which peer.               *)
(*                                                                         *)
(* The message thread handles VERSION, PING, INV, HEADERS, CMPCTBLOCK,     *)
(* BLOCKTXN and BLOCK, and runs SendMessages for one peer after another;   *)
(* the network thread adds and removes peers; RPC threads submit blocks.   *)
(* Every step holds cs_main.  The block index is reduced to what download  *)
(* needs: known headers, blocks stored, blocks found invalid and the tip   *)
(* (BlockIndex has the rest).  Times are ages in ticks, cut off one above  *)
(* the longest timeout.  Decoding a compact block has any outcome.         *)
(* ConsiderEviction and the small penalties end connections as PeerCloses  *)
(* does; SPV peers and chains below nMinimumChainWork are left out.        *)
(***************************************************************************)
EXTENDS BlockTree, Sequences, FiniteSets

CONSTANTS
    Peer,               \* node ids; an id is never used twice
    Nobody,             \* no peer
    BadBlock,           \* blocks that ContextualCheckBlock rejects
    Announces,          \* the blocks each peer announces
    Outbound,
    Whitelisted,
    Witness,            \* peers with NODE_WITNESS and the compact block version for it
    Prompt,             \* peers that answer before any timeout and stay
    Faulty,             \* peers that send damaged copies of blocks
    Pushy,              \* peers that send blocks they were not asked for
    Compact,            \* peers that announce with compact blocks
    Submitted,          \* blocks that arrive by RPC
    ClaimedHeights,     \* values of the median of the heights that peers claim
    RecentHeight,       \* a header this high is less than a day old
    DirectHeight,       \* a tip this high allows CanDirectFetch
    Window,             \* BLOCK_DOWNLOAD_WINDOW
    MaxInTransit,       \* MAX_BLOCKS_IN_TRANSIT_PER_PEER
    StallTimeout, TimeoutBase, TimeoutPerPeer, HeadersTimeout

VARIABLES
    nodes,      \* mapNodeState
    used,       \* node ids handed out so far
    ready,      \* fSuccessfullyConnected
    closing,    \* fDisconnect
    peerBlocks, \* cPeerBlockCounts.median()
    sync,       \* fPreferredDownload, fSyncStarted, nHeadersSyncTimeout and their totals
    avail,      \* pindexBestKnownBlock, hashLastUnknownBlock, pindexLastCommonBlock
    flight,     \* vBlocksInFlight, mapBlocksInFlight, their counters and timers
    chain       \* [known, data, invalid, tip]

connVars == <<nodes, used, ready, closing>>
vars == <<connVars, peerBlocks, sync, avail, flight, chain>>

ASSUME DownloadAssumption ==
    /\ Nobody \notin Peer
    /\ Announces \in [Peer -> SUBSET Block]
    /\ Outbound \subseteq Peer /\ Whitelisted \subseteq Peer /\ Prompt \subseteq Peer
    /\ Witness \subseteq Peer /\ Faulty \subseteq Peer \ (Prompt \cup Whitelisted)
    /\ BadBlock \subseteq Block \ {Genesis}
    /\ IsFiniteSet(Peer) /\ IsFiniteSet(Block)
    /\ Pushy \subseteq Peer /\ Compact \subseteq Peer /\ Submitted \subseteq Block
    /\ MaxInTransit \in Nat \ {0} /\ Window \in Nat \ {0}
    /\ StallTimeout \in Nat /\ TimeoutBase \in Nat
    /\ TimeoutPerPeer \in Nat /\ HeadersTimeout \in Nat

Highest(S) == CHOOSE x \in S : \A y \in S : Height[y] <= Height[x]

\* The n lowest blocks of a set that has one block per height.
LowestOf(S, n) == {x \in S : Cardinality({y \in S : Height[y] < Height[x]}) < n}

\* The sequence of S from the lowest to the highest block, as a set.
Ascending(S) ==
    {l \in [1..Cardinality(S) -> S] :
        /\ \A i, j \in DOMAIN l : i < j => Height[l[i]] < Height[l[j]]
        /\ \A x \in S : \E i \in DOMAIN l : l[i] = x}

\* No timer runs: nStallingSince = 0, nHeadersSyncTimeout unset or at its maximum.
Off == -1

Init ==
    /\ nodes = {} /\ used = {} /\ ready = {} /\ closing = {}
    /\ peerBlocks = 0
    /\ sync = [preferred |-> {}, nPreferredDownload |-> 0, started |-> {},
               nSyncStarted |-> 0, timer |-> [p \in Peer |-> Off]]
    /\ avail = [best |-> [p \in Peer |-> Null], unknown |-> [p \in Peer |-> Null],
                common |-> [p \in Peer |-> Null]]
    /\ flight = [queue |-> [p \in Peer |-> <<>>], partial |-> {},
                 inFlight |-> [b \in Block |-> Nobody],
                 nBlocksInFlight |-> [p \in Peer |-> 0],
                 nValidHeaders |-> [p \in Peer |-> 0], nPeers |-> 0,
                 stalling |-> [p \in Peer |-> Off], since |-> [p \in Peer |-> 0]]
    /\ chain = [known |-> {Genesis}, data |-> {Genesis}, invalid |-> {}, tip |-> Genesis]

-----------------------------------------------------------------------------
(* Blocks in flight.  Every caller passes the block's index entry, so      *)
(* fValidatedHeaders is always set; both counters are kept all the same.   *)

Without(q, i) == [j \in 1..(Len(q) - 1) |-> IF j < i THEN q[j] ELSE q[j + 1]]

\* Mutant: a received block does not end the blame.
StillStalling(f, p) == f.stalling

NotStalling(f, p) == [f.stalling EXCEPT ![p] = Off]

\* MarkBlockAsReceived, whoever delivered it.
MarkBlockAsReceived(f, b) ==
    LET p == f.inFlight[b]
        i == CHOOSE i \in DOMAIN f.queue[p] : f.queue[p][i] = b
    IN  IF p = Nobody THEN f
        ELSE [f EXCEPT
                !.nValidHeaders[p] = @ - 1,
                !.nPeers = IF f.nValidHeaders[p] = 1 THEN @ - 1 ELSE @,
                !.since[p] = IF i = 1 THEN 0 ELSE @,
                !.queue[p] = Without(@, i),
                !.nBlocksInFlight[p] = @ - 1,
                !.stalling = NotStalling(f, p),
                !.partial = @ \ {b},
                !.inFlight[b] = Nobody]

\* MarkBlockAsInFlight for each block of a list.  No caller passes a block that
\* is in flight from another peer, so its call of MarkBlockAsReceived does nothing.
MarkBlocksAsInFlight(f, p, list) ==
    [f EXCEPT
        !.queue[p] = @ \o list,
        !.nBlocksInFlight[p] = @ + Len(list),
        !.nValidHeaders[p] = @ + Len(list),
        !.since[p] = IF f.nBlocksInFlight[p] = 0 THEN 0 ELSE @,
        !.nPeers = IF f.nValidHeaders[p] = 0 /\ list # <<>> THEN @ + 1 ELSE @,
        !.inFlight = [b \in Block |-> IF \E i \in DOMAIN list : list[i] = b THEN p ELSE @[b]]]

\* Mutant: a peer is counted out whether or not it was asked for blocks.
OtherDownloadsUnchecked(f, p) == f.nPeers - 1

\* nPeersWithValidatedDownloads when p leaves.
OtherDownloads(f, p) == IF f.nValidHeaders[p] # 0 THEN f.nPeers - 1 ELSE f.nPeers

\* Mutant: the blocks stay in mapBlocksInFlight.
KeptRequests(f, p) == f.inFlight

OtherRequests(f, p) == [b \in Block |-> IF f.inFlight[b] = p THEN Nobody ELSE f.inFlight[b]]

\* What FinalizeNode does with the blocks in flight from p.
Released(f, p) ==
    [f EXCEPT
        !.queue[p] = <<>>,
        !.partial = {b \in @ : f.inFlight[b] # p},
        !.inFlight = OtherRequests(f, p),
        !.nPeers = OtherDownloads(f, p),
        !.nBlocksInFlight[p] = 0,
        !.nValidHeaders[p] = 0,
        !.stalling[p] = Off,
        !.since[p] = 0]

-----------------------------------------------------------------------------
(* What a peer is known to have.                                           *)

Better(x, y) == IF x = Null \/ Height[y] >= Height[x] THEN y ELSE x

ProcessBlockAvailability(a, known, p) ==
    IF a.unknown[p] \in known
    THEN [a EXCEPT !.best[p] = Better(@, a.unknown[p]), !.unknown[p] = Null]
    ELSE a

UpdateBlockAvailability(a, known, p, b) ==
    LET q == ProcessBlockAvailability(a, known, p)
    IN  IF b \in known THEN [q EXCEPT !.best[p] = Better(@, b)]
                       ELSE [q EXCEPT !.unknown[p] = b]

-----------------------------------------------------------------------------
(* Headers and blocks enter the index.                                     *)

HeaderOk(c, b) ==
    IF b \in c.known THEN b \notin c.invalid
    ELSE Parent[b] \in c.known \ c.invalid

\* ActivateBestChain: the tip moves to a longer chain that is complete.
BestTip(data, tip) ==
    LET complete == {b \in data : ChainTo[b] \subseteq data}
    IN  IF Height[Highest(complete)] > Height[tip] THEN Highest(complete) ELSE tip

\* AcceptBlock and ActivateBestChain for an undamaged block.
ProcessNewBlock(c, b, requested) ==
    LET known == [c EXCEPT !.known = @ \cup {b}]
    IN  IF ~HeaderOk(c, b) THEN c
        ELSE IF b \in c.data \/ (~requested /\ Height[b] < Height[c.tip]) THEN known
        ELSE IF b \in BadBlock THEN [known EXCEPT !.invalid = @ \cup {b}]
        ELSE [known EXCEPT !.data = @ \cup {b}, !.tip = BestTip(c.data \cup {b}, c.tip)]

\* BlockChecked reports the sender, except of blocks far above the tip.
Reported(c, b) == Height[b] <= Height[c.tip] + 1

\* Misbehaving(100), then SendRejectsAndCheckIfBanned.
Ban(p) == closing' = closing \cup ({p} \ Whitelisted)

-----------------------------------------------------------------------------
(* Peers come and go.                                                      *)

Talking == ready \ closing

InitializeNode(p) ==
    /\ p \notin used
    /\ nodes' = nodes \cup {p}
    /\ used' = used \cup {p}
    /\ UNCHANGED <<ready, closing, peerBlocks, sync, avail, flight, chain>>

\* VERSION and VERACK: UpdatePreferredDownload, and the height the peer claims.
ReceiveVersion(p) ==
    /\ p \in nodes \ (ready \cup closing)
    /\ ready' = ready \cup {p}
    /\ peerBlocks' \in ClaimedHeights
    /\ sync' = IF p \in Outbound \cup Whitelisted
               THEN [sync EXCEPT !.preferred = @ \cup {p}, !.nPreferredDownload = @ + 1]
               ELSE sync
    /\ UNCHANGED <<nodes, used, closing, avail, flight, chain>>

ReceivePing(p) ==
    /\ p \in Talking
    /\ peerBlocks' \in ClaimedHeights
    /\ UNCHANGED <<connVars, sync, avail, flight, chain>>

\* The peer closes the connection.
PeerCloses(p) ==
    /\ p \in nodes \ (closing \cup Prompt)
    /\ closing' = closing \cup {p}
    /\ UNCHANGED <<nodes, used, ready, peerBlocks, sync, avail, flight, chain>>

FinalizeNode(p) ==
    /\ p \in closing
    /\ nodes' = nodes \ {p}
    /\ ready' = ready \ {p}
    /\ closing' = closing \ {p}
    /\ sync' = [preferred |-> sync.preferred \ {p},
                nPreferredDownload |-> sync.nPreferredDownload
                                         - (IF p \in sync.preferred THEN 1 ELSE 0),
                started |-> sync.started \ {p},
                nSyncStarted |-> sync.nSyncStarted - (IF p \in sync.started THEN 1 ELSE 0),
                timer |-> [sync.timer EXCEPT ![p] = Off]]
    /\ avail' = [avail EXCEPT !.best[p] = Null, !.unknown[p] = Null, !.common[p] = Null]
    /\ flight' = Released(flight, p)
    /\ UNCHANGED <<used, peerBlocks, chain>>

-----------------------------------------------------------------------------
(* Announcements.                                                          *)

CanDirectFetch == Height[chain.tip] >= DirectHeight

\* ProcessHeadersMessage: the blocks to ask p for at once after it announced b.
DirectFetch(c, p, b) ==
    LET path    == ChainTo[b] \ ChainTo[c.tip]
        missing == {x \in path : x \notin c.data /\ flight.inFlight[x] = Nobody /\ p \in Witness}
        tooMany == \E x \in path :
                     Cardinality({y \in missing : Height[y] > Height[x]}) > MaxInTransit
    IN  IF CanDirectFetch /\ b \notin c.invalid /\ Height[c.tip] <= Height[b] /\ ~tooMany
        THEN LowestOf(missing, MaxInTransit - flight.nBlocksInFlight[p])
        ELSE {}

\* The headers up to b were accepted.
HeadersAccepted(c, p, b) ==
    /\ chain' = c
    /\ avail' = UpdateBlockAvailability(avail, c.known, p, b)
    /\ \E list \in Ascending(DirectFetch(c, p, b)) :
         flight' = MarkBlocksAsInFlight(flight, p, list)
    /\ UNCHANGED <<connVars, peerBlocks, sync>>

\* INV of a block: the getheaders that answers it changes nothing here.
ReceiveInv(p, b) ==
    /\ p \in Talking
    /\ b \in Announces[p]
    /\ avail' = UpdateBlockAvailability(avail, chain.known, p, b)
    /\ UNCHANGED <<connVars, peerBlocks, sync, flight, chain>>

\* HEADERS with b alone, whose parent is not known.
UnconnectingHeader(p, b) ==
    /\ p \in Talking
    /\ b \in Announces[p]
    /\ Parent[b] \notin chain.known
    /\ avail' = UpdateBlockAvailability(avail, chain.known, p, b)
    /\ UNCHANGED <<connVars, peerBlocks, sync, flight, chain>>

\* HEADERS that end in b and start at a known block, or b alone if it is known.
ReceiveHeaders(p, b) ==
    /\ p \in Talking
    /\ b \in Announces[p]
    /\ ChainTo[b] \cap chain.invalid = {} \/ b \in chain.known \ chain.invalid
    /\ HeadersAccepted([chain EXCEPT !.known = @ \cup ChainTo[b]], p, b)

\* HEADERS with a block marked invalid, or on top of one.
ReceiveInvalidHeaders(p, b) ==
    /\ p \in Talking
    /\ b \in Announces[p]
    /\ ChainTo[b] \cap chain.invalid # {}
    /\ p \in Outbound \/ b \notin chain.known
    /\ IF p \in Outbound THEN closing' = closing \cup {p} ELSE Ban(p)
    /\ UNCHANGED <<nodes, used, ready, peerBlocks, sync, avail, flight, chain>>

-----------------------------------------------------------------------------
(* Blocks, whole or compact.                                               *)

Has(p, b) == \E a \in Announces[p] : b \in ChainTo[a]

\* The outcomes of FillBlock for block b, which is in flight from p in f.
FillBlock(f, c, p, b) ==
    \/ p \in Faulty                                             \* READ_STATUS_INVALID
       /\ flight' = MarkBlockAsReceived(f, b) /\ chain' = c /\ Ban(p)
    \/ flight' = f /\ chain' = c /\ UNCHANGED closing           \* READ_STATUS_FAILED
    \/ flight' = MarkBlockAsReceived(f, b) /\ chain' = ProcessNewBlock(c, b, TRUE)
       /\ UNCHANGED closing

\* CMPCTBLOCK for a block that is in flight from p, or that p may be asked for.
CompactFromPeer(c, p, b) ==
    LET f == IF flight.inFlight[b] = p THEN flight ELSE MarkBlocksAsInFlight(flight, p, <<b>>)
    IN  IF b \in flight.partial THEN chain' = c /\ UNCHANGED <<flight, closing>>
        ELSE FillBlock([f EXCEPT !.partial = @ \cup {b}], c, p, b)

\* CMPCTBLOCK for a block in flight from someone else: it may be complete already.
CompactOptimistic(c, b) ==
    /\ UNCHANGED closing
    /\ \/ chain' = c /\ UNCHANGED flight
       \/ /\ chain' = ProcessNewBlock(c, b, TRUE)
          /\ flight' = IF b \in chain'.invalid THEN flight ELSE MarkBlockAsReceived(flight, b)

ReceiveCompact(p, b) ==
    LET c     == [chain EXCEPT !.known = @ \cup {b}]
        owner == flight.inFlight[b]
        drop  == \/ b \in chain.data \/ Height[b] <= Height[chain.tip]
                 \/ (owner = Nobody /\ ~CanDirectFetch)
                 \/ p \notin Witness
        near  == Height[b] <= Height[chain.tip] + 2
        mine  == owner = p \/ (owner = Nobody /\ flight.nBlocksInFlight[p] < MaxInTransit)
    IN  /\ p \in Talking
        /\ p \in Compact /\ b \in Announces[p]
        /\ HeaderOk(chain, b)
        /\ IF ~drop /\ ~near /\ owner = Nobody THEN HeadersAccepted(c, p, b)
           ELSE /\ avail' = UpdateBlockAvailability(avail, c.known, p, b)
                /\ IF drop \/ ~near THEN chain' = c /\ UNCHANGED <<flight, closing>>
                   ELSE IF mine THEN CompactFromPeer(c, p, b)
                   ELSE CompactOptimistic(c, b)
                /\ UNCHANGED <<nodes, used, ready, peerBlocks, sync>>

ReceiveBlockTxn(p, b) ==
    /\ p \in Talking
    /\ flight.inFlight[b] = p
    /\ b \in flight.partial
    /\ FillBlock(flight, chain, p, b)
    /\ UNCHANGED <<nodes, used, ready, peerBlocks, sync, avail>>

\* BLOCK, asked for or not; the sender of a bad block is reported.
ReceiveBlock(p, b) ==
    /\ p \in Talking
    /\ Has(p, b) /\ (p \in Pushy \/ flight.inFlight[b] = p)
    /\ b \in chain.known \/ Parent[b] \in chain.known
    /\ flight' = MarkBlockAsReceived(flight, b)
    /\ chain' = ProcessNewBlock(chain, b, flight.inFlight[b] # Nobody)
    /\ IF chain'.invalid # chain.invalid /\ Reported(chain, b) THEN Ban(p) ELSE UNCHANGED closing
    /\ UNCHANGED <<nodes, used, ready, peerBlocks, sync, avail>>

\* BLOCK with contents that CheckBlock rejects: nothing is remembered of it.
ReceiveDamagedBlock(p, b) ==
    /\ p \in Talking \cap Faulty
    /\ Has(p, b) /\ (p \in Pushy \/ flight.inFlight[b] = p)
    /\ flight' = MarkBlockAsReceived(flight, b)
    /\ IF Reported(chain, b) THEN Ban(p) ELSE UNCHANGED closing
    /\ UNCHANGED <<nodes, used, ready, peerBlocks, sync, avail, chain>>

\* submitblock
SubmitBlock(b) ==
    /\ b \in Submitted
    /\ HeaderOk(chain, b)
    /\ chain' = ProcessNewBlock(chain, b, TRUE)
    /\ UNCHANGED <<connVars, peerBlocks, sync, avail, flight>>

-----------------------------------------------------------------------------
(* SendMessages.                                                           *)

\* The best header is less than a day old.
NearToday == \E b \in chain.known : Height[b] >= RecentHeight

IsInitialBlockDownload == Height[chain.tip] < peerBlocks

FetchFrom(p) == p \in sync.preferred \/ sync.nPreferredDownload = 0

\* "Start block sync"
StartSync(p) ==
    IF p \notin sync.started /\ ((sync.nSyncStarted = 0 /\ FetchFrom(p)) \/ NearToday)
    THEN [sync EXCEPT !.started = @ \cup {p}, !.nSyncStarted = @ + 1, !.timer[p] = 0]
    ELSE sync

StallExpired(p) == flight.stalling[p] > StallTimeout

\* Mutant: only the window check disconnects a peer.
DownloadNeverExpires(p) == FALSE

\* The first block of the queue has been in flight for too long.
DownloadExpired(p) ==
    /\ flight.queue[p] # <<>>
    /\ flight.since[p] > TimeoutBase + TimeoutPerPeer *
         (flight.nPeers - (IF flight.nValidHeaders[p] > 0 THEN 1 ELSE 0))

HeadersExpired(s, p) ==
    /\ p \in s.started /\ ~NearToday
    /\ s.timer[p] > HeadersTimeout
    /\ s.nSyncStarted = 1
    /\ s.nPreferredDownload - (IF p \in s.preferred THEN 1 ELSE 0) >= 1

\* The headers timer after the check: forgotten for a whitelisted peer, off for
\* good once the headers are recent.
SyncAfter(s, p) ==
    IF HeadersExpired(s, p)
    THEN [s EXCEPT !.started = @ \ {p}, !.nSyncStarted = @ - 1, !.timer[p] = Off]
    ELSE IF NearToday THEN [s EXCEPT !.timer[p] = Off] ELSE s

\* FindNextBlocksToDownload starts at the last block in common with p, guessed
\* to be the tip at first, ...
LastCommon(a, p) ==
    Highest(ChainTo[IF a.common[p] = Null THEN chain.tip ELSE a.common[p]]
              \cap ChainTo[a.best[p]])

\* ... walks towards p's best block to one block beyond the window ...
WindowEnd(start) == Height[start] + Window
Walk(start, best) == {x \in ChainTo[best] \ ChainTo[start] : Height[x] <= WindowEnd(start) + 1}

Wanted(x) == x \notin chain.data /\ flight.inFlight[x] = Nobody

\* ... and stops at an invalid block, or when it has found count blocks to ask for.
Reached(path, p, count) ==
    {x \in path :
        /\ p \in Witness
        /\ \A y \in path : Height[y] <= Height[x] => y \notin chain.invalid
        /\ Cardinality({y \in path : Height[y] < Height[x] /\ Wanted(y)}) < count}

NextBlocks(start, reached) == {x \in reached : Wanted(x) /\ Height[x] <= WindowEnd(start)}

\* Mutant: a block counts as common although an ancestor is missing (nChainTx is 0).
NextCommonPastGap(start, reached) == Highest({start} \cup (reached \cap chain.data))

\* The new pindexLastCommonBlock.
NextCommon(start, reached) ==
    Highest({start} \cup {x \in reached : ChainTo[x] \subseteq chain.data})

\* Nothing to ask for, but the block after the window is wanted: the peer that
\* has the first block in flight holds us up, unless it is p itself.
Stallers(p, start, reached) ==
    LET waiting == {x \in reached \ chain.data : flight.inFlight[x] # Nobody}
        first   == {x \in waiting : \A y \in waiting : Height[x] <= Height[y]}
    IN  IF NextBlocks(start, reached) = {} /\ \E x \in reached : Wanted(x)
        THEN {flight.inFlight[x] : x \in first} \ {p} ELSE {}

\* nStallingSince is set for the staller if p has nothing to do.
Blame(f, p, stallers) ==
    [f EXCEPT !.stalling =
        [q \in Peer |-> IF f.nBlocksInFlight[p] = 0 /\ q \in stallers /\ @[q] = Off
                        THEN 0 ELSE @[q]]]

\* Ask p for blocks, if it has a chain as good as ours.
GetData(p) ==
    IF (FetchFrom(p) \/ ~IsInitialBlockDownload) /\ flight.nBlocksInFlight[p] < MaxInTransit
    THEN \E a \in {ProcessBlockAvailability(avail, chain.known, p)} :
           IF a.best[p] = Null \/ Height[a.best[p]] < Height[chain.tip]
           THEN avail' = a /\ UNCHANGED flight
           ELSE \E start \in {LastCommon(a, p)} :
                \E reached \in {Reached(Walk(start, a.best[p]), p,
                                        MaxInTransit - flight.nBlocksInFlight[p])} :
                  /\ avail' = [a EXCEPT !.common[p] = NextCommon(start, reached)]
                  /\ \E list \in Ascending(NextBlocks(start, reached)) :
                       flight' = Blame(MarkBlocksAsInFlight(flight, p, list), p,
                                       Stallers(p, start, reached))
    ELSE UNCHANGED <<avail, flight>>

SendMessages(p) ==
    /\ p \in Talking
    /\ UNCHANGED <<nodes, used, ready, peerBlocks, chain>>
    /\ \E s \in {StartSync(p)} :
         IF StallExpired(p) \/ DownloadExpired(p) \/ (HeadersExpired(s, p) /\ p \notin Whitelisted)
         THEN /\ closing' = closing \cup {p}
              /\ sync' = s
              /\ UNCHANGED <<avail, flight>>
         ELSE /\ sync' = SyncAfter(s, p)
              /\ GetData(p)
              /\ UNCHANGED closing

-----------------------------------------------------------------------------
MaxAge == TimeoutBase + TimeoutPerPeer * (Cardinality(Peer) - 1) + 1

Older(age, limit) == IF age = Off \/ age > limit THEN age ELSE age + 1

\* A prompt peer answers before a timeout that would disconnect it.
PromptInTime(p) ==
    /\ flight.stalling[p] < StallTimeout
    /\ flight.queue[p] = <<>> \/ flight.since[p] < TimeoutBase
    /\ NearToday \/ p \in Whitelisted \/ sync.timer[p] < HeadersTimeout

Tick ==
    /\ \A p \in Prompt \cap nodes : PromptInTime(p)
    /\ flight' = [flight EXCEPT
         !.stalling = [p \in Peer |-> Older(@[p], StallTimeout)],
         !.since = [p \in Peer |-> IF flight.queue[p] = <<>> THEN 0 ELSE Older(@[p], MaxAge - 1)]]
    /\ sync' = [sync EXCEPT !.timer = [p \in Peer |-> Older(@[p], HeadersTimeout)]]
    /\ UNCHANGED <<connVars, peerBlocks, avail, chain>>

Next ==
    \/ \E p \in Peer :
         \/ InitializeNode(p) \/ ReceiveVersion(p) \/ ReceivePing(p)
         \/ PeerCloses(p) \/ FinalizeNode(p) \/ SendMessages(p)
         \/ \E b \in Block :
              \/ ReceiveInv(p, b) \/ UnconnectingHeader(p, b)
              \/ ReceiveHeaders(p, b) \/ ReceiveInvalidHeaders(p, b)
              \/ ReceiveCompact(p, b) \/ ReceiveBlockTxn(p, b)
              \/ ReceiveBlock(p, b) \/ ReceiveDamagedBlock(p, b)
    \/ \E b \in Block : SubmitBlock(b)
    \/ Tick

\* A prompt peer connects, sends the headers it was asked for and the blocks in
\* flight from it; the threads of the node keep running and time passes.
Fairness ==
    /\ \A p \in Peer : WF_vars(FinalizeNode(p)) /\ SF_vars(SendMessages(p))
    /\ \A p \in Prompt :
         /\ WF_vars(InitializeNode(p)) /\ WF_vars(ReceiveVersion(p))
         /\ \A b \in Announces[p] : SF_vars(p \in sync.started /\ ReceiveHeaders(p, b))
         /\ SF_vars(\E b \in Block : flight.inFlight[b] = p /\ ReceiveBlock(p, b))
    /\ SF_vars(Tick)

Spec == Init /\ [][Next]_vars /\ Fairness

-----------------------------------------------------------------------------
(* Properties.                                                             *)

\* Every field of CNodeState and every total has its type; a peer that is
\* disconnecting still has its CNodeState.
TypeOK ==
    /\ closing \subseteq nodes /\ ready \subseteq nodes
    /\ nodes \subseteq used /\ used \subseteq Peer
    /\ peerBlocks \in ClaimedHeights \cup {0}
    /\ sync \in [preferred : SUBSET Peer, nPreferredDownload : Nat, started : SUBSET Peer,
                 nSyncStarted : Nat, timer : [Peer -> Off..(HeadersTimeout + 1)]]
    /\ avail \in [best : [Peer -> Block \cup {Null}], unknown : [Peer -> Block \cup {Null}],
                  common : [Peer -> Block \cup {Null}]]
    /\ flight \in [queue : [Peer -> Seq(Block)], partial : SUBSET Block,
                   inFlight : [Block -> Peer \cup {Nobody}],
                   nBlocksInFlight : [Peer -> Nat], nValidHeaders : [Peer -> Nat], nPeers : Nat,
                   stalling : [Peer -> Off..(StallTimeout + 1)], since : [Peer -> 0..MaxAge]]
    /\ chain \in [known : SUBSET Block, data : SUBSET Block, invalid : SUBSET Block, tip : Block]

\* mapBlocksInFlight and the queues vBlocksInFlight hold the same requests, and
\* no block is asked from two peers, or twice from one.
QueuesExact(f) ==
    /\ \A p \in Peer, b \in Block :
         (f.inFlight[b] = p) <=> (\E i \in DOMAIN f.queue[p] : f.queue[p][i] = b)
    /\ \A p \in Peer : \A i, j \in DOMAIN f.queue[p] :
         f.queue[p][i] = f.queue[p][j] => i = j

\* The counters of f agree with its queues.
CountersExact(f) ==
    /\ \A p \in Peer : f.nBlocksInFlight[p] = Len(f.queue[p])
                       /\ f.nValidHeaders[p] = Len(f.queue[p])
    /\ f.nPeers = Cardinality({p \in Peer : f.queue[p] # <<>>})

\* Only connected peers hold requests, and every counter says what it counts,
\* whichever way blocks are asked for, delivered or given up: the assertions of
\* FinalizeNode hold, also the ones after the last peer left, and State(staller)
\* in SendMessages is never null.
InFlightExact ==
    /\ QueuesExact(flight)
    /\ CountersExact(flight)
    /\ \A p \in Peer : flight.queue[p] # <<>> => p \in nodes
    /\ sync.preferred \subseteq nodes /\ sync.nPreferredDownload = Cardinality(sync.preferred)
    /\ sync.started \subseteq nodes /\ sync.nSyncStarted = Cardinality(sync.started)

\* A peer with nStallingSince set still owes a block: SendMessages disconnects
\* nobody as a staller who has delivered everything in the meantime.
StallerHoldsBlock == \A p \in Peer : flight.stalling[p] # Off => flight.queue[p] # <<>>

\* The tip and what pindexLastCommonBlock names of a peer are full: the node has
\* them and all their ancestors, whatever order blocks arrived in, so no missing
\* block is below the point where FindNextBlocksToDownload starts to look.
CommonIsFull ==
    /\ ChainTo[chain.tip] \subseteq chain.data
    /\ \A p \in Peer : ChainTo[avail.common[p]] \subseteq chain.data

\* The tip gets as high as every block that a prompt peer announces, although
\* other peers take requests and never answer, answer with damaged blocks, clear
\* requests by sending blocks nobody asked them for, or sit on the headers sync.
CaughtUp ==
    \A p \in Prompt : \A b \in Announces[p] : <>[](Height[chain.tip] >= Height[b])

=============================================================================
