--------------------------- MODULE MasternodeSync ---------------------------
(***************************************************************************)
(* masternode/masternode-sync.cpp beside MasternodePayments: the machine   *)
(* that fetches sporks, the masternode list and the payment votes.         *)
(*                                                                         *)
(* ProcessTick runs in one thread and takes no lock.  Blocks are connected *)
(* and votes handled in others, and RPC commands change the same fields: a *)
(* tick is a sequence of steps, and SwitchToNextAsset reads the asset in   *)
(* one step and writes it in another.  Time is counted in ticks.  Only the *)
(* timer of the current asset matters, for each is set when its asset      *)
(* starts.  The request flag "full-sync", which is never set, the quick    *)
(* mode of regtest and the time of an import or reindex are left out.      *)
(***************************************************************************)
EXTENDS MasternodePayments

CONSTANTS
    Peer,
    Stable,             \* the peer that stays connected
    Ignored,            \* fMasternode, or inbound where this node is a masternode
    Outdated,           \* below GetMinMasternodePaymentsProto
    PeerHeight,
    SavedFlags,         \* what netfulfilled.dat may hold for a peer
    Timeout,            \* MASTERNODE_SYNC_TIMEOUT_SECONDS: 5
    Cooldown,           \* after a failure: 10
    Hour,               \* 60 minutes
    StartHeight,
    SyncedHeight,       \* IsSynced is constant below it: 6
    MasternodeInitialize,   \* IsBlockchainSynced is constant up to it
    CheckpointHeight,
    RecentHeight,       \* from this tip on, best header and clock are near
    MaxHeight,          \* bound: the length of the chain
    MaxAttempt,         \* bound: larger counts are not told apart
    Disturbances        \* bound: commands, sleeps, lost peers, contended locks ...

VARIABLES
    asset,      \* nRequestedMasternodeAssets
    attempt,    \* nRequestedMasternodeAttempt
    timer,      \* since nTimeLastMasternodeList, ...PaymentVote or ...Failure
    chainSync,  \* IsBlockchainSynced's statics: synced, first block, last process
    pc,         \* where ThreadCheckDarkSendPool is
    to,         \* the asset SwitchToNextAsset is about to write
    rpc,        \* the same in the RPC thread, FAILED when there is none
    todo,       \* vNodesCopy: peers the tick has not visited
    due,        \* a tick is due
    connecting, \* a thread is in ProcessNewBlock, past its first UpdateTip
    peers,      \* vNodes, with known heights
    flags,      \* mapFulfilledRequests, by address
    asked,      \* history: assets asked from a peer since INITIAL was left
    skipped,    \* history: mnsync next was used since
    left        \* disturbances left

tickVars == <<pc, to, todo, due>>
history == <<asked, skipped>>
vars == <<tip, paymentVars, asset, attempt, timer, chainSync, tickVars,
          connecting, rpc, peers, flags, history, left>>

FAILED == -1
INITIAL == 0
SPORKS == 1
LIST == 2
MNW == 3
FINISHED == 999

ASSUME SyncAssumption ==
    /\ Stable \in Peer \ (Ignored \cup Outdated)
    /\ PeerHeight[Stable] \in {MaxHeight, MaxHeight + 1}
    /\ SyncedHeight <= MaxHeight /\ CheckpointHeight <= MaxHeight
    /\ MaxAttempt > 1

Init ==
    /\ tip = StartHeight /\ PaymentsInit
    /\ asset = INITIAL /\ attempt = 0 /\ timer = 0
    /\ chainSync = [synced |-> FALSE, first |-> FALSE, age |-> 0]
    /\ pc = "idle" /\ to = INITIAL /\ todo = {} /\ due = TRUE /\ connecting = FALSE
    /\ rpc = FAILED
    /\ peers = {}
    /\ flags \in [Peer -> SavedFlags]
    /\ asked = {} /\ skipped = FALSE /\ left = Disturbances

Disturb == left > 0 /\ left' = left - 1

-----------------------------------------------------------------------------
IsMasternodeListSynced == asset > LIST
IsSynced(a, h) == h >= SyncedHeight => a = FINISHED

\* CheckNodeHeight: neither stuck nor ahead, with a margin of one block. One
\* such peer is enough (MASTERNODE_SYNC_ENOUGH_PEERS).
CheckNodeHeight(p) ==
    tip - 1 <= PeerHeight[p] /\ tip >= PeerHeight[p] - 1

Reset == asset' = INITIAL /\ attempt' = 0 /\ timer' = 0

\* IsBlockchainSynced: its answer, its statics, and whether it calls Reset.
IsBlockchainSynced(accepted) ==
    LET slept == chainSync.age >= Hour
        before == [chainSync EXCEPT !.synced = @ /\ ~ slept]
        restart == accepted /\ ~ IsSynced(IF slept THEN INITIAL ELSE asset, tip)
        now == \/ before.synced
               \/ /\ tip >= CheckpointHeight
                  /\ (\E p \in peers : CheckNodeHeight(p)) \/ (before.first /\ tip >= RecentHeight)
        after == CASE restart -> [synced |-> FALSE, first |-> TRUE, age |-> 0]
                   [] ~ accepted /\ chainSync.age = 0 -> before
                   [] OTHER -> [before EXCEPT !.synced = now, !.age = 0]
    IN  IF tip <= MasternodeInitialize
        THEN [answer |-> TRUE, static |-> chainSync, reset |-> FALSE]
        ELSE [answer |-> after.synced, static |-> after, reset |-> slept]

\* A call for its effects.
PollChain(call) ==
    /\ chainSync' = call.static
    /\ IF call.reset THEN Reset ELSE UNCHANGED <<asset, attempt, timer>>

\* The asset after a in SwitchToNextAsset.
NextAsset(a) ==
    CASE a = INITIAL -> SPORKS [] a = SPORKS -> LIST [] a = LIST -> MNW [] OTHER -> FINISHED

\* Mutant: the requests for payment votes are not forgotten.
ClearKeepsPayment(free) ==
    flags' = [p \in Peer |-> IF free /\ p \in peers THEN flags[p] \cap {"payment"} ELSE flags[p]]

\* ClearFulfilledRequests: for connected peers, if cs_vNodes is free.
ClearFulfilledRequests(free) ==
    flags' = [p \in Peer |-> IF free /\ p \in peers THEN {} ELSE flags[p]]

\* Mutant: the count of requests is carried over to the next asset.
SwitchKeepsAttempt(a, free) ==
    /\ asset' = a /\ UNCHANGED attempt /\ timer' = 0
    /\ IF a = SPORKS
       THEN ClearFulfilledRequests(free) /\ asked' = {}
       ELSE UNCHANGED <<flags, asked>>

\* SwitchToNextAsset, from its first write on.
SwitchTo(a, free) ==
    /\ asset' = a /\ attempt' = 0 /\ timer' = 0
    /\ IF a = SPORKS
       THEN ClearFulfilledRequests(free) /\ asked' = {}
       ELSE UNCHANGED <<flags, asked>>

-----------------------------------------------------------------------------
(* ProcessTick.                                                            *)

Tick ==
    /\ pc = "idle" /\ due /\ due' = FALSE
    /\ UNCHANGED <<tip, paymentVars, connecting, rpc, peers, flags, history, left>>

TickSynced ==
    /\ Tick /\ IsSynced(asset, tip)
    /\ pc' = "poll"
    /\ UNCHANGED <<asset, attempt, timer, chainSync, to, todo>>

TickFailed ==
    /\ Tick /\ ~ IsSynced(asset, tip) /\ asset = FAILED
    /\ IF timer > Cooldown THEN Reset ELSE UNCHANGED <<asset, attempt, timer>>
    /\ pc' = "poll"
    /\ UNCHANGED <<chainSync, to, todo>>

\* The blockchain is behind: an asset is not timed out meanwhile.
TickWaits ==
    /\ Tick /\ ~ IsSynced(asset, tip) /\ asset > SPORKS
    /\ LET call == IsBlockchainSynced(FALSE)
       IN  ~ call.answer /\ ~ call.reset /\ chainSync' = call.static
    /\ timer' = 0
    /\ pc' = "poll"
    /\ UNCHANGED <<asset, attempt, to, todo>>

\* On to the next asset, or to the loop over the peers.
TickGoes ==
    /\ Tick /\ ~ IsSynced(asset, tip) /\ asset # FAILED
    /\ LET call == IsBlockchainSynced(FALSE)
           a == IF call.reset THEN INITIAL ELSE asset
           switch == a = INITIAL \/ (a = SPORKS /\ call.answer)
       IN  /\ call.answer \/ a <= SPORKS
           /\ PollChain(call)
           /\ todo' = IF switch THEN {} ELSE peers
           /\ pc' = CASE switch -> "start"
                       [] ~ switch /\ peers # {} -> "loop"
                       [] OTHER -> "poll"
    /\ UNCHANGED to

\* SwitchToNextAsset reads the asset, which may have changed since the test.
TickReads ==
    /\ pc \in {"start", "last"} /\ asset # FINISHED
    /\ to' = NextAsset(asset)
    /\ pc' = IF pc = "start" THEN "start switch" ELSE "last switch"
    /\ UNCHANGED <<tip, paymentVars, asset, attempt, timer, chainSync, todo, due,
                   connecting, rpc, peers, flags, history, left>>

\* From the first switch the tick goes on to the peers, from the last it returns.
AfterSwitch ==
    IF pc \in {"start", "start switch"} /\ peers # {}
    THEN pc' = "loop" /\ todo' = peers
    ELSE pc' = "poll" /\ todo' = {}

\* FINISHED has no case in SwitchToNextAsset: only the count is cleared.
TickReadsFinished ==
    /\ pc \in {"start", "last"} /\ asset = FINISHED
    /\ attempt' = 0
    /\ AfterSwitch
    /\ UNCHANGED <<tip, paymentVars, asset, timer, chainSync, to, due, connecting, rpc,
                   peers, flags, history, left>>

TickSwitch ==
    /\ pc \in {"start switch", "last switch"}
    /\ \E free \in BOOLEAN :
          /\ SwitchTo(to, free)
          /\ IF free \/ to # SPORKS THEN UNCHANGED left ELSE Disturb
    /\ to' = INITIAL
    /\ skipped' = (skipped /\ to # SPORKS)
    /\ AfterSwitch
    /\ UNCHANGED <<tip, paymentVars, chainSync, due, connecting, rpc, peers>>

\* How one peer's turn in the loop ends: on to the next peer, or out.
Continue(p) ==
    todo' = todo \ {p} /\ pc' = (IF todo = {p} THEN "poll" ELSE "loop")
Return(where) == todo' = {} /\ pc' = where

Visit(p) ==
    /\ pc = "loop" /\ p \in todo
    /\ UNCHANGED <<tip, paymentVars, chainSync, to, due, connecting, rpc, peers, skipped, left>>

VisitSkips(p) ==
    /\ Visit(p)
    /\ p \in Ignored \/ ("spork" \in flags[p] /\ asset \notin {LIST, MNW})
    /\ Continue(p)
    /\ UNCHANGED <<asset, attempt, timer, flags, asked>>

VisitSporks(p) ==
    /\ Visit(p) /\ p \notin Ignored /\ "spork" \notin flags[p]
    /\ flags' = [flags EXCEPT ![p] = @ \cup {"spork"}]
    /\ Continue(p)
    /\ UNCHANGED <<asset, attempt, timer, asked>>

VisitAsset(p) ==
    Visit(p) /\ p \notin Ignored /\ "spork" \in flags[p] /\ asset \in {LIST, MNW}

\* A timeout before anyone was asked is a failure.
VisitFails(p) ==
    /\ VisitAsset(p) /\ timer > Timeout /\ attempt = 0
    /\ asset' = FAILED /\ timer' = 0
    /\ Return("poll")
    /\ UNCHANGED <<attempt, flags, asked>>

VisitEnds(p) ==
    /\ VisitAsset(p)
    /\ \/ timer > Timeout /\ attempt # 0
       \/ asset = MNW /\ timer <= Timeout /\ attempt > 1 /\ IsEnoughData
    /\ Return("last")
    /\ UNCHANGED <<asset, attempt, timer, flags, asked>>

\* One request for the asset to each peer; the next peer if there was one.
VisitAsks(p) ==
    /\ VisitAsset(p) /\ timer <= Timeout /\ ~ (asset = MNW /\ attempt > 1 /\ IsEnoughData)
    /\ LET name == IF asset = LIST THEN "list" ELSE "payment"
       IN  /\ flags' = [flags EXCEPT ![p] = @ \cup {name}]
           /\ IF name \in flags[p] \/ p \in Outdated
              THEN Continue(p) /\ UNCHANGED <<attempt, asked>>
              ELSE /\ attempt' = IF attempt < MaxAttempt THEN attempt + 1 ELSE attempt
                   /\ asked' = asked \cup {name}
                   /\ Return("poll")
    /\ UNCHANGED <<asset, timer>>

\* The rest of a round of ThreadCheckDarkSendPool, one in sixty with
\* mnpayments.CheckAndRemove.
RoundEnd ==
    /\ pc = "poll" /\ pc' = "idle"
    /\ LET call == IsBlockchainSynced(FALSE)
       IN  /\ PollChain(call)
           /\ \/ call.answer /\ CheckAndRemove
              \/ UNCHANGED paymentVars
    /\ UNCHANGED <<rpc, tip, to, todo, due, connecting, peers, flags, history, left>>

-----------------------------------------------------------------------------
(* The other threads.                                                      *)

syncVars == <<asset, attempt, timer, chainSync, tickVars, flags, history>>

\* IsBlockchainSynced from the GUI, from RPC and for masternode messages.
Poll ==
    /\ PollChain(IsBlockchainSynced(FALSE))
    /\ UNCHANGED <<tip, paymentVars, tickVars, connecting, rpc, peers, flags, history, left>>

\* A block is connected, or disconnected in a reorganisation.
UpdateTip(h) ==
    /\ own = NoVote
    /\ tip' = h /\ connecting' = TRUE
    /\ ProcessBlock(h, IsMasternodeListSynced)
    /\ UNCHANGED <<rpc, votes, payees, lastVote, msg, syncVars, peers>>

ConnectTip == tip < MaxHeight /\ UpdateTip(tip + 1) /\ UNCHANGED left
DisconnectTip == tip > StartHeight /\ UpdateTip(tip - 1) /\ Disturb

OwnVote ==
    /\ AddOwnVote
    /\ UNCHANGED <<rpc, tip, syncVars, connecting, peers, left>>

\* The end of ProcessNewBlock.
BlockAccepted ==
    /\ connecting /\ own = NoVote
    /\ connecting' = FALSE
    /\ PollChain(IsBlockchainSynced(TRUE))
    /\ UNCHANGED <<rpc, tip, paymentVars, tickVars, peers, flags, history, left>>

HandleVote(v) ==
    /\ IsMasternodeListSynced /\ ReceiveVote(v)
    /\ UNCHANGED <<rpc, tip, syncVars, connecting, peers, left>>

VoteStep ==
    /\ CheckVote \/ VerifyVote
    /\ UNCHANGED <<rpc, tip, syncVars, connecting, peers, left>>

\* With AddedPaymentVote.
VoteAdded ==
    /\ AddReceivedVote
    /\ timer' = IF asset = MNW THEN 0 ELSE timer
    /\ UNCHANGED <<rpc, tip, asset, attempt, chainSync, tickVars, flags, history,
                   connecting, peers, left>>

\* AddedMasternodeList: a masternode was added or updated.
AddedMasternodeList ==
    /\ Disturb
    /\ timer' = IF asset = LIST THEN 0 ELSE timer
    /\ UNCHANGED <<rpc, tip, paymentVars, asset, attempt, chainSync, tickVars, flags, history,
                   connecting, peers>>

-----------------------------------------------------------------------------
(* Commands, peers, time.                                                  *)

\* mnsync next: SwitchToNextAsset in the RPC thread. It throws from FAILED and
\* only clears a count that is 0 from FINISHED.
RpcNext ==
    /\ rpc = FAILED /\ asset \notin {FAILED, FINISHED} /\ Disturb
    /\ rpc' = NextAsset(asset)
    /\ UNCHANGED <<tip, paymentVars, syncVars, connecting, peers>>

RpcSwitch ==
    /\ rpc # FAILED /\ rpc' = FAILED
    /\ \E free \in BOOLEAN : SwitchTo(rpc, free)
    /\ skipped' = TRUE
    /\ UNCHANGED <<tip, paymentVars, chainSync, tickVars, connecting, peers, left>>

RpcReset ==
    /\ Disturb /\ Reset
    /\ UNCHANGED <<tip, paymentVars, chainSync, tickVars, connecting, rpc, peers,
                   flags, history>>

Connect(p) ==
    /\ p \notin peers
    /\ peers' = peers \cup {p}
    /\ IF p = Stable THEN UNCHANGED left ELSE Disturb
    /\ UNCHANGED <<tip, paymentVars, syncVars, connecting, rpc>>

Disconnect(p) ==
    /\ p \in peers \ {Stable}
    /\ peers' = peers \ {p}
    /\ UNCHANGED <<tip, paymentVars, syncVars, connecting, rpc, left>>

\* FulfilledRequestExpireTime has passed for all requests to a peer.
Expire(p) ==
    /\ flags[p] # {} /\ Disturb
    /\ flags' = [flags EXCEPT ![p] = {}]
    /\ UNCHANGED <<tip, paymentVars, asset, attempt, timer, chainSync, tickVars,
                   connecting, rpc, peers, history>>

Latest == IF Timeout > Cooldown THEN Timeout + 1 ELSE Cooldown + 1

\* Six seconds. The thread is back from its last tick.
Clock ==
    /\ pc = "idle" /\ ~ due
    /\ due' = TRUE
    /\ timer' = IF timer < Latest THEN timer + 1 ELSE timer
    /\ chainSync' = [chainSync EXCEPT !.age = IF @ < Hour THEN @ + 1 ELSE @]
    /\ UNCHANGED <<tip, paymentVars, asset, attempt, pc, to, todo, connecting, rpc,
                   peers, flags, history, left>>

\* The machine sleeps for more than an hour, wherever the threads are.
Sleep ==
    /\ Disturb
    /\ timer' = Latest
    /\ chainSync' = [chainSync EXCEPT !.age = Hour]
    /\ UNCHANGED <<tip, paymentVars, asset, attempt, tickVars, connecting, rpc, peers,
                   flags, history>>

-----------------------------------------------------------------------------
Thread ==
    \/ TickSynced \/ TickFailed \/ TickWaits \/ TickGoes \/ TickReads
    \/ TickReadsFinished \/ TickSwitch \/ RoundEnd
    \/ \E p \in Peer : \/ VisitSkips(p) \/ VisitSporks(p) \/ VisitFails(p)
                       \/ VisitEnds(p) \/ VisitAsks(p)

Next ==
    \/ Thread
    \/ Poll \/ ConnectTip \/ DisconnectTip \/ OwnVote \/ BlockAccepted
    \/ (\E v \in Vote : HandleVote(v)) \/ VoteStep \/ VoteAdded
    \/ AddedMasternodeList \/ RpcNext \/ RpcSwitch \/ RpcReset \/ Clock \/ Sleep
    \/ \E p \in Peer : Connect(p) \/ Disconnect(p) \/ Expire(p)

Fairness ==
    /\ WF_vars(Thread) /\ WF_vars(Clock) /\ WF_vars(RpcSwitch)
    /\ WF_vars(ConnectTip) /\ WF_vars(OwnVote) /\ WF_vars(BlockAccepted)
    /\ WF_vars(Connect(Stable))

Spec == Init /\ [][Next]_vars /\ Fairness

-----------------------------------------------------------------------------
\* Sync is declared finished only after the masternode list and the payment
\* votes were each asked from some peer since the machine left INITIAL, unless
\* mnsync next was used: every switch clears the count of requests that lets
\* an asset time out as done.
FinishedAfterRequests ==
    asset = FINISHED => skipped \/ {"list", "payment"} \subseteq asked

\* With one peer that stays and is at our height, sync ends finished, whatever
\* failed, was reset or was remembered from the last run as already asked.
SyncCompletes == <>[](asset = FINISHED)
=============================================================================
