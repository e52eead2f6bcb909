-------------------------- MODULE MasternodeProof ---------------------------
(***************************************************************************)
(* Proofs about MasternodeSync and the payment votes it is composed with,  *)
(* for any set of votes and peers, any heights and any number of           *)
(* disturbances.                                                           *)
(***************************************************************************)
EXTENDS MasternodeSync, TLAPS

-----------------------------------------------------------------------------
(* The payment votes.                                                      *)

VotesTyped == votes \in [Vote -> {"absent", "unverified", "verified"}]
PayeesTyped == payees \in [VoteHeight -> Seq(Vote)]
PendingTyped ==
    /\ msg.at # "idle" => msg.vote \in Vote
    /\ own # NoVote => own \in Vote

\* The inductive invariant of the votes: the property needs the types, and
\* that a vote on its way is one.
VotesInv == VotesTyped /\ PayeesTyped /\ PendingTyped /\ VotesBackPayees

\* Appending a vote hash to a block's list adds it to the hashes counted.
LEMMA ToSetAppend ==
    ASSUME NEW s \in Seq(Vote), NEW v \in Vote
    PROVE  /\ Append(s, v) \in Seq(Vote)
           /\ ToSet(Append(s, v)) = ToSet(s) \cup {v}
<1>1. Append(s, v) \in Seq(Vote)
  OBVIOUS
<1>2. /\ DOMAIN s = 1..Len(s)
      /\ DOMAIN Append(s, v) = 1..(Len(s) + 1)
      /\ Len(s) \in Nat
  OBVIOUS
<1>3. /\ \A i \in 1..Len(s) : Append(s, v)[i] = s[i]
      /\ Append(s, v)[Len(s) + 1] = v
  OBVIOUS
<1>4. 1..(Len(s) + 1) = 1..Len(s) \cup {Len(s) + 1}
  BY <1>2
<1> QED
  BY <1>1, <1>2, <1>3, <1>4 DEF ToSet

\* AddPaymentVote, whoever calls it, keeps the two maps in agreement, even for
\* a vote that was counted before.
LEMMA AddKeeps ==
    ASSUME VotesTyped, PayeesTyped, VotesBackPayees,
           NEW v \in Vote, AddPaymentVote(v)
    PROVE  VotesTyped' /\ PayeesTyped' /\ VotesBackPayees'
<1>1. v.height \in VoteHeight /\ payees[v.height] \in Seq(Vote)
  BY DEF VoteHeight, PayeesTyped
<1>2. /\ Append(payees[v.height], v) \in Seq(Vote)
      /\ ToSet(Append(payees[v.height], v)) = ToSet(payees[v.height]) \cup {v}
  BY <1>1, ToSetAppend
<1>3. VotesTyped'
  BY DEF VotesTyped, AddPaymentVote
<1>4. PayeesTyped'
  BY <1>1, <1>2 DEF PayeesTyped, AddPaymentVote
<1>5. ASSUME NEW h \in VoteHeight
      PROVE  ToSet(payees'[h]) = {w \in Vote : w.height = h /\ votes'[w] = "verified"}
  <2>1. ToSet(payees[h]) = {w \in Vote : w.height = h /\ votes[w] = "verified"}
    BY <1>5 DEF VotesBackPayees, HasVerifiedPaymentVote
  <2>2. \A w \in Vote : votes'[w] = "verified" <=> (w = v \/ votes[w] = "verified")
    BY DEF VotesTyped, AddPaymentVote
  <2>3. ToSet(payees'[h]) = IF h = v.height THEN ToSet(payees[h]) \cup {v} ELSE ToSet(payees[h])
    BY <1>1, <1>2 DEF PayeesTyped, AddPaymentVote
  <2> QED
    BY <2>1, <2>2, <2>3
<1>6. VotesBackPayees'
  BY <1>5 DEF VotesBackPayees, HasVerifiedPaymentVote
<1> QED
  BY <1>3, <1>4, <1>6

\* CheckAndRemove forgets all votes of a height or none of them.
LEMMA RemoveKeeps ==
    ASSUME VotesInv, CheckAndRemove
    PROVE  VotesInv'
<1> DEFINE old == {v \in Vote : Old(v)}
<1>1. /\ votes' = [v \in Vote |-> IF v \in old THEN "absent" ELSE votes[v]]
      /\ payees' = [h \in VoteHeight |->
                      IF \E v \in old : v.height = h THEN <<>> ELSE payees[h]]
      /\ UNCHANGED <<msg, own>>
  BY DEF CheckAndRemove
<1>2. VotesTyped' /\ PayeesTyped' /\ PendingTyped'
  <2>1. VotesTyped'
    BY <1>1 DEF VotesInv, VotesTyped
  <2>2. PayeesTyped'
    BY <1>1 DEF VotesInv, PayeesTyped
  <2> QED
    BY <1>1, <2>1, <2>2 DEF VotesInv, PendingTyped
<1>3. ASSUME NEW h \in VoteHeight
      PROVE  ToSet(payees'[h]) = {w \in Vote : w.height = h /\ votes'[w] = "verified"}
  <2>1. ToSet(payees[h]) = {w \in Vote : w.height = h /\ votes[w] = "verified"}
    BY <1>3 DEF VotesInv, VotesBackPayees, HasVerifiedPaymentVote
  <2>2. CASE \E v \in old : v.height = h
    <3>1. tip - h > StorageLimit
      BY <2>2 DEF Old
    <3>2. \A w \in Vote : w.height = h /\ votes[w] = "verified" => w \in old
      BY <3>1 DEF Old
    <3>3. {w \in Vote : w.height = h /\ votes'[w] = "verified"} = {}
      BY <1>1, <3>2
    <3>4. payees'[h] = <<>> /\ ToSet(<<>>) = {}
      BY <1>1, <1>3, <2>2 DEF ToSet
    <3> QED
      BY <3>3, <3>4
  <2>3. CASE ~ \E v \in old : v.height = h
    <3>1. payees'[h] = payees[h]
      BY <1>1, <1>3, <2>3
    <3>2. \A w \in Vote : w.height = h => votes'[w] = votes[w]
      BY <1>1, <2>3
    <3> QED
      BY <2>1, <3>1, <3>2
  <2> QED
    BY <2>2, <2>3
<1>4. VotesBackPayees'
  BY <1>3 DEF VotesBackPayees, HasVerifiedPaymentVote
<1> QED
  BY <1>2, <1>4 DEF VotesInv

\* A step that leaves both maps and the votes on their way alone.
LEMMA VotesStutter ==
    ASSUME VotesInv, UNCHANGED <<votes, payees, msg, own>>
    PROVE  VotesInv'
BY DEF VotesInv, VotesTyped, PayeesTyped, PendingTyped, VotesBackPayees, HasVerifiedPaymentVote

\* One step of any thread keeps the invariant of the votes.
LEMMA VotesInductive ==
    ASSUME VotesInv, [Next]_vars
    PROVE  VotesInv'
<1>1. ASSUME Thread PROVE VotesInv'
  <2>1. CASE RoundEnd
    <3>1. CheckAndRemove \/ UNCHANGED paymentVars
      BY <2>1 DEF RoundEnd
    <3>2. CASE UNCHANGED paymentVars
      BY <3>2, VotesStutter DEF paymentVars
    <3> QED
      BY <3>1, <3>2, RemoveKeeps
  <2>2. CASE TickSynced \/ TickFailed \/ TickWaits \/ TickGoes \/ TickReads \/ TickReadsFinished \/ TickSwitch
    <3>1. CASE Tick
      BY <3>1, VotesStutter DEF Tick, paymentVars
    <3>2. CASE TickReads
      BY <3>2, VotesStutter DEF TickReads, paymentVars
    <3>3. CASE TickReadsFinished
      BY <3>3, VotesStutter DEF TickReadsFinished, paymentVars
    <3>4. CASE TickSwitch
      BY <3>4, VotesStutter DEF TickSwitch, paymentVars
    <3>5. TickSynced \/ TickFailed \/ TickWaits \/ TickGoes => Tick
      BY DEF TickSynced, TickFailed, TickWaits, TickGoes
    <3> QED
      BY <2>2, <3>1, <3>2, <3>3, <3>4, <3>5
  <2>3. ASSUME NEW p \in Peer,
               VisitSkips(p) \/ VisitSporks(p) \/ VisitFails(p) \/ VisitEnds(p) \/ VisitAsks(p)
        PROVE  VotesInv'
    <3>1. Visit(p)
      BY <2>3 DEF VisitSkips, VisitSporks, VisitFails, VisitEnds, VisitAsks, VisitAsset
    <3> QED
      BY <3>1, VotesStutter DEF Visit, paymentVars
  <2> QED
    BY <1>1, <2>1, <2>2, <2>3 DEF Thread
<1>2. ASSUME NEW h, UpdateTip(h) PROVE VotesInv'
  <2>1. own' = NoVote \/ own' \in Vote
    BY <1>2 DEF UpdateTip, ProcessBlock
  <2> QED
    BY <1>2, <2>1
       DEF UpdateTip, VotesInv, VotesTyped, PayeesTyped, PendingTyped, VotesBackPayees,
           HasVerifiedPaymentVote
<1>3. ASSUME OwnVote PROVE VotesInv'
  <2>1. own \in Vote /\ AddPaymentVote(own) /\ own' = NoVote /\ msg' = msg
    BY <1>3 DEF OwnVote, AddOwnVote, VotesInv, PendingTyped
  <2>2. VotesTyped' /\ PayeesTyped' /\ VotesBackPayees'
    BY <2>1, AddKeeps DEF VotesInv
  <2> QED
    BY <2>1, <2>2 DEF VotesInv, PendingTyped
<1>4. ASSUME VoteAdded PROVE VotesInv'
  <2>1. msg.vote \in Vote /\ AddPaymentVote(msg.vote) /\ msg' = Idle /\ own' = own
    BY <1>4 DEF VoteAdded, AddReceivedVote, VotesInv, PendingTyped
  <2>2. VotesTyped' /\ PayeesTyped' /\ VotesBackPayees'
    BY <2>1, AddKeeps DEF VotesInv
  <2> QED
    BY <2>1, <2>2 DEF VotesInv, PendingTyped, Idle
<1>5. ASSUME NEW v \in Vote, HandleVote(v) PROVE VotesInv'
  <2>1. /\ votes[v] = "absent"
        /\ votes' = [votes EXCEPT ![v] = "unverified"]
        /\ msg' = [vote |-> v, at |-> "check"]
        /\ UNCHANGED <<payees, own>>
    BY <1>5 DEF HandleVote, ReceiveVote, Recorded
  <2>2. VotesTyped' /\ PayeesTyped' /\ PendingTyped'
    BY <2>1 DEF VotesInv, VotesTyped, PayeesTyped, PendingTyped
  <2>3. \A w \in Vote : votes'[w] = "verified" <=> votes[w] = "verified"
    BY <2>1 DEF VotesInv, VotesTyped
  <2>4. VotesBackPayees'
    BY <2>1, <2>3 DEF VotesInv, VotesBackPayees, HasVerifiedPaymentVote
  <2> QED
    BY <2>2, <2>4 DEF VotesInv
<1>6. ASSUME VoteStep PROVE VotesInv'
  <2>1. UNCHANGED <<votes, payees, own>>
    BY <1>6 DEF VoteStep, CheckVote, VerifyVote
  <2>2. msg'.at # "idle" => msg'.vote \in Vote
    <3>1. CASE msg' = Idle
      BY <3>1 DEF Idle
    <3>2. ASSUME NEW s \in {"verify", "add"}, msg.at # "idle", msg' = [msg EXCEPT !.at = s]
          PROVE  msg'.at # "idle" => msg'.vote \in Vote
      <4>1. msg.vote \in Vote
        BY <3>2 DEF VotesInv, PendingTyped
      <4>2. msg'.vote = msg.vote \/ msg' = msg
        BY <3>2
      <4> QED
        BY <4>1, <4>2
    <3>3. CASE CheckVote
      <4>1. msg' = Idle \/ (msg.at # "idle" /\ msg' = [msg EXCEPT !.at = "verify"])
        BY <3>3 DEF CheckVote
      <4> QED
        BY <3>1, <3>2, <4>1
    <3>4. CASE VerifyVote
      <4>1. msg' = Idle \/ (msg.at # "idle" /\ msg' = [msg EXCEPT !.at = "add"])
        BY <3>4 DEF VerifyVote
      <4> QED
        BY <3>1, <3>2, <4>1
    <3> QED
      BY <1>6, <3>3, <3>4 DEF VoteStep
  <2> QED
    BY <2>1, <2>2
       DEF VotesInv, VotesTyped, PayeesTyped, PendingTyped, VotesBackPayees, HasVerifiedPaymentVote
<1>7. ASSUME Poll \/ BlockAccepted \/ AddedMasternodeList \/ RpcNext \/ RpcSwitch \/ RpcReset
             \/ Clock \/ Sleep
      PROVE  VotesInv'
  BY <1>7, VotesStutter
     DEF Poll, BlockAccepted, AddedMasternodeList, RpcNext, RpcSwitch, RpcReset, Clock, Sleep,
         paymentVars
<1>8. ASSUME NEW p \in Peer, Connect(p) \/ Disconnect(p) \/ Expire(p) PROVE VotesInv'
  BY <1>8, VotesStutter DEF Connect, Disconnect, Expire, paymentVars
<1>9. ASSUME UNCHANGED vars PROVE VotesInv'
  BY <1>9, VotesStutter DEF vars, paymentVars
<1> QED
  BY <1>1, <1>2, <1>3, <1>4, <1>5, <1>6, <1>7, <1>8, <1>9 DEF Next, ConnectTip, DisconnectTip

\* The maps of votes and of payees agree at all times: no interleaving of the
\* message thread, of our own vote and of the maintenance thread counts a vote
\* that is not verified or drops the count of one that is.
THEOREM VotesBackPayeesHold == Spec => []VotesBackPayees
<1>1. Init => VotesInv
  <2> SUFFICES ASSUME Init PROVE VotesInv
    OBVIOUS
  <2>1. ToSet(<<>>) = {}
    BY DEF ToSet
  <2>2. VotesTyped /\ PayeesTyped /\ PendingTyped
    BY DEF Init, PaymentsInit, VotesTyped, PayeesTyped, PendingTyped, Idle
  <2>3. VotesBackPayees
    BY <2>1 DEF Init, PaymentsInit, VotesBackPayees, HasVerifiedPaymentVote
  <2> QED
    BY <2>2, <2>3 DEF VotesInv
<1>2. VotesInv /\ [Next]_vars => VotesInv'
  BY VotesInductive
<1>3. VotesInv => VotesBackPayees
  BY DEF VotesInv
<1> QED
  BY <1>1, <1>2, <1>3, PTL DEF Spec

-----------------------------------------------------------------------------
(* The stages of the sync.                                                 *)

Assets == {FAILED, INITIAL, SPORKS, LIST, MNW, FINISHED}

DidList == skipped \/ "list" \in asked
DidPayments == skipped \/ "payment" \in asked

\* What the current asset and its count of requests say about the requests.
AssetOK ==
    /\ asset \in Assets
    /\ asset \in {MNW, FINISHED} => DidList
    /\ asset = FINISHED => DidPayments
    /\ asset = LIST /\ attempt # 0 => DidList
    /\ asset = MNW /\ attempt # 0 => DidPayments

\* The same for the asset a switch in progress has yet to read ...
ReadOK ==
    pc \in {"start", "last"} =>
        /\ asset # FAILED
        /\ asset = LIST => DidList
        /\ asset = MNW => DidPayments

\* ... and for the one it has yet to write.
WriteOK ==
    pc \in {"start switch", "last switch"} =>
        /\ to \in Assets
        /\ to \in {MNW, FINISHED} => DidList
        /\ to = FINISHED => DidPayments

SyncInv == AssetOK /\ ReadOK /\ WriteOK /\ rpc \in Assets

\* What was asked stays so while the history is not cleared.
LEMMA DidKept ==
    ASSUME skipped' = skipped, asked \subseteq asked'
    PROVE  (DidList => DidList') /\ (DidPayments => DidPayments')
BY Zenon DEF DidList, DidPayments

\* The numbers of the assets are six.
LEMMA AssetsDiffer ==
    /\ INITIAL \in Assets /\ FAILED \in Assets /\ SPORKS \in Assets
    /\ LIST \in Assets /\ MNW \in Assets /\ FINISHED \in Assets
    /\ INITIAL \notin {FAILED, LIST, MNW, FINISHED}
    /\ SPORKS \notin {FAILED, LIST, MNW, FINISHED}
    /\ FAILED \notin {LIST, MNW, FINISHED}
    /\ LIST \notin {MNW, FINISHED} /\ MNW # FINISHED
BY DEF Assets, FAILED, INITIAL, SPORKS, LIST, MNW, FINISHED

\* The order SwitchToNextAsset goes through them.
LEMMA NextAssets ==
    /\ NextAsset(INITIAL) = SPORKS /\ NextAsset(SPORKS) = LIST /\ NextAsset(LIST) = MNW
    /\ NextAsset(MNW) = FINISHED
BY DEF NextAsset, INITIAL, SPORKS, LIST, MNW, FINISHED

\* A reset, or no change of the asset and its count.
LEMMA AssetKept ==
    ASSUME AssetOK, DidList => DidList', DidPayments => DidPayments',
           asset' = INITIAL \/ UNCHANGED <<asset, attempt>>
    PROVE  AssetOK'
<1>1. CASE asset' = INITIAL
  BY <1>1, AssetsDiffer DEF AssetOK
<1>2. CASE UNCHANGED <<asset, attempt>>
  BY <1>2 DEF AssetOK
<1> QED
  BY <1>1, <1>2

\* A thread that is not switching has nothing pending.
LEMMA NotSwitching ==
    ASSUME pc' \in {"idle", "loop", "poll"}
    PROVE  ReadOK' /\ WriteOK'
BY DEF ReadOK, WriteOK

\* A step outside the tick that resets the asset, or leaves it and its count.
LEMMA SyncQuiet ==
    ASSUME SyncInv, rpc' \in Assets,
           UNCHANGED <<pc, to, asked, skipped>>,
           asset' = INITIAL \/ UNCHANGED <<asset, attempt>>
    PROVE  SyncInv'
<1>1. (DidList => DidList') /\ (DidPayments => DidPayments')
  BY DidKept
<1>2. AssetOK'
  BY <1>1, AssetKept DEF SyncInv
<1>3. ReadOK'
  <2>1. CASE asset' = INITIAL
    BY <2>1, AssetsDiffer DEF ReadOK
  <2>2. CASE UNCHANGED asset
    BY <1>1, <2>2 DEF SyncInv, ReadOK
  <2> QED
    BY <2>1, <2>2
<1>4. WriteOK'
  BY <1>1 DEF SyncInv, WriteOK
<1> QED
  BY <1>2, <1>3, <1>4 DEF SyncInv

\* A step of the tick that is no switch and resets the asset or leaves it.
LEMMA TickQuiet ==
    ASSUME SyncInv, pc' \in {"idle", "loop", "poll"},
           UNCHANGED <<rpc, asked, skipped>>,
           asset' = INITIAL \/ UNCHANGED <<asset, attempt>>
    PROVE  SyncInv'
<1>1. (DidList => DidList') /\ (DidPayments => DidPayments')
  BY DidKept
<1>2. AssetOK'
  BY <1>1, AssetKept DEF SyncInv
<1> QED
  BY <1>2, NotSwitching DEF SyncInv

\* IsBlockchainSynced changes the asset only by Reset.
LEMMA PollResets ==
    ASSUME NEW call, PollChain(call)
    PROVE  asset' = INITIAL \/ UNCHANGED <<asset, attempt>>
BY DEF PollChain, Reset

\* One step of the thread of ProcessTick keeps the invariant of the stages.
LEMMA ThreadKeepsSync ==
    ASSUME SyncInv, Thread
    PROVE  SyncInv'
<1>1. CASE TickSynced \/ TickFailed \/ TickWaits \/ RoundEnd
  <2>1. /\ UNCHANGED <<asked, skipped, rpc>> /\ pc' \in {"idle", "poll"}
        /\ asset' = INITIAL \/ UNCHANGED <<asset, attempt>>
    BY <1>1, PollResets DEF TickSynced, TickFailed, TickWaits, RoundEnd, Tick, Reset, history
  <2> QED
    BY <2>1, TickQuiet
<1>2. CASE TickGoes
  <2> DEFINE call == IsBlockchainSynced(FALSE)
             a == IF call.reset THEN INITIAL ELSE asset
             switch == a = INITIAL \/ (a = SPORKS /\ call.answer)
  <2>1. /\ UNCHANGED <<asked, skipped, rpc>>
        /\ PollChain(call)
        /\ pc' = CASE switch -> "start"
                   [] ~ switch /\ peers # {} -> "loop"
                   [] OTHER -> "poll"
    BY <1>2 DEF TickGoes, Tick, history
  <2>2. asset' = a
    BY <2>1 DEF PollChain, Reset
  <2>3. asset' = INITIAL \/ UNCHANGED <<asset, attempt>>
    BY <2>1, PollResets
  <2> HIDE DEF call
  <2>4. CASE switch
    <3>1. pc' = "start" /\ asset' \in {INITIAL, SPORKS}
      BY <2>1, <2>2, <2>4
    <3>2. (DidList => DidList') /\ (DidPayments => DidPayments')
      BY <2>1, DidKept
    <3>3. AssetOK'
      BY <2>3, <3>2, AssetKept DEF SyncInv
    <3>4. ReadOK' /\ WriteOK'
      BY <3>1, AssetsDiffer DEF ReadOK, WriteOK
    <3> QED
      BY <2>1, <3>3, <3>4 DEF SyncInv
  <2>5. CASE ~ switch
    <3>1. pc' \in {"loop", "poll"}
      BY <2>1, <2>5
    <3> QED
      BY <2>1, <2>3, <3>1, TickQuiet
  <2> QED
    BY <2>4, <2>5
<1>3. CASE TickReads
  <2>1. /\ pc \in {"start", "last"} /\ pc' \in {"start switch", "last switch"}
        /\ to' = NextAsset(asset)
        /\ UNCHANGED <<asset, attempt, asked, skipped, rpc>>
    BY <1>3 DEF TickReads, history
  <2>2. (DidList => DidList') /\ (DidPayments => DidPayments')
    BY <2>1, DidKept
  <2>3. AssetOK' /\ ReadOK'
    BY <2>1, <2>2, AssetKept DEF SyncInv, ReadOK
  <2>4. /\ asset \in Assets \ {FAILED}
        /\ asset = LIST => DidList
        /\ asset = MNW => DidPayments /\ DidList
        /\ asset # FINISHED
    BY <1>3, <2>1 DEF TickReads, SyncInv, AssetOK, ReadOK
  <2>5. \/ asset = INITIAL /\ to' = SPORKS
        \/ asset = SPORKS /\ to' = LIST
        \/ asset = LIST /\ to' = MNW
        \/ asset = MNW /\ to' = FINISHED
    <3>1. asset \in {INITIAL, SPORKS, LIST, MNW}
      BY <2>4 DEF Assets
    <3> QED
      BY <2>1, <3>1, NextAssets
  <2>6. WriteOK'
    BY <2>2, <2>4, <2>5, AssetsDiffer DEF WriteOK
  <2> QED
    BY <2>1, <2>3, <2>6 DEF SyncInv
<1>4. CASE TickSwitch
  <2>1. /\ pc \in {"start switch", "last switch"} /\ pc' \in {"loop", "poll"}
        /\ asset' = to /\ attempt' = 0
        /\ to # SPORKS => asked' = asked
        /\ skipped' = (skipped /\ to # SPORKS)
        /\ rpc' = rpc
    BY <1>4 DEF TickSwitch, SwitchTo, AfterSwitch
  <2>2. AssetOK'
    <3>1. CASE to = SPORKS
      BY <2>1, <3>1, AssetsDiffer DEF AssetOK
    <3>2. CASE to # SPORKS
      <4>1. asked' = asked /\ skipped' = (skipped /\ TRUE)
        BY <2>1, <3>2
      <4>2. (DidList => DidList') /\ (DidPayments => DidPayments')
        BY <4>1, Zenon DEF DidList, DidPayments
      <4>3. /\ to \in Assets
            /\ to \in {MNW, FINISHED} => DidList'
            /\ to = FINISHED => DidPayments'
        BY <2>1, <4>2 DEF SyncInv, WriteOK
      <4> QED
        BY <2>1, <4>3 DEF AssetOK
    <3> QED
      BY <3>1, <3>2
  <2> QED
    BY <2>1, <2>2, NotSwitching DEF SyncInv
<1>5. ASSUME NEW p \in Peer, VisitSkips(p) \/ VisitSporks(p) PROVE SyncInv'
  <2>1. /\ UNCHANGED <<asset, attempt, asked, skipped, rpc>>
        /\ pc' \in {"loop", "poll"}
    BY <1>5 DEF VisitSkips, VisitSporks, Visit, Continue
  <2> QED
    BY <2>1, TickQuiet
<1>6. ASSUME NEW p \in Peer, VisitFails(p) PROVE SyncInv'
  <2>1. asset' = FAILED /\ rpc' = rpc /\ pc' = "poll"
    BY <1>6 DEF VisitFails, VisitAsset, Visit, Return
  <2>2. AssetOK'
    BY <2>1, AssetsDiffer DEF AssetOK
  <2> QED
    BY <2>1, <2>2, NotSwitching DEF SyncInv
<1>7. ASSUME NEW p \in Peer, VisitEnds(p) PROVE SyncInv'
  <2>1. /\ asset \in {LIST, MNW} /\ attempt # 0 /\ pc' = "last"
        /\ UNCHANGED <<asset, attempt, asked, skipped, rpc>>
    BY <1>7 DEF VisitEnds, VisitAsset, Visit, Return
  <2>2. (DidList => DidList') /\ (DidPayments => DidPayments')
    BY <2>1, DidKept
  <2>3. AssetOK'
    BY <2>1, <2>2, AssetKept DEF SyncInv
  <2>4. ReadOK' /\ WriteOK'
    BY <2>1, <2>2, AssetsDiffer DEF SyncInv, AssetOK, ReadOK, WriteOK
  <2> QED
    BY <2>1, <2>3, <2>4 DEF SyncInv
<1>8. ASSUME NEW p \in Peer, VisitAsks(p) PROVE SyncInv'
  <2> DEFINE name == IF asset = LIST THEN "list" ELSE "payment"
  <2>1. /\ asset \in {LIST, MNW} /\ pc' \in {"loop", "poll"}
        /\ UNCHANGED <<asset, skipped, rpc>>
        /\ \/ UNCHANGED <<attempt, asked>>
           \/ asked' = asked \cup {name}
    BY <1>8 DEF VisitAsks, VisitAsset, Visit, Continue, Return
  <2>2. CASE UNCHANGED <<attempt, asked>>
    BY <2>1, <2>2, TickQuiet
  <2>3. CASE asked' = asked \cup {name}
    <3>1. (DidList => DidList') /\ (DidPayments => DidPayments')
      BY <2>1, <2>3, DidKept
    <3>2. (asset = LIST => DidList') /\ (asset = MNW => DidPayments')
      BY <2>3, AssetsDiffer DEF DidList, DidPayments
    <3>3. AssetOK'
      BY <2>1, <3>1, <3>2, AssetsDiffer DEF SyncInv, AssetOK
    <3> QED
      BY <2>1, <3>3, NotSwitching DEF SyncInv
  <2> QED
    BY <2>1, <2>2, <2>3
<1>9. CASE TickReadsFinished
  <2>1. /\ pc' \in {"loop", "poll"} /\ asset = FINISHED
        /\ UNCHANGED <<asset, asked, skipped, rpc>>
    BY <1>9 DEF TickReadsFinished, AfterSwitch, history
  <2>2. (DidList => DidList') /\ (DidPayments => DidPayments')
    BY <2>1, DidKept
  <2>3. AssetOK'
    BY <2>1, <2>2, AssetsDiffer DEF SyncInv, AssetOK
  <2> QED
    BY <2>1, <2>3, NotSwitching DEF SyncInv
<1> QED
  BY <1>1, <1>2, <1>3, <1>4, <1>5, <1>6, <1>7, <1>8, <1>9 DEF Thread

\* So does one step of any other thread.
LEMMA SyncInductive ==
    ASSUME SyncInv, [Next]_vars
    PROVE  SyncInv'
<1>1. rpc \in Assets
  BY DEF SyncInv
<1>2. CASE Thread
  BY <1>2, ThreadKeepsSync
<1>3. CASE Poll \/ BlockAccepted \/ RpcReset
  <2>1. /\ UNCHANGED <<pc, to, rpc, asked, skipped>>
        /\ asset' = INITIAL \/ UNCHANGED <<asset, attempt>>
    BY <1>3, PollResets DEF Poll, BlockAccepted, RpcReset, Reset, tickVars, history
  <2> QED
    BY <1>1, <2>1, SyncQuiet
<1>4. CASE RpcNext
  <2>1. rpc' \in Assets /\ UNCHANGED <<asset, attempt, pc, to, asked, skipped>>
    BY <1>4, AssetsDiffer DEF RpcNext, NextAsset, syncVars, tickVars, history
  <2> QED
    BY <2>1, SyncQuiet
<1>5. CASE RpcSwitch
  <2>1. /\ rpc # FAILED /\ rpc' = FAILED
        /\ asset' = rpc /\ attempt' = 0 /\ skipped' = TRUE
        /\ UNCHANGED <<pc, to>>
    BY <1>5 DEF RpcSwitch, SwitchTo, tickVars
  <2>2. DidList' /\ DidPayments'
    BY <2>1 DEF DidList, DidPayments
  <2>3. AssetOK' /\ ReadOK' /\ WriteOK'
    BY <1>1, <2>1, <2>2 DEF SyncInv, AssetOK, ReadOK, WriteOK
  <2> QED
    BY <2>1, <2>3, AssetsDiffer DEF SyncInv
<1>6. CASE \/ ConnectTip \/ DisconnectTip \/ OwnVote \/ VoteStep \/ VoteAdded
           \/ \E v \in Vote : HandleVote(v)
  <2>1. UNCHANGED <<asset, attempt, pc, to, rpc, asked, skipped>>
    BY <1>6
       DEF ConnectTip, DisconnectTip, UpdateTip, OwnVote, VoteStep, VoteAdded, HandleVote,
           syncVars, tickVars, history
  <2> QED
    BY <1>1, <2>1, SyncQuiet
<1>7. CASE AddedMasternodeList \/ Clock \/ Sleep
  <2>1. UNCHANGED <<asset, attempt, pc, to, rpc, asked, skipped>>
    BY <1>7 DEF AddedMasternodeList, Clock, Sleep, tickVars, history
  <2> QED
    BY <1>1, <2>1, SyncQuiet
<1>8. ASSUME NEW p \in Peer, Connect(p) \/ Disconnect(p) \/ Expire(p) PROVE SyncInv'
  <2>1. UNCHANGED <<asset, attempt, pc, to, rpc, asked, skipped>>
    BY <1>8 DEF Connect, Disconnect, Expire, syncVars, tickVars, history
  <2> QED
    BY <1>1, <2>1, SyncQuiet
<1>9. CASE UNCHANGED vars
  <2>1. UNCHANGED <<asset, attempt, pc, to, rpc, asked, skipped>>
    BY <1>9 DEF vars, tickVars, history
  <2> QED
    BY <1>1, <2>1, SyncQuiet
<1> QED
  BY <1>2, <1>3, <1>4, <1>5, <1>6, <1>7, <1>8, <1>9 DEF Next

\* Sync is never declared finished before the masternode list and the payment
\* votes were asked for, whatever the RPC commands, the resets by other threads
\* and the switch in progress do to the asset between the steps of a tick.
THEOREM FinishedAfterRequestsHolds == Spec => []FinishedAfterRequests
<1>1. Init => SyncInv
  BY DEF Init, SyncInv, AssetOK, ReadOK, WriteOK, Assets, FAILED, INITIAL, LIST, MNW, FINISHED
<1>2. SyncInv /\ [Next]_vars => SyncInv'
  BY SyncInductive
<1>3. SyncInv => FinishedAfterRequests
  BY DEF SyncInv, AssetOK, DidList, DidPayments, FinishedAfterRequests
<1> QED
  BY <1>1, <1>2, <1>3, PTL DEF Spec
=============================================================================
