------------------------- MODULE MasternodePayments -------------------------
(***************************************************************************)
(* masternode/masternode-payments.cpp: the votes of masternodes for the    *)
(* payees of coming blocks.                                                *)
(*                                                                         *)
(* A vote reaches the two maps along three paths that hold no common lock: *)
(* the message thread, which records it, checks it and counts it in        *)
(* separate critical sections; the thread that connects a block, when this *)
(* node is a masternode and votes itself; and the maintenance thread,      *)
(* which removes old votes.  The signature is not part of a vote's hash.   *)
(* What masternodeman.cpp answers (a masternode is known, its rank, its    *)
(* key, whose turn it is) is left open.                                    *)
(***************************************************************************)
EXTENDS Integers, Sequences, FiniteSets, SequencesExt

CONSTANTS
    Vote,               \* records [mn, height, payee]: what a vote's hash covers
    OwnMasternode,      \* activeMasternode, or NoVote when this node is none
    NoVote,
    VoteAhead,          \* blocks between the tip and the block voted for: 5
    VoteWindow,         \* how far ahead a vote is taken: 20
    HashDepth,          \* the rank uses the block this far below: 100
    StorageLimit,       \* GetStorageLimit
    AverageVotes        \* (MNPAYMENTS_SIGNATURES_TOTAL + ..._REQUIRED) / 2

VARIABLES
    tip,        \* height of pCurrentBlockIndex and of chainActive
    votes,      \* mapMasternodePaymentVotes: absent, unverified or verified
    payees,     \* mapMasternodeBlocks: the vote hashes of each height, in order
    lastVote,   \* mapMasternodesLastVote
    msg,        \* ProcessMessage: the vote it handles and how far it is
    own         \* ProcessBlock: our vote between its check and its insertion

paymentVars == <<votes, payees, lastVote, msg, own>>

Masternode == {v.mn : v \in Vote}
VoteHeight == {v.height : v \in Vote}

Idle == [vote |-> NoVote, at |-> "idle"]

PaymentsInit ==
    /\ votes = [v \in Vote |-> "absent"]
    /\ payees = [h \in VoteHeight |-> <<>>]
    /\ lastVote = [m \in Masternode |-> -1]
    /\ msg = Idle
    /\ own = NoVote

-----------------------------------------------------------------------------
(* Queries.                                                                *)

HasVerifiedPaymentVote(v) == votes[v] = "verified"

\* GetBlockHash succeeds with the tip at height t; -1 stands for the tip.
GetBlockHash(h, t) == -1 <= h /\ h <= t

IsEnoughData ==
    /\ Cardinality({h \in VoteHeight : payees[h] # <<>>}) > StorageLimit
    /\ Cardinality({v \in Vote : votes[v] # "absent"}) > StorageLimit * AverageVotes

-----------------------------------------------------------------------------
(* ProcessMessage(MASTERNODEPAYMENTVOTE).                                  *)

\* Mutant: a vote that is already there is recorded again.
NeverRecorded(v) == FALSE

Recorded(v) == votes[v] # "absent"

\* First critical section: recorded as not verified, to be handled once.
ReceiveVote(v) ==
    /\ msg = Idle
    /\ ~ Recorded(v)
    /\ votes' = [votes EXCEPT ![v] = "unverified"]
    /\ msg' = [vote |-> v, at |-> "check"]
    /\ UNCHANGED <<payees, lastVote, own>>

CanVote(v) == lastVote[v.mn] # v.height

\* The range, IsValid and CanVote. A vote that is refused stays recorded.
CheckVote ==
    /\ msg.at = "check"
    /\ \/ LET v == msg.vote
          IN  /\ tip - StorageLimit <= v.height /\ v.height <= tip + VoteWindow
              /\ CanVote(v)
              /\ lastVote' = [lastVote EXCEPT ![v.mn] = v.height]
              /\ msg' = [msg EXCEPT !.at = "verify"]
       \/ msg' = Idle /\ UNCHANGED lastVote
    /\ UNCHANGED <<votes, payees, own>>

\* GetMasternodeInfo, CheckSignature and the checks of AddPaymentVote before
\* its locks.
VerifyVote ==
    /\ msg.at = "verify"
    /\ \/ /\ GetBlockHash(msg.vote.height - HashDepth, tip)
          /\ ~ HasVerifiedPaymentVote(msg.vote)
          /\ msg' = [msg EXCEPT !.at = "add"]
       \/ msg' = Idle
    /\ UNCHANGED <<votes, payees, lastVote, own>>

\* AddPaymentVote under its locks.
AddPaymentVote(v) ==
    /\ votes' = [votes EXCEPT ![v] = "verified"]
    /\ payees' = [payees EXCEPT ![v.height] = Append(@, v)]

AddReceivedVote ==
    /\ msg.at = "add"
    /\ AddPaymentVote(msg.vote)
    /\ msg' = Idle
    /\ UNCHANGED <<lastVote, own>>

-----------------------------------------------------------------------------
(* ProcessBlock, for the tip h just set: our own vote.                     *)

ProcessBlock(h, listSynced) ==
    LET target == h + VoteAhead
        mayVote == listSynced /\ GetBlockHash(target - HashDepth, h)
        choices == {v \in Vote : v.mn = OwnMasternode /\ v.height = target}
    IN  IF mayVote
        THEN own' \in {v \in choices : ~ HasVerifiedPaymentVote(v)} \cup {NoVote}
        ELSE own' = NoVote

AddOwnVote ==
    /\ own # NoVote
    /\ AddPaymentVote(own)
    /\ own' = NoVote
    /\ UNCHANGED <<lastVote, msg>>

-----------------------------------------------------------------------------
(* CheckAndRemove.                                                         *)

Old(v) == votes[v] # "absent" /\ tip - v.height > StorageLimit

CheckAndRemove ==
    LET old == {v \in Vote : Old(v)}
    IN  /\ votes' = [v \in Vote |-> IF v \in old THEN "absent" ELSE votes[v]]
        /\ payees' = [h \in VoteHeight |->
                        IF \E v \in old : v.height = h THEN <<>> ELSE payees[h]]
        /\ UNCHANGED <<lastVote, msg, own>>

-----------------------------------------------------------------------------
\* The two maps agree: the hashes counted for a height are those of the
\* verified votes for it. Sync and GETDATA serve a counted vote only from the
\* other map, and IsEnoughData compares both sizes with one limit.
VotesBackPayees ==
    \A h \in VoteHeight :
        ToSet(payees[h]) = {v \in Vote : v.height = h /\ HasVerifiedPaymentVote(v)}
=============================================================================
