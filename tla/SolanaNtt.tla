------------------------------- MODULE SolanaNtt -------------------------------
(***************************************************************************)
(* The Solana NTT program with its transceiver programs.  A transfer is an *)
(* outbox item that every transceiver releases on its own; an arriving     *)
(* message is an inbox item that transceivers vote on, that is approved    *)
(* with a release time, and that anyone releases.  An instruction is one   *)
(* step: it fails as a whole.  SdkTransfer and SdkRedeem are transactions  *)
(* of several, as the TypeScript client builds them.                       *)
(*                                                                         *)
(* A transceiver is identified with its id in the bitmaps: register gives  *)
(* an id once and keeps it.  A message is its content, which the address   *)
(* of its inbox item hashes; what a transceiver validated is a message     *)
(* with the manager it came from.  The token has the same decimals on all  *)
(* chains.                                                                 *)
(***************************************************************************)
EXTENDS SolanaRateLimit, Sequences, FiniteSets, Sums

CONSTANTS
    ChainId,          \* this chain
    Chains,           \* the other chains
    Managers,         \* addresses of managers on other chains
    NoPeer,           \* a peer account that does not exist yet
    Transceivers,
    SdkTransceiver,   \* the one the TypeScript client is configured with
    Users,
    StartBalances,    \* what the users hold before they use the program
    Amounts,          \* amounts users send
    Messages,         \* messages transceivers may present here
    Limits,           \* limits the owner sets
    StartLimit,       \* the outbound limit given to initialize
    Locking,          \* mode: TRUE for Locking, FALSE for Burning
    MaxItems,         \* bound of the outbox
    MaxTime           \* bound of the clock

ASSUME SolanaAssumption ==
    /\ ChainId \notin Chains
    /\ NoPeer \notin Managers
    /\ IsFiniteSet(Transceivers)
    /\ SdkTransceiver \in Transceivers
    /\ StartBalances \in [Users -> Nat]
    /\ Amounts \subseteq 0..MaxU64
    /\ Limits \subseteq 0..MaxU64
    /\ StartLimit \in 0..MaxU64
    /\ Locking \in BOOLEAN
    /\ \A m \in Messages :
         /\ m.source \in Chains
         /\ m.amount \in 0..MaxU64
         /\ m.recipient \in Users

VARIABLES
    enabled,          \* enabled_transceivers
    threshold,
    paused,
    peers,            \* chain -> address of the manager there
    outboxRateLimit,
    inboxRateLimit,   \* chain -> RateLimitState
    outbox,           \* sequence of outbox items
    validated,        \* ValidatedTransceiverMessage accounts
    inbox,            \* message -> inbox item
    balances,         \* the users' tokens
    held,             \* custody balance when locking; burned less minted when burning
    now,              \* the clock
    posts,            \* history: item -> transceiver -> times it posted the item
    payouts           \* history: message -> times its amount was paid

configVars == <<enabled, threshold, paused, peers>>
limitVars == <<outboxRateLimit, inboxRateLimit>>
outVars == <<outbox, posts>>
inVars == <<validated, inbox, payouts>>
tokenVars == <<balances, held>>
vars == <<configVars, limitVars, outVars, inVars, tokenVars, now>>

OutboxItem ==
    [amount : Nat, sender : Users, recipientChain : Chains, recipientManager : Managers,
     recipient : Users, releaseTimestamp : Nat, released : SUBSET Transceivers]

(* init is FALSE for an account that was never allocated. *)
InboxItem ==
    [init : BOOLEAN, votes : SUBSET Transceivers,
     releaseStatus : {"NotApproved", "ReleaseAfter", "Released"}, releaseAfter : Nat]

NewInboxItem ==
    [init |-> FALSE, votes |-> {}, releaseStatus |-> "NotApproved", releaseAfter |-> 0]

ValidatedMessage == [transceiver : Transceivers, manager : Managers, message : Messages]

TypeOK ==
    /\ enabled \subseteq Transceivers
    /\ threshold \in Nat
    /\ paused \in BOOLEAN
    /\ peers \in [Chains -> Managers \cup {NoPeer}]
    /\ outboxRateLimit \in RateLimitState
    /\ inboxRateLimit \in [Chains -> RateLimitState]
    /\ outbox \in Seq(OutboxItem)
    /\ validated \subseteq ValidatedMessage
    /\ inbox \in [Messages -> InboxItem]
    /\ balances \in [Users -> Nat]
    /\ held \in Int
    /\ now \in Nat
    /\ posts \in Seq([Transceivers -> Nat])
    /\ payouts \in [Messages -> Nat]

(* After initialize.  A limiter that was never set is as good as one of limit 0. *)
Init ==
    /\ enabled = {}
    /\ threshold = 1
    /\ paused = FALSE
    /\ peers = [c \in Chains |-> NoPeer]
    /\ outboxRateLimit = NewRateLimit(StartLimit)
    /\ inboxRateLimit = [c \in Chains |-> NewRateLimit(0)]
    /\ outbox = <<>>
    /\ validated = {}
    /\ inbox = [m \in Messages |-> NewInboxItem]
    /\ balances = StartBalances
    /\ held = 0
    /\ now = 1
    /\ posts = <<>>
    /\ payouts = [m \in Messages |-> 0]

--------------------------------------------------------------------------------
\* Plausible slips in the code, each refuted by a property below.

Reached_OneFewer(item) == Cardinality(item.votes \cap enabled) + 1 >= threshold
CanRelease_Anytime(item) == item.releaseStatus = "ReleaseAfter"
TryRelease_KeepStatus(item) == item
MarkReleased_All(item, t) == [item EXCEPT !.released = Transceivers]
Reached_More(item) == Cardinality(item.votes \cap enabled) > threshold
DecrementThreshold_Never(active) == threshold

\* Helpers.

(* The NotPausedConfig constraint. *)
NotPaused == ~paused

(* count_enabled_votes: a vote stays in the item when its transceiver is disabled. *)
EnabledVotes(item) == item.votes \cap enabled

(* InboxItem::try_release answers TRUE ... *)
CanRelease(item) ==
    /\ item.releaseStatus = "ReleaseAfter"
    /\ item.releaseAfter <= now

(* ... and leaves the item so. *)
TryRelease(item) == [item EXCEPT !.releaseStatus = "Released"]

(* OutboxItem::try_release, once it is time *)
MarkReleased(item, t) == [item EXCEPT !.released = @ \cup {t}]

(* The release timestamp consume_or_delay answers. *)
ReleaseTime(fits) == IF fits THEN now ELSE now + Duration

(* deregister_transceiver keeps the threshold no higher than those left. *)
DecrementThreshold(active) ==
    IF Cardinality(active) < threshold THEN Cardinality(active) ELSE threshold

--------------------------------------------------------------------------------
\* The owner's instructions.

RegisterTransceiver(t) ==
    /\ enabled' = enabled \cup {t}
    /\ UNCHANGED <<threshold, paused, peers, limitVars, outVars, inVars, tokenVars, now>>

DeregisterTransceiver(t) ==
    /\ t \in enabled
    /\ enabled \ {t} # {}
    /\ enabled' = enabled \ {t}
    /\ threshold' = DecrementThreshold(enabled')
    /\ UNCHANGED <<paused, peers, limitVars, outVars, inVars, tokenVars, now>>

SetThreshold(n) ==
    /\ n # 0
    /\ n <= Cardinality(enabled)
    /\ threshold' = n
    /\ UNCHANGED <<enabled, paused, peers, limitVars, outVars, inVars, tokenVars, now>>

SetPaused(value) ==
    /\ paused' = value
    /\ UNCHANGED <<enabled, threshold, peers, limitVars, outVars, inVars, tokenVars, now>>

(* set_peer starts a limiter that no flow has used yet anew. *)
SetPeer(chain, manager, limit) ==
    /\ peers' = [peers EXCEPT ![chain] = manager]
    /\ inboxRateLimit' = [inboxRateLimit EXCEPT ![chain] =
                            IF @.lastTxTimestamp = 0 THEN NewRateLimit(limit)
                            ELSE WithLimit(@, limit, now)]
    /\ UNCHANGED <<enabled, threshold, paused, outboxRateLimit, outVars, inVars, tokenVars, now>>

SetOutboundLimit(limit) ==
    /\ outboxRateLimit' = WithLimit(outboxRateLimit, limit, now)
    /\ UNCHANGED <<configVars, inboxRateLimit, outVars, inVars, tokenVars, now>>

(* The limiter's account exists once the chain has a peer. *)
SetInboundLimit(chain, limit) ==
    /\ peers[chain] # NoPeer
    /\ inboxRateLimit' = [inboxRateLimit EXCEPT ![chain] = WithLimit(@, limit, now)]
    /\ UNCHANGED <<configVars, outboxRateLimit, outVars, inVars, tokenVars, now>>

--------------------------------------------------------------------------------
\* Outbound.

FitsOutbound(amount) == Fits(outboxRateLimit, amount, now)

(* insert_into_outbox, of a transaction in which the transceivers in posting post the
   item as well. *)
InsertIntoOutbox(user, amount, chain, recipient, posting) ==
    /\ Len(outbox) < MaxItems
    /\ IF FitsOutbound(amount)
       THEN /\ outboxRateLimit' = Consumed(outboxRateLimit, amount, now)
            /\ inboxRateLimit' = [inboxRateLimit EXCEPT ![chain] = Refilled(@, amount, now)]
       ELSE UNCHANGED limitVars
    /\ outbox' = Append(outbox, [amount |-> amount, sender |-> user,
                                 recipientChain |-> chain, recipientManager |-> peers[chain],
                                 recipient |-> recipient,
                                 releaseTimestamp |-> ReleaseTime(FitsOutbound(amount)),
                                 released |-> posting])
    /\ posts' = Append(posts, [t \in Transceivers |-> IF t \in posting THEN 1 ELSE 0])

(* transfer_lock and transfer_burn: no check that the amount is positive. *)
TransferPosting(user, amount, chain, recipient, shouldQueue, posting) ==
    /\ NotPaused
    /\ enabled # {}
    /\ peers[chain] # NoPeer
    /\ balances[user] >= amount
    /\ FitsOutbound(amount) \/ shouldQueue
    /\ InsertIntoOutbox(user, amount, chain, recipient, posting)
    /\ balances' = [balances EXCEPT ![user] = @ - amount]
    /\ held' = held + amount
    /\ UNCHANGED <<configVars, inVars, now>>

Transfer(user, amount, chain, recipient, shouldQueue) ==
    TransferPosting(user, amount, chain, recipient, shouldQueue, {})

(* The transaction of the client's transfer: its Wormhole transceiver, and no other,
   releases the item at once, or leaves it when it is queued. *)
SdkTransfer(user, amount, chain, recipient, queue) ==
    /\ SdkTransceiver \in enabled
    /\ TransferPosting(user, amount, chain, recipient, queue,
                       IF FitsOutbound(amount) THEN {SdkTransceiver} ELSE {})

(* release_outbound of transceiver t, by anyone.  Before its time it fails, or does
   nothing when revert_on_delay is false. *)
ReleaseOutbound(t, i) ==
    /\ NotPaused
    /\ t \in enabled
    /\ i \in DOMAIN outbox
    /\ t \notin outbox[i].released
    /\ outbox[i].releaseTimestamp <= now
    /\ outbox' = [outbox EXCEPT ![i] = MarkReleased(@, t)]
    /\ posts' = [posts EXCEPT ![i][t] = @ + 1]
    /\ UNCHANGED <<configVars, limitVars, inVars, tokenVars, now>>

--------------------------------------------------------------------------------
\* Inbound.

(* The address of the account receive_message creates: one per chain and message id. *)
SameAccount(v, t, m) ==
    /\ v.transceiver = t
    /\ v.message.source = m.source
    /\ v.message.sequence = m.sequence

CanReceive(t, m) ==
    /\ NotPaused
    /\ m.toChain = ChainId
    /\ ~ \E v \in validated : SameAccount(v, t, m)

(* receive_message of transceiver t, by anyone who has the VAA. *)
ReceiveMessage(t, manager, m) ==
    /\ CanReceive(t, m)
    /\ validated' = validated \cup {[transceiver |-> t, manager |-> manager, message |-> m]}
    /\ UNCHANGED <<configVars, limitVars, outVars, inbox, payouts, tokenVars, now>>

(* The item with the vote of t. *)
Voted(m, t) == [inbox[m] EXCEPT !.init = TRUE, !.votes = @ \cup {t}]

Reached(item) == Cardinality(EnabledVotes(item)) >= threshold

(* The constraints of redeem on its accounts, other than the validated message, and
   the one error of its body: an item is approved once.  All messages are addressed
   to this manager, recipient_ntt_manager is left out. *)
CanRedeem(t, manager, m) ==
    /\ threshold > 0
    /\ t \in enabled
    /\ m.toChain = ChainId
    /\ peers[m.source] = manager
    /\ Reached(Voted(m, t)) => inbox[m].releaseStatus = "NotApproved"

(* The item redeem leaves. *)
Redeemed(m, t) ==
    IF Reached(Voted(m, t))
    THEN [Voted(m, t) EXCEPT
            !.releaseStatus = "ReleaseAfter",
            !.releaseAfter = ReleaseTime(Fits(inboxRateLimit[m.source], m.amount, now))]
    ELSE Voted(m, t)

(* An approval is charged to the inbound limit and given back to the outbound one. *)
ChargeRedeem(m, t) ==
    IF Reached(Voted(m, t)) /\ Fits(inboxRateLimit[m.source], m.amount, now)
    THEN /\ inboxRateLimit' = [inboxRateLimit EXCEPT ![m.source] = Consumed(@, m.amount, now)]
         /\ outboxRateLimit' = Refilled(outboxRateLimit, m.amount, now)
    ELSE UNCHANGED limitVars

(* redeem, by anyone, paused or not.  A transceiver may vote twice: a vote that was
   short of the threshold approves the item once the threshold is lower. *)
Redeem(t, manager, m) ==
    /\ [transceiver |-> t, manager |-> manager, message |-> m] \in validated
    /\ CanRedeem(t, manager, m)
    /\ inbox' = [inbox EXCEPT ![m] = Redeemed(m, t)]
    /\ ChargeRedeem(m, t)
    /\ UNCHANGED <<configVars, outVars, validated, payouts, tokenVars, now>>

(* The payment of both release_inbound instructions: an unlock needs the tokens. *)
MintOrUnlock(m) ==
    /\ Locking => held >= m.amount
    /\ balances' = [balances EXCEPT ![m.recipient] = @ + m.amount]
    /\ held' = held - m.amount
    /\ payouts' = [payouts EXCEPT ![m] = @ + 1]

(* release_inbound_unlock, release_inbound_mint, by anyone.  Too early they fail, or
   do nothing when revert_when_not_ready is false. *)
ReleaseInbound(m) ==
    /\ NotPaused
    /\ CanRelease(inbox[m])
    /\ inbox' = [inbox EXCEPT ![m] = TryRelease(@)]
    /\ MintOrUnlock(m)
    /\ UNCHANGED <<configVars, limitVars, outVars, validated, now>>

(* The transaction of SolanaNtt.redeem: receive_message, redeem and release_inbound
   with revert_when_not_ready false, all or none.  It fails when the message was
   received before, even if that vote approved nothing, and when it is released. *)
SdkRedeem(t, manager, m) ==
    /\ CanReceive(t, m)
    /\ CanRedeem(t, manager, m)
    /\ inbox[m].releaseStatus # "Released"
    /\ validated' = validated \cup {[transceiver |-> t, manager |-> manager, message |-> m]}
    /\ ChargeRedeem(m, t)
    /\ IF CanRelease(Redeemed(m, t))
       THEN /\ inbox' = [inbox EXCEPT ![m] = TryRelease(Redeemed(m, t))]
            /\ MintOrUnlock(m)
       ELSE /\ inbox' = [inbox EXCEPT ![m] = Redeemed(m, t)]
            /\ UNCHANGED <<tokenVars, payouts>>
    /\ UNCHANGED <<configVars, outVars, now>>

--------------------------------------------------------------------------------

Tick ==
    /\ now < MaxTime
    /\ now' = now + 1
    /\ UNCHANGED <<configVars, limitVars, outVars, inVars, tokenVars>>

AdminNext ==
    \/ \E t \in Transceivers : RegisterTransceiver(t) \/ DeregisterTransceiver(t)
    \/ \E n \in 1..Cardinality(Transceivers) : SetThreshold(n)
    \/ \E value \in BOOLEAN : SetPaused(value)
    \/ \E chain \in Chains, manager \in Managers, limit \in Limits :
         SetPeer(chain, manager, limit)
    \/ \E limit \in Limits : SetOutboundLimit(limit)
    \/ \E chain \in Chains, limit \in Limits : SetInboundLimit(chain, limit)

OutboundNext ==
    \/ \E user \in Users, amount \in Amounts, chain \in Chains, recipient \in Users,
          queue \in BOOLEAN :
         \/ Transfer(user, amount, chain, recipient, queue)
         \/ SdkTransfer(user, amount, chain, recipient, queue)
    \/ \E t \in Transceivers, i \in 1..Len(outbox) : ReleaseOutbound(t, i)

InboundNext ==
    \/ \E t \in Transceivers, manager \in Managers, m \in Messages :
         \/ ReceiveMessage(t, manager, m)
         \/ Redeem(t, manager, m)
         \/ SdkRedeem(t, manager, m)
    \/ \E m \in Messages : ReleaseInbound(m)

Next == AdminNext \/ OutboundNext \/ InboundNext \/ Tick

Spec == Init /\ [][Next]_vars

(* Anyone may call the instructions: somebody releases what can be released, and
   redeems what was validated while that changes anything.  The owner owes nothing. *)
Fairness ==
    /\ WF_vars(Tick)
    /\ \A t \in Transceivers : \A i \in 1..MaxItems : WF_vars(ReleaseOutbound(t, i))
    /\ \A t \in Transceivers, manager \in Managers, m \in Messages :
         WF_vars(inbox[m].releaseStatus = "NotApproved" /\ Redeem(t, manager, m))
    /\ \A m \in Messages : WF_vars(ReleaseInbound(m))

FairSpec == Spec /\ Fairness

--------------------------------------------------------------------------------

(* A message is paid exactly when its item is Released, and then once, whichever of
   the client's bundle, a vote repeated after the threshold fell and a release by a
   stranger came first (inbox.rs:42-63, release_inbound.rs). *)
InboxSettledOnce ==
    \A m \in Messages :
        payouts[m] = IF inbox[m].releaseStatus = "Released" THEN 1 ELSE 0

(* Every transceiver posts an item once, and not before its release timestamp,
   although release_outbound is anybody's call (outbox.rs:25-39). *)
OutboxPostedOnce ==
    \A i \in DOMAIN outbox, t \in Transceivers :
        /\ posts[i][t] = IF t \in outbox[i].released THEN 1 ELSE 0
        /\ t \in outbox[i].released => outbox[i].releaseTimestamp <= now

ItemAmounts == [i \in DOMAIN outbox |-> outbox[i].amount]
ReleasedMessages == {m \in Messages : inbox[m].releaseStatus = "Released"}

(* The custody (or what was burned less what was minted) is what the outbox took in
   less what the inbox gave out: no path between redeem and the two releases pays
   without its item saying so (transfer.rs, release_inbound.rs). *)
Conservation == held = SumFunction(ItemAmounts) - SumOfAmounts(ReleasedMessages)

(* A message every enabled transceiver voted for has its quorum, so that each of
   them can have it approved by redeeming it again: the threshold never exceeds the
   enabled transceivers, and votes outlive the registry's changes
   (admin/mod.rs, deregister_transceiver; redeem.rs:141-152). *)
NoItemStranded ==
    \A m \in Messages :
        enabled # {} /\ enabled \subseteq inbox[m].votes => Reached(inbox[m])

(* When an item leaves NotApproved, at least threshold transceivers that are enabled
   at that moment each validated this very message, whatever else they validated
   under its id: inbox items are addressed by content, so disagreeing votes do not
   add up (redeem.rs:74-77, 141-152). *)
ApprovedByQuorum ==
    [][\A m \in Messages :
         inbox[m].releaseStatus = "NotApproved" /\ inbox'[m].releaseStatus # "NotApproved"
           => \E quorum \in SUBSET enabled :
                /\ Cardinality(quorum) >= threshold
                /\ threshold > 0
                /\ \A t \in quorum : \E v \in validated' : v.transceiver = t /\ v.message = m]_vars

(* The limits in a step that charges amount to chain's inbound one, or to the outbound one. *)
ChargedInbound(chain, amount) ==
    /\ inboxRateLimit' = [inboxRateLimit EXCEPT ![chain] = Consumed(@, amount, now)]
    /\ outboxRateLimit' = Refilled(outboxRateLimit, amount, now)

ChargedOutbound(chain, amount) ==
    /\ outboxRateLimit' = Consumed(outboxRateLimit, amount, now)
    /\ inboxRateLimit' = [inboxRateLimit EXCEPT ![chain] = Refilled(@, amount, now)]

ApprovalCharged(m) ==
    inbox[m].releaseStatus = "NotApproved" /\ inbox'[m].releaseStatus # "NotApproved"
      => \/ ChargedInbound(m.source, m.amount)
         \/ inbox'[m].releaseStatus = "ReleaseAfter" /\ inbox'[m].releaseAfter >= now + Duration

ItemCharged(item) ==
    \/ ChargedOutbound(item.recipientChain, item.amount)
    \/ item.releaseTimestamp >= now + Duration

PaidInTime(m) ==
    inbox[m].releaseStatus = "ReleaseAfter" /\ payouts'[m] # payouts[m]
      => inbox[m].releaseAfter <= now

FlowsCharged ==
    /\ \A m \in Messages : ApprovalCharged(m) /\ PaidInTime(m)
    /\ \A i \in DOMAIN outbox' \ DOMAIN outbox : ItemCharged(outbox'[i])

(* What is approved or taken into the outbox is charged to its limit and given back
   to the other one, or waits a full Duration from then on, and is paid after it (transfer.rs,
   redeem.rs:154-163). *)
FlowsAreCharged == [][FlowsCharged]_vars

(* INV-014 of docs/INVARIANTS.md for this program: while it is paused no token moves
   and no message leaves, although redeem goes on voting and approving
   (redeem.rs:25). *)
PausedMovesNothing == [][paused => UNCHANGED <<tokenVars, outVars, payouts>>]_vars

StatusName == [NotApproved |-> "NotApproved", ReleaseAfter |-> "Queued", Released |-> "Paid"]

StatusOf(item) == StatusName[item.releaseStatus]

Arrivals == INSTANCE InboundTransfers WITH
    VotesOfDisabled <- FALSE,
    votes <- [m \in Messages |-> inbox[m].votes],
    status <- [m \in Messages |-> StatusOf(inbox[m])]

(* Inbox items live the life every manager promises: in particular a status never
   goes back (inbox.rs:22-25) and an approval follows a quorum. *)
ImplementsInboundTransfers == Arrivals!Spec

(* A transceiver that in the end stays registered with an unpaused program posts
   every item whose time comes within the clock's bound, whatever the owner did
   before (release_outbound.rs, outbox.rs:25-39). *)
EveryItemPosted ==
    \A i \in 1..MaxItems, t \in Transceivers :
        <>[](/\ ~paused /\ t \in enabled
             /\ i \in DOMAIN outbox /\ outbox[i].releaseTimestamp <= MaxTime)
            => <>(i \in DOMAIN outbox /\ posts[i][t] = 1)

Validations(m) ==
    {v.transceiver : v \in {w \in validated : w.message = m /\ w.manager = peers[m.source]}}

(* A message that in the end stays validated by a quorum of transceivers is paid, by
   whatever mixture of bundles and single instructions it came and whichever
   threshold its votes met, unless its time comes after the clock's bound
   (redeem.rs:106-166, release_inbound.rs). *)
EveryMessagePaid ==
    \A m \in Messages, quorum \in SUBSET Transceivers :
        <>[](/\ ~paused
             /\ quorum \subseteq Validations(m) \cap enabled
             /\ threshold \in 1..Cardinality(quorum))
            => <>(\/ inbox[m].releaseStatus = "Released"
                  \/ inbox[m].releaseStatus = "ReleaseAfter" /\ inbox[m].releaseAfter > MaxTime)

================================================================================
