--------------------------------- MODULE SuiNtt ---------------------------------
(***************************************************************************)
(* The manager of the Sui package, a shared object.  A call is one step;   *)
(* what a transfer prepares and what a transceiver validates cannot outlive *)
(* the transaction that made it, so the two are inputs of the calls that   *)
(* use them, and a transceiver may validate the same message again.        *)
(* SdkTransfer and SdkRedeem are transactions of several calls, all or     *)
(* none, as the TypeScript client builds them.                             *)
(*                                                                         *)
(* The limiter is Solana's, but for what it does when an amount is given   *)
(* back to it.  A transceiver's type is identified with the id it gets     *)
(* when it is registered.  A message is its content, which is the key of   *)
(* its inbox item, addressed to this manager.  Amounts in messages are     *)
(* trimmed; one of them is Unit of the token's own units.                  *)
(***************************************************************************)
EXTENDS SolanaRateLimit, Sequences, FiniteSets, Sums

CONSTANTS
    ChainId,          \* this chain
    Chains,           \* the other chains
    Managers,         \* addresses of managers on other chains
    NoPeer,           \* no entry in the table of peers
    MaxTransceivers,  \* bound of the ids: 128, the bits of a bitmap, in the package
    SdkTransceiver,   \* id of the one the TypeScript client is configured with
    Unit,             \* 10 to the decimals that trimming drops
    Amounts,          \* trimmed amounts users send
    Messages,         \* messages transceivers may validate here
    Limits,           \* limits the owner of the admin cap sets
    Locking,          \* mode: TRUE for Locking, FALSE for Burning
    MaxItems,         \* bound of the outbox
    MaxTime           \* bound of the clock

Transceivers == 0..(MaxTransceivers - 1)

(* The number of the token's own units a trimmed amount stands for *)
Untrim(amount) == amount * Unit

ASSUME SuiAssumption ==
    /\ ChainId \notin Chains
    /\ NoPeer \notin Managers
    /\ MaxTransceivers \in Nat \ {0}
    /\ SdkTransceiver \in Transceivers
    /\ Unit \in Nat \ {0}
    /\ Amounts \subseteq Nat
    /\ \A amount \in Amounts : Untrim(amount) <= MaxU64
    /\ Limits \subseteq 0..MaxU64
    /\ Locking \in BOOLEAN
    /\ \A m \in Messages : m.source \in Chains /\ m.amount \in 0..MaxU64

VARIABLES
    nextId,           \* ids below it are registered
    enabled,          \* enabled_bitmap
    threshold,
    paused,
    peers,            \* chain -> address of the manager there
    outboxRateLimit,
    inboxRateLimit,   \* chain -> RateLimitState of the peer
    outbox,           \* sequence of outbox items; the index is the message id
    inbox,            \* message -> inbox item
    balance,          \* locked tokens; burned less minted when burning
    now,              \* the clock
    posts,            \* history: item -> transceiver -> times it posted the item
    payouts           \* history: message -> times its amount was paid

configVars == <<nextId, enabled, threshold, paused, peers>>
limitVars == <<outboxRateLimit, inboxRateLimit>>
outVars == <<outbox, posts>>
inVars == <<inbox, payouts>>
vars == <<configVars, limitVars, outVars, inVars, balance, now>>

OutboxItem ==
    [amount : Nat, recipientChain : Chains, recipientManager : Managers,
     releaseTimestamp : Nat, released : SUBSET Transceivers]

(* An item without votes is as good as no item: it is made by its first vote. *)
InboxItem ==
    [votes : SUBSET Transceivers,
     releaseStatus : {"NotApproved", "ReleaseAfter", "Released"}, releaseAfter : Nat]

NewInboxItem == [votes |-> {}, releaseStatus |-> "NotApproved", releaseAfter |-> 0]

TypeOK ==
    /\ nextId \in 0..MaxTransceivers
    /\ enabled \subseteq Transceivers
    /\ threshold \in Nat
    /\ paused \in BOOLEAN
    /\ peers \in [Chains -> Managers \cup {NoPeer}]
    /\ outboxRateLimit \in RateLimitState
    /\ inboxRateLimit \in [Chains -> RateLimitState]
    /\ outbox \in Seq(OutboxItem)
    /\ inbox \in [Messages -> InboxItem]
    /\ balance \in Int
    /\ now \in Nat
    /\ posts \in Seq([Transceivers -> Nat])
    /\ payouts \in [Messages -> Nat]

(* After complete_locking or complete_burning: the outbound limit is u64::MAX. *)
Init ==
    /\ nextId = 0
    /\ enabled = {}
    /\ threshold = 0
    /\ paused = FALSE
    /\ peers = [c \in Chains |-> NoPeer]
    /\ outboxRateLimit = NewRateLimit(MaxU64)
    /\ inboxRateLimit = [c \in Chains |-> NewRateLimit(0)]
    /\ outbox = <<>>
    /\ inbox = [m \in Messages |-> NewInboxItem]
    /\ balance = 0
    /\ now = 1
    /\ posts = <<>>
    /\ payouts = [m \in Messages |-> 0]

--------------------------------------------------------------------------------
\* Plausible slips in the code, each refuted by a property below.

GivenBack_FromEmpty(rl, amount, t) == [rl EXCEPT !.capacityAtLastTx = Lesser(amount, rl.limit)]
CheckThreshold_NoLowerBound(active, n) == n <= Cardinality(active)
TryRelease_KeepStatus(item) == item
Voted_Anew(m, t) == [inbox[m] EXCEPT !.votes = {t}]

\* Helpers.

NotPaused == ~paused

(* transceiver_id aborts for a type that was never registered. *)
Registered(t) == t < nextId

(* check_threshold_invariants *)
CheckThreshold(active, n) ==
    /\ n <= Cardinality(active)
    /\ active # {} => n > 0

(* refill: the capacity of now, and the amount, under the time of the last transaction,
   from which the capacity will be counted again. *)
GivenBack(rl, amount, t) ==
    [rl EXCEPT !.capacityAtLastTx = Lesser(Lesser(CapacityAt(rl, t) + amount, MaxU64), rl.limit)]

(* inbox::try_release answers TRUE ... *)
CanRelease(item) ==
    /\ item.releaseStatus = "ReleaseAfter"
    /\ item.releaseAfter <= now

(* ... and leaves the item so. *)
TryRelease(item) == [item EXCEPT !.releaseStatus = "Released"]

(* outbox::try_release, once it is time *)
MarkReleased(item, t) == [item EXCEPT !.released = @ \cup {t}]

(* The release timestamp that follows consume_or_delay. *)
ReleaseTime(fits) == IF fits THEN now ELSE now + Duration

--------------------------------------------------------------------------------
\* The calls that need the admin cap.

RegisterTransceiver ==
    /\ nextId < MaxTransceivers
    /\ nextId' = nextId + 1
    /\ enabled' = enabled \cup {nextId}
    /\ threshold' = IF threshold = 0 THEN 1 ELSE threshold
    /\ CheckThreshold(enabled', threshold')
    /\ UNCHANGED <<paused, peers, limitVars, outVars, inVars, balance, now>>

(* Any id, whether a transceiver has it or not. *)
EnableTransceiver(id) ==
    /\ CheckThreshold(enabled \cup {id}, threshold)
    /\ enabled' = enabled \cup {id}
    /\ UNCHANGED <<nextId, threshold, paused, peers, limitVars, outVars, inVars, balance, now>>

DisableTransceiver(id) ==
    /\ enabled' = enabled \ {id}
    /\ threshold' = IF Cardinality(enabled') < threshold THEN Cardinality(enabled')
                    ELSE threshold
    /\ CheckThreshold(enabled', threshold')
    /\ UNCHANGED <<nextId, paused, peers, limitVars, outVars, inVars, balance, now>>

SetThreshold(n) ==
    /\ n > 0
    /\ CheckThreshold(enabled, n)
    /\ threshold' = n
    /\ UNCHANGED <<nextId, enabled, paused, peers, limitVars, outVars, inVars, balance, now>>

(* pause and unpause *)
SetPaused(value) ==
    /\ paused' = value
    /\ UNCHANGED <<nextId, enabled, threshold, peers, limitVars, outVars, inVars, balance, now>>

SetPeer(chain, manager, limit) ==
    /\ peers' = [peers EXCEPT ![chain] = manager]
    /\ inboxRateLimit' = [inboxRateLimit EXCEPT ![chain] =
                            IF peers[chain] = NoPeer THEN NewRateLimit(limit)
                            ELSE WithLimit(@, limit, now)]
    /\ UNCHANGED <<nextId, enabled, threshold, paused, outboxRateLimit, outVars, inVars,
                   balance, now>>

SetOutboundRateLimit(limit) ==
    /\ outboxRateLimit' = WithLimit(outboxRateLimit, limit, now)
    /\ UNCHANGED <<configVars, inboxRateLimit, outVars, inVars, balance, now>>

--------------------------------------------------------------------------------
\* Outbound.

FitsOutbound(amount) == Fits(outboxRateLimit, Untrim(amount), now)

(* What transfer_impl does to the limits: the outbound one is charged what was taken,
   the inbound one is given back the trimmed amount. *)
ChargeTransfer(amount, chain) ==
    IF FitsOutbound(amount)
    THEN /\ outboxRateLimit' = Consumed(outboxRateLimit, Untrim(amount), now)
         /\ inboxRateLimit' = [inboxRateLimit EXCEPT ![chain] = GivenBack(@, amount, now)]
    ELSE UNCHANGED limitVars

(* prepare_transfer and transfer_tx_sender, in a transaction in which the transceivers
   in posting post the item as well.  No check that the amount is positive, nor that
   any transceiver is enabled. *)
TransferPosting(amount, chain, shouldQueue, posting) ==
    /\ NotPaused
    /\ peers[chain] # NoPeer
    /\ FitsOutbound(amount) \/ shouldQueue
    /\ Len(outbox) < MaxItems
    /\ ChargeTransfer(amount, chain)
    /\ outbox' = Append(outbox, [amount |-> amount, recipientChain |-> chain,
                                 recipientManager |-> peers[chain],
                                 releaseTimestamp |-> ReleaseTime(FitsOutbound(amount)),
                                 released |-> posting])
    /\ posts' = Append(posts, [t \in Transceivers |-> IF t \in posting THEN 1 ELSE 0])
    /\ balance' = balance + Untrim(amount)
    /\ UNCHANGED <<configVars, inVars, now>>

Transfer(amount, chain, shouldQueue) == TransferPosting(amount, chain, shouldQueue, {})

(* The client's transaction goes on to create the message of its transceiver, and so
   fails when the transfer has to wait. *)
SdkTransfer(amount, chain, shouldQueue) ==
    /\ FitsOutbound(amount)
    /\ Registered(SdkTransceiver)
    /\ TransferPosting(amount, chain, shouldQueue, {SdkTransceiver})

(* create_transceiver_message for a registered transceiver, which need not be enabled,
   by anyone. *)
CreateTransceiverMessage(t, i) ==
    /\ NotPaused
    /\ Registered(t)
    /\ i \in DOMAIN outbox
    /\ outbox[i].releaseTimestamp <= now
    /\ t \notin outbox[i].released
    /\ outbox' = [outbox EXCEPT ![i] = MarkReleased(@, t)]
    /\ posts' = [posts EXCEPT ![i][t] = @ + 1]
    /\ UNCHANGED <<configVars, limitVars, inVars, balance, now>>

--------------------------------------------------------------------------------
\* Inbound.

(* The item with the vote of t. *)
Voted(m, t) == [inbox[m] EXCEPT !.votes = @ \cup {t}]

(* count_enabled_votes against the threshold: a vote stays in the item when its
   transceiver is disabled. *)
Reached(item) == Cardinality(item.votes \cap enabled) >= threshold

FitsInbound(m) == Fits(inboxRateLimit[m.source], Untrim(m.amount), now)

(* The conditions under which redeem does not abort: votes of disabled transceivers
   are taken, and with a quorum a message is approved once. *)
CanRedeem(t, manager, m) ==
    /\ NotPaused
    /\ peers[m.source] = manager
    /\ Registered(t)
    /\ m.toChain = ChainId
    /\ Untrim(m.amount) <= MaxU64
    /\ Reached(Voted(m, t)) => inbox[m].releaseStatus = "NotApproved"

(* The item redeem leaves. *)
Redeemed(m, t) ==
    IF Reached(Voted(m, t))
    THEN [Voted(m, t) EXCEPT !.releaseStatus = "ReleaseAfter",
                             !.releaseAfter = ReleaseTime(FitsInbound(m))]
    ELSE Voted(m, t)

(* An approval is charged to the inbound limit and given back to the outbound one. *)
ChargeRedeem(m, t) ==
    IF Reached(Voted(m, t)) /\ FitsInbound(m)
    THEN /\ inboxRateLimit' = [inboxRateLimit EXCEPT ![m.source] =
                                  Consumed(@, Untrim(m.amount), now)]
         /\ outboxRateLimit' = GivenBack(outboxRateLimit, Untrim(m.amount), now)
    ELSE UNCHANGED limitVars

(* redeem of a message t validated in the same transaction, by anyone, as often as
   they like. *)
Redeem(t, manager, m) ==
    /\ CanRedeem(t, manager, m)
    /\ inbox' = [inbox EXCEPT ![m] = Redeemed(m, t)]
    /\ ChargeRedeem(m, t)
    /\ UNCHANGED <<configVars, outVars, payouts, balance, now>>

(* An unlock needs the tokens. *)
MintOrUnlock(m) ==
    /\ Locking => balance >= Untrim(m.amount)
    /\ balance' = balance - Untrim(m.amount)
    /\ payouts' = [payouts EXCEPT ![m] = @ + 1]

(* release, by anyone; too early, or a second time, it aborts. *)
Release(m) ==
    /\ NotPaused
    /\ CanRelease(inbox[m])
    /\ inbox' = [inbox EXCEPT ![m] = TryRelease(@)]
    /\ MintOrUnlock(m)
    /\ UNCHANGED <<configVars, limitVars, outVars, now>>

(* The client's transaction: a redeem and then the release, or neither. *)
SdkRedeem(manager, m) ==
    /\ CanRedeem(SdkTransceiver, manager, m)
    /\ CanRelease(Redeemed(m, SdkTransceiver))
    /\ inbox' = [inbox EXCEPT ![m] = TryRelease(Redeemed(m, SdkTransceiver))]
    /\ ChargeRedeem(m, SdkTransceiver)
    /\ MintOrUnlock(m)
    /\ UNCHANGED <<configVars, outVars, now>>

--------------------------------------------------------------------------------

Tick ==
    /\ now < MaxTime
    /\ now' = now + 1
    /\ UNCHANGED <<configVars, limitVars, outVars, inVars, balance>>

AdminNext ==
    \/ RegisterTransceiver
    \/ \E id \in Transceivers : EnableTransceiver(id) \/ DisableTransceiver(id)
    \/ \E n \in 1..MaxTransceivers : SetThreshold(n)
    \/ \E value \in BOOLEAN : SetPaused(value)
    \/ \E chain \in Chains, manager \in Managers, limit \in Limits :
         SetPeer(chain, manager, limit)
    \/ \E limit \in Limits : SetOutboundRateLimit(limit)

OutboundNext ==
    \/ \E amount \in Amounts, chain \in Chains, shouldQueue \in BOOLEAN :
         Transfer(amount, chain, shouldQueue) \/ SdkTransfer(amount, chain, shouldQueue)
    \/ \E t \in Transceivers, i \in 1..Len(outbox) : CreateTransceiverMessage(t, i)

InboundNext ==
    \/ \E t \in Transceivers, manager \in Managers, m \in Messages : Redeem(t, manager, m)
    \/ \E manager \in Managers, m \in Messages : SdkRedeem(manager, m)
    \/ \E m \in Messages : Release(m)

Next == AdminNext \/ OutboundNext \/ InboundNext \/ Tick

Spec == Init /\ [][Next]_vars

(* Somebody sends what may be sent and releases what may be released. *)
FairSpec ==
    /\ Spec
    /\ WF_vars(Tick)
    /\ \A t \in Transceivers : \A i \in 1..MaxItems : WF_vars(CreateTransceiverMessage(t, i))
    /\ \A m \in Messages : WF_vars(Release(m))

--------------------------------------------------------------------------------

(* Items and messages are settled once, by whichever of the client's bundle, a
   stranger's call and a repeated vote came first (inbox.move:88-107,
   outbox.move:82-102) ... *)
SettledOnce ==
    /\ \A m \in Messages :
        payouts[m] = IF inbox[m].releaseStatus = "Released" THEN 1 ELSE 0
    /\ \A i \in DOMAIN outbox, t \in Transceivers :
        /\ posts[i][t] = IF t \in outbox[i].released THEN 1 ELSE 0
        /\ t \in outbox[i].released => outbox[i].releaseTimestamp <= now

ReleasedMessages == {m \in Messages : inbox[m].releaseStatus = "Released"}

(* ... and the balance is what transfers took less what was released, although items
   and messages count in trimmed amounts and the balance in the token's own
   (ntt.move:142-146, 295-309). *)
Conservation ==
    balance = SumFunction([i \in DOMAIN outbox |-> Untrim(outbox[i].amount)])
                - SumFunction([m \in ReleasedMessages |-> Untrim(m.amount)])

AccountsAgree == SettledOnce /\ Conservation

(* While a transceiver is enabled, a message all enabled ones voted for has its
   quorum, and no quorum is without an enabled vote, whatever ids were enabled and
   disabled before.  With none enabled the threshold is 0: then any vote approves
   (state.move:279-295, 352-364; ntt.move:217-221). *)
NoItemStranded ==
    enabled # {} =>
        \A m \in Messages :
            /\ enabled \subseteq inbox[m].votes => Reached(inbox[m])
            /\ Reached(inbox[m]) => inbox[m].votes \cap enabled # {}

(* After the step, a limit has at least the capacity that giving amount back promises. *)
GetsBack(before, after, amount) ==
    CapacityAt(after, now) >= Lesser(CapacityAt(before, now) + amount, before.limit)

ApprovalCharged(m) ==
    inbox[m].releaseStatus = "NotApproved" /\ inbox'[m].releaseStatus # "NotApproved"
      => \/ /\ inboxRateLimit' = [inboxRateLimit EXCEPT ![m.source] =
                                     Consumed(@, Untrim(m.amount), now)]
            /\ GetsBack(outboxRateLimit, outboxRateLimit', Untrim(m.amount))
         \/ inbox'[m].releaseStatus = "ReleaseAfter" /\ inbox'[m].releaseAfter >= now + Duration

ItemCharged(item) ==
    \/ /\ outboxRateLimit' = Consumed(outboxRateLimit, Untrim(item.amount), now)
       /\ GetsBack(inboxRateLimit[item.recipientChain],
                   inboxRateLimit'[item.recipientChain], item.amount)
    \/ item.releaseTimestamp >= now + Duration

PaidInTime(m) ==
    inbox[m].releaseStatus = "ReleaseAfter" /\ payouts'[m] # payouts[m]
      => inbox[m].releaseAfter <= now

FlowsCharged ==
    /\ \A m \in Messages : ApprovalCharged(m) /\ PaidInTime(m)
    /\ \A i \in DOMAIN outbox' \ DOMAIN outbox : ItemCharged(outbox'[i])

(* What is approved or taken into the outbox is charged to its limit in the token's
   own units, or waits a full Duration and is paid after it; the other limit gets back
   at least the amount, a transfer's only in trimmed units (ntt.move:148-165, 225-241). *)
FlowsAreCharged == [][FlowsCharged]_vars

StatusName == [NotApproved |-> "NotApproved", ReleaseAfter |-> "Queued", Released |-> "Paid"]

StatusOf(item) == StatusName[item.releaseStatus]

Arrivals == INSTANCE InboundTransfers WITH
    VotesOfDisabled <- TRUE,
    votes <- [m \in Messages |-> inbox[m].votes],
    status <- [m \in Messages |-> StatusOf(inbox[m])]

(* Inbox items live the life every manager promises of a message, with the votes of
   disabled transceivers taken and not counted (inbox.move, state.move:204-214). *)
ImplementsInboundTransfers == Arrivals!Spec

(* README.md:43 of the repository says of the flows that cancel that a transfer
   refills the inbound limit by an amount equal to its own: here, at most by it. *)
RefillsByTheAmount ==
    [][\A i \in DOMAIN outbox' \ DOMAIN outbox :
         LET chain == outbox'[i].recipientChain
         IN  CapacityAt(inboxRateLimit'[chain], now)
               <= CapacityAt(inboxRateLimit[chain], now) + Untrim(outbox'[i].amount)]_vars

================================================================================
