------------------------------- MODULE NttManager -------------------------------
(***************************************************************************)
(* One EVM NTT manager: the contract that takes a user's tokens and hands  *)
(* a message to its transceivers, and that pays out tokens for a message   *)
(* enough of its transceivers have attested to.  Both directions are rate  *)
(* limited and queue what does not fit.                                    *)
(*                                                                         *)
(* A message is identified with its digest, which covers the source chain, *)
(* the sequence number and the payload, and not the source manager.  The   *)
(* token has the same decimals on every chain; TrimmedAmount treats the    *)
(* conversion.  A call is one step: it reverts as a whole.                 *)
(***************************************************************************)
EXTENDS RateLimiter, FiniteSets, Sums

CONSTANTS
    ChainId,          \* this chain
    Chains,           \* the other chains
    Managers,         \* addresses of managers on other chains
    NoPeer,           \* the zero address
    Transceivers,
    MaxTransceivers,
    Users,
    StartBalances,    \* what the users hold before they use the manager
    Amounts,          \* amounts users send
    Messages,         \* messages transceivers may present here
    Limits,           \* limits the owner sets
    Locking,          \* mode: TRUE for LOCKING, FALSE for BURNING
    MaxSequence,      \* bound of the message sequence
    MaxTime           \* bound of the clock

ASSUME ManagerAssumption ==
    /\ ChainId \notin Chains
    /\ NoPeer \notin Managers
    /\ StartBalances \in [Users -> Nat]
    /\ Amounts \subseteq Nat
    /\ Limits \subseteq 0..MaxAmount
    /\ Locking \in BOOLEAN
    /\ \A m \in Messages :
         /\ m.source \in Chains
         /\ m.amount \in Nat
         /\ m.recipient \in Users

VARIABLES
    registered, enabled, threshold,   \* the registry, as TransceiverSet has it
    peers,                \* chain -> address of the manager there
    paused,
    nextMessageSequence,
    outbound,             \* RateLimitParams of the outbound direction
    inbound,              \* chain -> RateLimitParams
    outboundQueue,        \* queued transfers, by sequence number
    inboundQueue,         \* queued messages with the time they were executed
    attestations,         \* <<message, transceiver>> pairs
    executed,             \* messages marked executed
    published,            \* what the transceivers were given to send
    balances,             \* the users' tokens
    held,                 \* tokens taken less tokens paid: the manager's balance
                          \* when locking; burned less minted when burning
    now,                  \* block.timestamp
    paid,                 \* history: messages whose amount reached the recipient
    refunded              \* history: sequence numbers whose sender got the tokens back

registryVars == <<registered, enabled, threshold>>
configVars == <<peers, paused>>
limitVars == <<outbound, inbound>>
outVars == <<nextMessageSequence, outboundQueue, published, refunded>>
inVars == <<inboundQueue, attestations, executed, paid>>
tokenVars == <<balances, held>>
vars == <<registryVars, configVars, limitVars, outVars, inVars, tokenVars, now>>

Registry == INSTANCE TransceiverSet

Sequences == 0..(MaxSequence - 1)

(* OutboundQueuedTransfer with its key. *)
QueuedTransfers ==
    [sequence : Nat, amount : Nat, recipientChain : Chains, recipient : Users,
     sender : Users, txTimestamp : Nat]

(* NttManagerMessage with its NativeTokenTransfer payload. *)
SentMessages ==
    [source : {ChainId}, sequence : Nat, sender : Users, amount : Nat,
     recipient : Users, toChain : Chains]

TypeOK ==
    /\ registered \subseteq Transceivers
    /\ enabled \subseteq registered
    /\ threshold \in Nat
    /\ peers \in [Chains -> Managers \cup {NoPeer}]
    /\ paused \in BOOLEAN
    /\ nextMessageSequence \in Nat
    /\ outbound \in RateLimitParams
    /\ inbound \in [Chains -> RateLimitParams]
    /\ outboundQueue \subseteq QueuedTransfers
    /\ inboundQueue \subseteq [message : Messages, txTimestamp : Nat]
    /\ attestations \subseteq Messages \X Transceivers
    /\ executed \subseteq Messages
    /\ published \subseteq [transceiver : Transceivers, destManager : Managers,
                            message : SentMessages]
    /\ balances \in [Users -> Nat]
    /\ held \in Int
    /\ now \in Nat
    /\ paid \subseteq Messages
    /\ refunded \subseteq Nat

(* A manager whose proxy has just been initialised, in front of a token its users
   already hold.  The outbound limit starts at the largest amount. *)
Init ==
    /\ Registry!Init
    /\ peers = [c \in Chains |-> NoPeer]
    /\ paused = FALSE
    /\ nextMessageSequence = 0
    /\ outbound = SetLimit(NullParams, MaxAmount, 1)
    /\ inbound = [c \in Chains |-> NullParams]
    /\ outboundQueue = {}
    /\ inboundQueue = {}
    /\ attestations = {}
    /\ executed = {}
    /\ published = {}
    /\ balances = StartBalances
    /\ held = 0
    /\ now = 1
    /\ paid = {}
    /\ refunded = {}

--------------------------------------------------------------------------------
\* Helpers.

Attesters(m) == {t \in Transceivers : <<m, t>> \in attestations}

\* Plausible slips in the code, each refuted by a property below.
Approved_AnyTransceiver(m, atts, active, th) ==
    /\ Cardinality({t \in Transceivers : <<m, t>> \in atts}) >= th
    /\ th > 0
Approved_MoreThanThreshold(m, atts, active, th) ==
    /\ Cardinality({t \in active : <<m, t>> \in atts}) > th
    /\ th > 0
Unqueue_Nothing(queue, entry) == queue
ReplayProtect_Never(m) == FALSE
Waited_Always(txTimestamp) == TRUE

(* isMessageApproved over the attestation record atts: only attestations of
   transceivers enabled now count. *)
Approved(m, atts, active, th) ==
    /\ Cardinality({t \in active : <<m, t>> \in atts}) >= th
    /\ th > 0

(* _replayProtect: whether the message has been executed. *)
ReplayProtect(m) == m \in executed

(* The check of both completions, against InboundQueuedTransferStillQueued and
   OutboundQueuedTransferStillQueued. *)
Waited(txTimestamp) == now - txTimestamp >= RateLimitDuration

(* delete _getOutboundQueueStorage()[sequence], _getInboundQueueStorage()[digest] *)
Unqueue(queue, entry) == queue \ {entry}

(* safeTransferFrom the user, and burn in burning mode. *)
TakeTokens(user, amount) ==
    /\ balances[user] >= amount
    /\ balances' = [balances EXCEPT ![user] = @ - amount]
    /\ held' = held + amount

(* _mintOrUnlockToRecipient: an unlock needs the tokens to be there. *)
MintOrUnlock(user, amount) ==
    /\ Locking => held >= amount
    /\ balances' = [balances EXCEPT ![user] = @ + amount]
    /\ held' = held - amount

Message(sequence, sender, amount, chain, recipient) ==
    [source |-> ChainId, sequence |-> sequence, sender |-> sender, amount |-> amount,
     recipient |-> recipient, toChain |-> chain]

(* _transfer: one message to every enabled transceiver, addressed to the peer of
   that chain. *)
SendToTransceivers(m) ==
    /\ enabled # {}
    /\ peers[m.toChain] # NoPeer
    /\ published' = published \cup
         {[transceiver |-> t, destManager |-> peers[m.toChain], message |-> m] : t \in enabled}

--------------------------------------------------------------------------------
\* The owner's and the pauser's calls.

SetTransceiver(t) ==
    /\ Registry!SetTransceiver(t)
    /\ UNCHANGED <<configVars, limitVars, outVars, inVars, tokenVars, now>>

RemoveTransceiver(t) ==
    /\ Registry!RemoveTransceiver(t)
    /\ UNCHANGED <<configVars, limitVars, outVars, inVars, tokenVars, now>>

SetThreshold(n) ==
    /\ Registry!SetThreshold(n)
    /\ UNCHANGED <<configVars, limitVars, outVars, inVars, tokenVars, now>>

(* Writes the peer of a chain, replacing any, and moves the inbound limit. *)
SetPeer(chain, manager, limit) ==
    /\ SetLimitAllowed(inbound[chain], limit, now)
    /\ peers' = [peers EXCEPT ![chain] = manager]
    /\ inbound' = [inbound EXCEPT ![chain] = SetLimit(@, limit, now)]
    /\ UNCHANGED <<registryVars, paused, outbound, outVars, inVars, tokenVars, now>>

SetOutboundLimit(limit) ==
    /\ SetLimitAllowed(outbound, limit, now)
    /\ outbound' = SetLimit(outbound, limit, now)
    /\ UNCHANGED <<registryVars, configVars, inbound, outVars, inVars, tokenVars, now>>

SetInboundLimit(chain, limit) ==
    /\ SetLimitAllowed(inbound[chain], limit, now)
    /\ inbound' = [inbound EXCEPT ![chain] = SetLimit(@, limit, now)]
    /\ UNCHANGED <<registryVars, configVars, outbound, outVars, inVars, tokenVars, now>>

Pause ==
    /\ paused' = TRUE
    /\ UNCHANGED <<registryVars, peers, limitVars, outVars, inVars, tokenVars, now>>

Unpause ==
    /\ paused' = FALSE
    /\ UNCHANGED <<registryVars, peers, limitVars, outVars, inVars, tokenVars, now>>

--------------------------------------------------------------------------------
\* Outbound.

(* What transfer does before it looks at the limit.  A chain with no peer has no
   token decimals, on which trimming reverts. *)
TakeTransfer(user, amount, chain) ==
    /\ ~paused
    /\ amount # 0
    /\ TakeTokens(user, amount)
    /\ peers[chain] # NoPeer
    /\ nextMessageSequence < MaxSequence
    /\ nextMessageSequence' = nextMessageSequence + 1

(* transfer, within the limit: consumed here, given back to the inbound limit of
   that chain, and handed to the transceivers in the same call. *)
TransferNow(user, amount, chain, recipient) ==
    /\ TakeTransfer(user, amount, chain)
    /\ ~IsRateLimited(outbound, amount, now)
    /\ outbound' = Consume(outbound, amount, now)
    /\ inbound' = [inbound EXCEPT ![chain] = Backfill(@, amount, now)]
    /\ SendToTransceivers(Message(nextMessageSequence, user, amount, chain, recipient))
    /\ UNCHANGED <<registryVars, configVars, outboundQueue, refunded, inVars, now>>

(* transfer with shouldQueue, over the limit.  It needs no transceiver yet.
   Without shouldQueue it reverts. *)
TransferQueued(user, amount, chain, recipient) ==
    /\ TakeTransfer(user, amount, chain)
    /\ IsRateLimited(outbound, amount, now)
    /\ outboundQueue' = outboundQueue \cup
         {[sequence |-> nextMessageSequence, amount |-> amount, recipientChain |-> chain,
           recipient |-> recipient, sender |-> user, txTimestamp |-> now]}
    /\ UNCHANGED <<registryVars, configVars, limitVars, published, refunded, inVars, now>>

(* completeOutboundQueuedTransfer, by anyone: what was queued is sent whatever the
   limit, to the peer and through the transceivers of now. *)
CompleteOutboundQueued(entry) ==
    /\ ~paused
    /\ entry \in outboundQueue
    /\ Waited(entry.txTimestamp)
    /\ outboundQueue' = Unqueue(outboundQueue, entry)
    /\ SendToTransceivers(Message(entry.sequence, entry.sender, entry.amount,
                                  entry.recipientChain, entry.recipient))
    /\ UNCHANGED <<registryVars, configVars, limitVars, nextMessageSequence, refunded,
                   inVars, tokenVars, now>>

(* cancelOutboundQueuedTransfer, by the sender, at any time. *)
CancelOutboundQueued(user, entry) ==
    /\ ~paused
    /\ entry \in outboundQueue
    /\ entry.sender = user
    /\ outboundQueue' = Unqueue(outboundQueue, entry)
    /\ MintOrUnlock(user, entry.amount)
    /\ refunded' = refunded \cup {entry.sequence}
    /\ UNCHANGED <<registryVars, configVars, limitVars, nextMessageSequence, published,
                   inVars, now>>

--------------------------------------------------------------------------------
\* Inbound.

(* _handleTransfer: pays the recipient and charges the inbound limit, or queues
   the message when it does not fit. *)
HandleTransfer(m) ==
    /\ m.toChain = ChainId
    /\ executed' = executed \cup {m}
    /\ \/ /\ ~IsRateLimited(inbound[m.source], m.amount, now)
          /\ inbound' = [inbound EXCEPT ![m.source] = Consume(@, m.amount, now)]
          /\ outbound' = Backfill(outbound, m.amount, now)
          /\ MintOrUnlock(m.recipient, m.amount)
          /\ paid' = paid \cup {m}
          /\ UNCHANGED inboundQueue
       \/ /\ IsRateLimited(inbound[m.source], m.amount, now)
          /\ inboundQueue' = inboundQueue \cup {[message |-> m, txTimestamp |-> now]}
          /\ UNCHANGED <<limitVars, tokenVars, paid>>

(* attestationReceived: records the attestation and, if that makes or finds the
   message approved, executes it.  A message executed before is left alone. *)
AttestationReceived(t, manager, m) ==
    /\ t \in enabled
    /\ ~paused
    /\ peers[m.source] = manager
    /\ <<m, t>> \notin attestations
    /\ attestations' = attestations \cup {<<m, t>>}
    /\ \/ /\ Approved(m, attestations', enabled, threshold)
          /\ ~ReplayProtect(m)
          /\ HandleTransfer(m)
       \/ /\ ~Approved(m, attestations', enabled, threshold) \/ ReplayProtect(m)
          /\ UNCHANGED <<limitVars, inboundQueue, executed, paid, tokenVars>>
    /\ UNCHANGED <<registryVars, configVars, outVars, now>>

(* executeMsg, by anyone.  On an executed message it succeeds and does nothing. *)
ExecuteMsg(m) ==
    /\ ~paused
    /\ Approved(m, attestations, enabled, threshold)
    /\ ~ReplayProtect(m)
    /\ HandleTransfer(m)
    /\ UNCHANGED <<registryVars, configVars, outVars, attestations, now>>

(* completeInboundQueuedTransfer, by anyone. *)
CompleteInboundQueued(entry) ==
    /\ ~paused
    /\ entry \in inboundQueue
    /\ Waited(entry.txTimestamp)
    /\ inboundQueue' = Unqueue(inboundQueue, entry)
    /\ MintOrUnlock(entry.message.recipient, entry.message.amount)
    /\ paid' = paid \cup {entry.message}
    /\ UNCHANGED <<registryVars, configVars, limitVars, outVars, attestations, executed, now>>

--------------------------------------------------------------------------------

Tick ==
    /\ now < MaxTime
    /\ now' = now + 1
    /\ UNCHANGED <<registryVars, configVars, limitVars, outVars, inVars, tokenVars>>

AdminNext ==
    \/ \E t \in Transceivers : SetTransceiver(t) \/ RemoveTransceiver(t)
    \/ \E n \in 1..MaxTransceivers : SetThreshold(n)
    \/ \E chain \in Chains, manager \in Managers, limit \in Limits :
         SetPeer(chain, manager, limit)
    \/ \E limit \in Limits : SetOutboundLimit(limit)
    \/ \E chain \in Chains, limit \in Limits : SetInboundLimit(chain, limit)
    \/ Pause
    \/ Unpause

OutboundNext ==
    \/ \E user \in Users, amount \in Amounts, chain \in Chains, recipient \in Users :
         \/ TransferNow(user, amount, chain, recipient)
         \/ TransferQueued(user, amount, chain, recipient)
    \/ \E entry \in outboundQueue :
         \/ CompleteOutboundQueued(entry)
         \/ \E user \in Users : CancelOutboundQueued(user, entry)

InboundNext ==
    \/ \E t \in Transceivers, manager \in Managers, m \in Messages :
         AttestationReceived(t, manager, m)
    \/ \E m \in Messages : ExecuteMsg(m)
    \/ \E entry \in inboundQueue : CompleteInboundQueued(entry)

Next == AdminNext \/ OutboundNext \/ InboundNext \/ Tick

Spec == Init /\ [][Next]_vars

--------------------------------------------------------------------------------

QueuedSequences == {e.sequence : e \in outboundQueue}
PublishedMessages == {p.message : p \in published}
SentSequences == {p.message.sequence : p \in published}
QueuedMessages == {e.message : e \in inboundQueue}

(* Every sequence number a transfer was given is in exactly one of three places:
   queued, sent or refunded.  Completing, cancelling and sending race for the same
   queue entry (NttManager.sol:327-378); a transfer sent twice, or refunded and
   sent, creates tokens on the other chain. *)
OutboundSettledOnce ==
    /\ QueuedSequences \cup SentSequences \cup refunded = 0..(nextMessageSequence - 1)
    /\ QueuedSequences \cap SentSequences = {}
    /\ QueuedSequences \cap refunded = {}
    /\ SentSequences \cap refunded = {}
    /\ \A e, f \in outboundQueue : e.sequence = f.sequence => e = f
    /\ \A p, q \in published : p.message.sequence = q.message.sequence => p.message = q.message

(* A message is executed once: it has been paid or it waits in the queue, once and
   not both, whichever of attestationReceived, executeMsg and
   completeInboundQueuedTransfer came first and however the registry changed in
   between (ManagerBase.sol:163-184, NttManager.sol:188-324). *)
InboundSettledOnce ==
    /\ executed = paid \cup QueuedMessages
    /\ paid \cap QueuedMessages = {}
    /\ \A e, f \in inboundQueue : e.message = f.message => e = f

(* The manager's books: what it took in and has not given back to a sender is
   queued or sent, and what it paid out is paid.  In locking mode this is the
   balance of the contract, in burning mode what it burned less what it minted. *)
Conservation ==
    held = SumOfAmounts(outboundQueue) + SumOfAmounts(PublishedMessages) - SumOfAmounts(paid)

(* A message that every transceiver still enabled has attested to can be executed,
   whatever was registered, removed or voted since: the threshold follows the
   enabled transceivers, so no removal strands a message in flight
   (ManagerBase.sol:390-405, TransceiverRegistry.sol:184-229). *)
NoMessageStranded ==
    \A m \in Messages :
        enabled # {} /\ enabled \subseteq Attesters(m)
            => Approved(m, attestations, enabled, threshold)

(* When a message is executed, at least threshold transceivers that are enabled at
   that moment attested to it: the attestation of a removed transceiver does not
   count, and counts again once it is back (INV-012). *)
ExecutedByQuorum ==
    [][\A m \in executed' \ executed :
         \E quorum \in SUBSET enabled :
            /\ threshold > 0
            /\ Cardinality(quorum) >= threshold
            /\ \A t \in quorum : <<m, t>> \in attestations']_vars

StatusOf(m) ==
    IF m \in paid THEN "Paid" ELSE IF m \in executed THEN "Queued" ELSE "NotApproved"

Arrivals == INSTANCE InboundTransfers WITH
    VotesOfDisabled <- FALSE,
    votes <- [m \in Messages |-> Attesters(m)],
    status <- [m \in Messages |-> StatusOf(m)]

(* Messages live the life every manager promises, here and on Solana
   (ManagerBase.sol:130-184, NttManager.sol:188-324). *)
ImplementsInboundTransfers == Arrivals!Spec

(* The limits in a step that charges amount to the outbound limit, or to chain's inbound one. *)
ChargedOutbound(chain, amount) ==
    /\ outbound' = Consume(outbound, amount, now)
    /\ inbound' = [inbound EXCEPT ![chain] = Backfill(@, amount, now)]

ChargedInbound(chain, amount) ==
    /\ inbound' = [inbound EXCEPT ![chain] = Consume(@, amount, now)]
    /\ outbound' = Backfill(outbound, amount, now)

FlowsCharged ==
    /\ \A p \in published' \ published :
         \/ \E e \in outboundQueue : e.sequence = p.message.sequence
                                      /\ now - e.txTimestamp >= RateLimitDuration
         \/ ChargedOutbound(p.message.toChain, p.message.amount)
    /\ \A m \in paid' \ paid :
         \/ \E e \in inboundQueue : e.message = m /\ now - e.txTimestamp >= RateLimitDuration
         \/ ChargedInbound(m.source, m.amount)

(* Whatever leaves or arrives is charged to its limit and given back to the other,
   on the books of the chain it goes to or comes from, unless it has waited a full
   RateLimitDuration in a queue.  Together with NetFlowBounded of RateLimitedFlow
   this bounds what the manager moves (INV-009, INV-010). *)
FlowsAreCharged == [][FlowsCharged]_vars

================================================================================
