------------------------------- MODULE NttBridge -------------------------------
(***************************************************************************)
(* A token bridged between two chains: a manager in locking mode on the    *)
(* chain of the token, a manager in burning mode on the other, Wormhole    *)
(* transceivers on both, and between them the VAAs the guardians signed.   *)
(* A VAA is available for ever once it is published: it may be delivered   *)
(* late, out of order, repeatedly or never.                                *)
(*                                                                         *)
(* The bridge starts as a deployment leaves it: the transceivers enabled,  *)
(* the peers and the limits set.  Both chains read the same clock.         *)
(***************************************************************************)
EXTENDS FiniteSets, Integers, Sums

CONSTANTS
    RateLimitDuration, MaxAmount,
    ChainA, ChainB,             \* the locking and the burning side
    ManagerA, ManagerB, NoPeer,
    Transceivers,               \* on each chain; t here is the peer of t there
    MaxTransceivers,
    StartThreshold,
    Users,
    StartBalances,              \* tokens on the locking side
    Amounts,
    Limits,                     \* limits the owners may set
    OutboundLimit, InboundLimit,\* the limits the bridge starts with
    MaxSequenceA, MaxSequenceB, \* bounds of the message sequences
    MaxTime,                    \* bound of the clock
    LastTransferTime,           \* no transfer is started after this
    ForeignVAAs,                \* VAAs of emitters that are no transceiver's peer
    ForeignEmitters,
    WormholePeersSet            \* whether the deployment has set the Wormhole peers

ASSUME BridgeAssumption ==
    /\ ChainA # ChainB
    /\ StartThreshold \in 1..Cardinality(Transceivers)
    /\ IsFiniteSet(Transceivers)
    /\ Transceivers \cap ForeignEmitters = {}
    /\ NoPeer \notin ForeignEmitters
    /\ \A vaa \in ForeignVAAs : vaa.emitter \in ForeignEmitters
    /\ WormholePeersSet \in BOOLEAN
    /\ IsFiniteSet(Users)
    /\ StartBalances \in [Users -> Nat]
    /\ Amounts \subseteq Nat
    /\ MaxSequenceA \in Nat /\ MaxSequenceB \in Nat

VARIABLES
    now,
    aRegistered, aEnabled, aThreshold, aPeers, aPaused, aSequence, aOutbound, aInbound,
    aOutboundQueue, aInboundQueue, aAttestations, aExecuted, aPublished, aBalances, aHeld,
    aPaid, aRefunded, aWormholePeers, aConsumed,
    bRegistered, bEnabled, bThreshold, bPeers, bPaused, bSequence, bOutbound, bInbound,
    bOutboundQueue, bInboundQueue, bAttestations, bExecuted, bPublished, bBalances, bHeld,
    bPaid, bRefunded, bWormholePeers, bConsumed

aManagerVars ==
    <<aRegistered, aEnabled, aThreshold, aPeers, aPaused, aSequence, aOutbound, aInbound,
      aOutboundQueue, aInboundQueue, aAttestations, aExecuted, aPublished, aBalances, aHeld,
      aPaid, aRefunded>>
bManagerVars ==
    <<bRegistered, bEnabled, bThreshold, bPeers, bPaused, bSequence, bOutbound, bInbound,
      bOutboundQueue, bInboundQueue, bAttestations, bExecuted, bPublished, bBalances, bHeld,
      bPaid, bRefunded>>
aVars == <<aManagerVars, aWormholePeers, aConsumed>>
bVars == <<bManagerVars, bWormholePeers, bConsumed>>
vars == <<now, aVars, bVars>>

MessagesFrom(chain, otherChain, maxSequence) ==
    [source : {chain}, sequence : 0..(maxSequence - 1), sender : Users, amount : Amounts,
     recipient : Users, toChain : {otherChain}]
MessagesOfA == MessagesFrom(ChainA, ChainB, MaxSequenceA)
MessagesOfB == MessagesFrom(ChainB, ChainA, MaxSequenceB)

Emitters == Transceivers \cup ForeignEmitters

VAAsFrom(chain, manager, otherManager, messages) ==
    [emitterChain : {chain}, emitter : Emitters, sourceManager : {manager},
     recipientManager : {otherManager}, message : messages]
VAAsOfA == VAAsFrom(ChainA, ManagerA, ManagerB, MessagesOfA)
VAAsOfB == VAAsFrom(ChainB, ManagerB, ManagerA, MessagesOfB)

NoTokens == [u \in Users |-> 0]

A == INSTANCE NttManager WITH
    ChainId <- ChainA, Chains <- {ChainB}, Managers <- {ManagerB}, Locking <- TRUE,
    Messages <- MessagesOfB, MaxSequence <- MaxSequenceA, StartBalances <- StartBalances,
    registered <- aRegistered, enabled <- aEnabled, threshold <- aThreshold,
    peers <- aPeers, paused <- aPaused, nextMessageSequence <- aSequence,
    outbound <- aOutbound, inbound <- aInbound,
    outboundQueue <- aOutboundQueue, inboundQueue <- aInboundQueue,
    attestations <- aAttestations, executed <- aExecuted, published <- aPublished,
    balances <- aBalances, held <- aHeld, paid <- aPaid, refunded <- aRefunded

B == INSTANCE NttManager WITH
    ChainId <- ChainB, Chains <- {ChainA}, Managers <- {ManagerA}, Locking <- FALSE,
    Messages <- MessagesOfA, MaxSequence <- MaxSequenceB, StartBalances <- NoTokens,
    registered <- bRegistered, enabled <- bEnabled, threshold <- bThreshold,
    peers <- bPeers, paused <- bPaused, nextMessageSequence <- bSequence,
    outbound <- bOutbound, inbound <- bInbound,
    outboundQueue <- bOutboundQueue, inboundQueue <- bInboundQueue,
    attestations <- bAttestations, executed <- bExecuted, published <- bPublished,
    balances <- bBalances, held <- bHeld, paid <- bPaid, refunded <- bRefunded

WA == INSTANCE WormholeTransceiver WITH
    Chains <- {ChainB}, NoEmitter <- NoPeer, ThisManager <- ManagerA, VAAs <- VAAsOfB,
    wormholePeers <- aWormholePeers, consumedVAAs <- aConsumed

WB == INSTANCE WormholeTransceiver WITH
    Chains <- {ChainA}, NoEmitter <- NoPeer, ThisManager <- ManagerB, VAAs <- VAAsOfA,
    wormholePeers <- bWormholePeers, consumedVAAs <- bConsumed

StartLimit(limit) ==
    [isSet |-> TRUE, limit |-> limit, currentCapacity |-> limit, lastTxTimestamp |-> 1]

StartWormholePeers(chain) ==
    [t \in Transceivers |-> [c \in {chain} |-> IF WormholePeersSet THEN t ELSE NoPeer]]

Init ==
    /\ now = 1
    /\ aRegistered = Transceivers /\ bRegistered = Transceivers
    /\ aEnabled = Transceivers /\ bEnabled = Transceivers
    /\ aThreshold = StartThreshold /\ bThreshold = StartThreshold
    /\ aPeers = [c \in {ChainB} |-> ManagerB] /\ bPeers = [c \in {ChainA} |-> ManagerA]
    /\ aPaused = FALSE /\ bPaused = FALSE
    /\ aSequence = 0 /\ bSequence = 0
    /\ aOutbound = StartLimit(OutboundLimit) /\ bOutbound = StartLimit(OutboundLimit)
    /\ aInbound = [c \in {ChainB} |-> StartLimit(InboundLimit)]
    /\ bInbound = [c \in {ChainA} |-> StartLimit(InboundLimit)]
    /\ aOutboundQueue = {} /\ bOutboundQueue = {}
    /\ aInboundQueue = {} /\ bInboundQueue = {}
    /\ aAttestations = {} /\ bAttestations = {}
    /\ aExecuted = {} /\ bExecuted = {}
    /\ aPublished = {} /\ bPublished = {}
    /\ aBalances = StartBalances /\ bBalances = NoTokens
    /\ aHeld = 0 /\ bHeld = 0
    /\ aPaid = {} /\ bPaid = {}
    /\ aRefunded = {} /\ bRefunded = {}
    /\ aWormholePeers = StartWormholePeers(ChainB)
    /\ bWormholePeers = StartWormholePeers(ChainA)
    /\ aConsumed = [t \in Transceivers |-> {}] /\ bConsumed = [t \in Transceivers |-> {}]

--------------------------------------------------------------------------------
\* The VAAs.

(* What the guardians sign of a message a transceiver published. *)
SignedFrom(chain, manager, published) ==
    {[emitterChain |-> chain, emitter |-> p.transceiver, sourceManager |-> manager,
      recipientManager |-> p.destManager, message |-> p.message] : p \in published}

AvailableVAAs ==
    SignedFrom(ChainA, ManagerA, aPublished) \cup SignedFrom(ChainB, ManagerB, bPublished)
        \cup ForeignVAAs

(* receiveMessage with the attestationReceived it calls. *)
DeliverToA(t, vaa) ==
    /\ vaa.emitterChain = ChainB
    /\ WA!ReceiveMessage(t, vaa)
    /\ A!AttestationReceived(t, vaa.sourceManager, vaa.message)
    /\ UNCHANGED bVars

DeliverToB(t, vaa) ==
    /\ vaa.emitterChain = ChainA
    /\ WB!ReceiveMessage(t, vaa)
    /\ B!AttestationReceived(t, vaa.sourceManager, vaa.message)
    /\ UNCHANGED aVars

Deliver(t) == \E vaa \in AvailableVAAs : DeliverToA(t, vaa) \/ DeliverToB(t, vaa)

--------------------------------------------------------------------------------
\* The steps of one side.

OnlyA == UNCHANGED <<bVars, aWormholePeers, aConsumed>>
OnlyB == UNCHANGED <<aVars, bWormholePeers, bConsumed>>

Transfer ==
    /\ now <= LastTransferTime
    /\ \E user \in Users, amount \in Amounts, recipient \in Users :
         \/ OnlyA /\ A!TransferNow(user, amount, ChainB, recipient)
         \/ OnlyA /\ A!TransferQueued(user, amount, ChainB, recipient)
         \/ OnlyB /\ B!TransferNow(user, amount, ChainA, recipient)
         \/ OnlyB /\ B!TransferQueued(user, amount, ChainA, recipient)

Cancel ==
    \/ \E entry \in aOutboundQueue, user \in Users : OnlyA /\ A!CancelOutboundQueued(user, entry)
    \/ \E entry \in bOutboundQueue, user \in Users : OnlyB /\ B!CancelOutboundQueued(user, entry)

Complete ==
    \/ \E entry \in aOutboundQueue : OnlyA /\ A!CompleteOutboundQueued(entry)
    \/ \E entry \in bOutboundQueue : OnlyB /\ B!CompleteOutboundQueued(entry)
    \/ \E entry \in aInboundQueue : OnlyA /\ A!CompleteInboundQueued(entry)
    \/ \E entry \in bInboundQueue : OnlyB /\ B!CompleteInboundQueued(entry)

Execute ==
    \/ \E m \in MessagesOfB : OnlyA /\ A!ExecuteMsg(m)
    \/ \E m \in MessagesOfA : OnlyB /\ B!ExecuteMsg(m)

Owner ==
    \/ OnlyA /\ A!AdminNext
    \/ OnlyB /\ B!AdminNext
    \/ /\ \E t \in Transceivers : WA!SetWormholePeer(t, ChainB, t)
       /\ UNCHANGED <<now, aManagerVars, bVars>>
    \/ /\ \E t \in Transceivers : WB!SetWormholePeer(t, ChainA, t)
       /\ UNCHANGED <<now, bManagerVars, aVars>>

(* Every transfer started is sent, and every message executed. *)
NothingUndelivered ==
    /\ aOutboundQueue = {} /\ bOutboundQueue = {}
    /\ \A p \in aPublished : p.message \in bExecuted
    /\ \A p \in bPublished : p.message \in aExecuted

(* The clock is bounded; its last RateLimitDuration waits for what may still have
   to queue, so that every queue can be emptied within the bound. *)
Tick ==
    /\ now < MaxTime - RateLimitDuration \/ NothingUndelivered
    /\ now < MaxTime
    /\ now' = now + 1
    /\ UNCHANGED <<aVars, bVars>>

UserNext == Transfer \/ Cancel \/ Complete \/ Execute \/ \E t \in Transceivers : Deliver(t)

QuietNext == UserNext \/ Tick
Next == QuietNext \/ Owner

Spec == Init /\ [][Next]_vars

(* While the owners change nothing and someone presents the VAAs and completes the
   queues, which any account may do: nobody has to cancel, transfer or call
   executeMsg. *)
Fairness ==
    /\ WF_vars(Tick)
    /\ WF_vars(Complete)
    /\ \A t \in Transceivers : WF_vars(Deliver(t))

QuietSpec == Init /\ [][QuietNext]_vars
FairSpec == QuietSpec /\ Fairness

--------------------------------------------------------------------------------

AsMessage(chain, entry) ==
    [source |-> chain, sequence |-> entry.sequence, sender |-> entry.sender,
     amount |-> entry.amount, recipient |-> entry.recipient, toChain |-> entry.recipientChain]

MessagesIn(published) == {p.message : p \in published}

(* Transfers whose tokens are neither in a wallet of the chain they left nor in one
   of the chain they go to. *)
Unsettled ==
    {AsMessage(ChainA, e) : e \in aOutboundQueue} \cup {AsMessage(ChainB, e) : e \in bOutboundQueue}
        \cup (MessagesIn(aPublished) \ bPaid) \cup (MessagesIn(bPublished) \ aPaid)

SumOfBalances(balances) == SumFunction([u \in Users |-> balances[u]])

TypeOK ==
    /\ A!TypeOK
    /\ B!TypeOK
    /\ WA!TypeOK
    /\ WB!TypeOK

(* The tokens the locking side holds are the supply of the burning side and what is
   on its way, in either direction and in any queue.  So every unlock a message
   from the burning side or a cancelled transfer asks for can be paid (INV-001). *)
Backed == aHeld = SumOfBalances(bBalances) + SumOfAmounts(Unsettled)

(* What a manager executes is what the transceivers of the other manager were given
   to send to it, whoever else publishes Wormhole messages (INV-003). *)
Authentic ==
    /\ bExecuted \subseteq MessagesIn(aPublished)
    /\ aExecuted \subseteq MessagesIn(bPublished)

(* A transceiver has consumed a VAA exactly when its manager holds its attestation:
   the two contracts commit together or not at all, so a VAA whose delivery failed
   can be presented again and one that was delivered cannot (INV-002). *)
ConsumedIffAttested ==
    /\ \A t \in Transceivers, m \in MessagesOfB :
         <<m, t>> \in aAttestations <=> \E vaa \in aConsumed[t] : vaa.message = m
    /\ \A t \in Transceivers, m \in MessagesOfA :
         <<m, t>> \in bAttestations <=> \E vaa \in bConsumed[t] : vaa.message = m

Ledger == INSTANCE TransferLedger WITH
    Transfers <- MessagesOfA \cup MessagesOfB,
    StartWallets <- [c \in {ChainA, ChainB} |-> IF c = ChainA THEN StartBalances ELSE NoTokens],
    wallets <- [c \in {ChainA, ChainB} |-> IF c = ChainA THEN aBalances ELSE bBalances],
    pending <- Unsettled

(* To its users the bridge is a ledger of transfers, each paid or refunded once. *)
ImplementsLedger == Ledger!Spec

(* While the owners are idle, every transfer is paid or refunded, whatever limits
   and queues it meets on the two sides. *)
EveryTransferSettles ==
    \A m \in MessagesOfA \cup MessagesOfB : m \in Unsettled ~> m \notin Unsettled

================================================================================
