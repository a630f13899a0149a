----------------------------- MODULE TransferRoute -----------------------------
(***************************************************************************)
(* The four routes of the SDK, from initiate to finalize: one client with  *)
(* the receipt of one transfer, which it tracks, completes and finalizes,  *)
(* while the executor, other relayers and the owner act on the destination *)
(* chain.  Every read of a chain or a service is a step of its own,        *)
(* because track awaits it; a transaction is one step.  The destination    *)
(* manager is InboundTransfers for the one message, not paused; that of    *)
(* the multi-token routes is not in this repository and is taken to be one *)
(* too.  Whether the client crashes after sending a transaction and before *)
(* it saw the result is not told apart from another relayer having sent    *)
(* it.                                                                     *)
(***************************************************************************)
EXTENDS Integers, FiniteSets

CONSTANTS
    Routes,        \* subset of AllRoutes
    Platforms,     \* of the destination: subset of {"Evm", "Solana", "Sui", "Xrpl"}
    Transceivers,
    Wormhole,      \* the transceiver whose VAA the routes fetch and redeem
    Transfer       \* the message

MultiToken == {"MultiTokenManual", "MultiTokenExecutor"}
Relayed == {"Executor", "MultiTokenExecutor"}
AllRoutes == {"Manual"} \cup MultiToken \cup Relayed

ASSUME RouteAssumption ==
    /\ Routes \subseteq AllRoutes
    /\ Platforms \subseteq {"Evm", "Solana", "Sui", "Xrpl"}
    /\ Wormhole \in Transceivers
    /\ IsFiniteSet(Transceivers)

VARIABLES
    route,       \* never changes
    platform,    \* never changes
    vaa,         \* "none", "pending" from initiate on, "signed"
    relay,       \* the executor's status of the transfer: "unknown", "ok", "failed"
    votes,       \* the destination, see InboundTransfers
    status,
    enabled,
    threshold,
    ready,       \* a queued transfer's waiting time is over
    receipt,     \* state of the client's receipt
    attested,    \* its trackingInfo.transceiverAttested, of the multi-token routes
    reading      \* what track is about to read, "idle" outside of track

rigidVars == <<route, platform>>
destVars == <<votes, status, enabled, threshold, ready>>
clientVars == <<receipt, attested, reading>>
vars == <<rigidVars, vaa, relay, destVars, clientVars>>

Dest == INSTANCE InboundTransfers WITH Messages <- {Transfer}, VotesOfDisabled <- TRUE

(* TransferState, as far as the routes use it. *)
ReceiptStates ==
    {"None", "SourceInitiated", "Attested", "Failed", "DestinationInitiated",
     "DestinationQueued", "DestinationFinalized"}

(* Types; and the loop over the transceivers (types.ts:828) goes on only while there is
   one left to ask about. *)
TypeOK ==
    /\ route \in Routes
    /\ platform \in Platforms
    /\ vaa \in {"none", "pending", "signed"}
    /\ relay \in {"unknown", "ok", "failed"}
    /\ Dest!TypeOK
    /\ ready \in BOOLEAN
    /\ receipt \in ReceiptStates
    /\ attested \subseteq Transceivers
    /\ reading \in {"idle", "vaa", "relay", "axelar", "transceivers", "approved", "queued",
                   "executed", "stillQueued"}
    /\ reading = "transceivers" => attested # Transceivers

Init ==
    /\ route \in Routes
    /\ platform \in Platforms
    /\ route \in MultiToken => platform = "Evm"
    /\ vaa = "none"
    /\ relay = "unknown"
    /\ votes = [m \in {Transfer} |-> {}]
    /\ status = [m \in {Transfer} |-> "NotApproved"]
    /\ enabled = Transceivers
    /\ threshold \in 1..Cardinality(Transceivers)
    /\ ready = FALSE
    /\ receipt = "None"
    /\ attested = {}
    /\ reading = "idle"

--------------------------------------------------------------------------------
\* Plausible slips in the code, each refuted by a property below.

EvmStillQueued_NotAsked == FALSE
ReadAfterVaa_FailedIsFinal(r) ==
    CASE r = "Attested" -> (IF route = "Executor" THEN "relay" ELSE "approved")
      [] r = "Failed" -> "idle"
      [] OTHER -> "queued"
OtherMayComplete_NotFailed == receipt = "Attested"

\* What the clients of the platforms answer.

Voters == votes[Transfer]
Paid == status[Transfer] = "Paid"
Queued == status[Transfer] = "Queued"

(* isMessageApproved: the enabled transceivers and the threshold of now count. *)
EvmIsApproved == Dest!Quorum(Voters) /\ threshold > 0

(* The inbox item exists, with however few votes. *)
SolanaIsApproved == Voters # {}

(* All bits of the votes count, whether their transceivers are enabled or not. *)
SuiIsApproved == Voters # {} /\ Cardinality(Voters) >= threshold

(* getIsApproved; never on XRPL, where there is nothing to ask. *)
IsApproved ==
    \/ platform = "Evm" /\ EvmIsApproved
    \/ platform = "Solana" /\ SolanaIsApproved
    \/ platform = "Sui" /\ SuiIsApproved

(* getInboundQueuedTransfer returns one *)
HasInboundQueued == platform # "Xrpl" /\ Queued

(* The second read of the EVM getIsExecuted: executed is also what is queued. *)
EvmStillQueued == Queued

(* getIsExecuted on Solana and Sui: the status of the item is Released. *)
IsReleased == platform \in {"Solana", "Sui"} /\ Paid

--------------------------------------------------------------------------------
\* The destination chain and the services.

(* A vote, in whoever's transaction; on Sui also of a disabled transceiver.  On EVM it executes the message when it makes the
   quorum, and is welcome afterwards.  On Solana and Sui the transaction may go on to
   release, what it approves waits for its release be it for no time at all, and with a
   quorum it fails for what was approved before. *)
VoteFor(t) ==
    /\ vaa # "none"
    /\ t = Wormhole => vaa = "signed"
    /\ t \notin Voters
    /\ t \in enabled \/ platform = "Sui"
    /\ Dest!Vote(Transfer, t)
    /\ Dest!Quorum(votes'[Transfer]) =>
         IF status[Transfer] = "NotApproved"
         THEN status'[Transfer] # "NotApproved"
         ELSE platform = "Evm"
    /\ Queued /\ Paid' => platform # "Evm" /\ ready
    /\ IF Queued' /\ ~Queued THEN ready' \in BOOLEAN ELSE UNCHANGED ready

Relay(t) ==
    /\ VoteFor(t)
    /\ UNCHANGED <<rigidVars, vaa, relay, clientVars>>

(* executeMsg, or a redemption repeated after the threshold fell. *)
Execute ==
    /\ Dest!Execute(Transfer)
    /\ IF Queued' THEN ready' \in BOOLEAN ELSE UNCHANGED ready
    /\ UNCHANGED <<rigidVars, vaa, relay, clientVars>>

CompleteQueued ==
    /\ ready
    /\ Dest!Complete(Transfer)
    /\ UNCHANGED <<rigidVars, vaa, relay, ready, clientVars>>

QueueOver ==
    /\ Queued /\ ~ready
    /\ ready' = TRUE
    /\ UNCHANGED <<rigidVars, vaa, relay, votes, status, enabled, threshold, clientVars>>

(* The owner keeps a transceiver and a reachable threshold (InboundTransfers'
   implementations see to that). *)
Administer ==
    /\ enabled' \in SUBSET Transceivers \ {{}}
    /\ threshold' \in 1..Cardinality(enabled')
    /\ Dest!Administer
    /\ UNCHANGED <<rigidVars, vaa, relay, ready, clientVars>>

Sign ==
    /\ vaa = "pending"
    /\ vaa' = "signed"
    /\ UNCHANGED <<rigidVars, relay, destVars, clientVars>>

(* The executor reports on a transfer it was asked for; its reports can change. *)
Report ==
    /\ route \in Relayed
    /\ vaa # "none"
    /\ relay' \in {"ok", "failed"}
    /\ UNCHANGED <<rigidVars, vaa, destVars, clientVars>>

--------------------------------------------------------------------------------
\* The client.

(* initiate of either route: the transfer is not queued on the source chain. *)
Initiate ==
    /\ receipt = "None"
    /\ vaa = "none"
    /\ receipt' = "SourceInitiated"
    /\ vaa' = "pending"
    /\ UNCHANGED <<rigidVars, relay, destVars, attested, reading>>

(* resume: a client that knows the transaction only. *)
Resume ==
    /\ reading = "idle"
    /\ vaa = "signed"
    /\ receipt' = "Attested"
    /\ attested' = {}
    /\ UNCHANGED <<rigidVars, vaa, relay, destVars, reading>>

(* What track reads once the VAA is there, by the state of the receipt. *)
ReadAfterVaa(r) ==
    CASE r = "Attested" -> (IF route = "Executor" THEN "relay" ELSE "approved")
      [] r = "Failed" -> "approved"
      [] OTHER -> "queued"

Track ==
    /\ reading = "idle"
    /\ receipt \notin {"None", "DestinationFinalized"}
    /\ reading' = IF receipt = "SourceInitiated" THEN "vaa" ELSE ReadAfterVaa(receipt)
    /\ UNCHANGED <<rigidVars, vaa, relay, destVars, receipt, attested>>

(* A read throws: the node is down, there is no VAA yet, or the executor has no
   status for the transaction.  The receipt stays as it was yielded last. *)
ReadThrows ==
    /\ reading # "idle"
    /\ reading' = "idle"
    /\ UNCHANGED <<rigidVars, vaa, relay, destVars, receipt, attested>>

ReadVaa ==
    /\ reading = "vaa"
    /\ vaa = "signed"
    /\ receipt' = "Attested"
    /\ reading' = ReadAfterVaa("Attested")
    /\ UNCHANGED <<rigidVars, vaa, relay, destVars, attested>>

(* Of the executor route: on XRPL it is the only source of truth. *)
ReadExecutorRelay ==
    \/ /\ relay = "failed"
       /\ receipt' = "Failed"
       /\ reading' = "approved"
    \/ /\ relay = "ok" /\ platform # "Xrpl"
       /\ reading' = "approved"
       /\ UNCHANGED receipt
    \/ /\ relay = "ok" /\ platform = "Xrpl"
       /\ receipt' = "DestinationFinalized"
       /\ reading' = "idle"

(* trackExecutor of the multi-token route. *)
ReadMultiTokenRelay ==
    /\ route \in MultiToken
    /\ relay # "unknown"
    /\ receipt' = IF relay = "failed" THEN "Failed" ELSE "Attested"
    /\ reading' = "idle"

(* The executor's status of the transfer; track throws while it has none. *)
ReadRelay ==
    /\ reading = "relay"
    /\ \/ ReadMultiTokenRelay
       \/ /\ route = "Executor"
          /\ ReadExecutorRelay
    /\ UNCHANGED <<rigidVars, vaa, relay, destVars, attested>>

(* trackAxelar: whatever Axelar says of its own relay. *)
ReadAxelar ==
    /\ reading = "axelar"
    /\ receipt' \in {"Failed", "Attested"}
    /\ reading' = "idle"
    /\ UNCHANGED <<rigidVars, vaa, relay, destVars, attested>>

NextTransceiver(known) == IF known = Transceivers THEN "idle" ELSE "transceivers"

RelayerOf(t) ==
    CASE t # Wormhole -> "axelar"
      [] t = Wormhole /\ route \in Relayed -> "relay"
      [] OTHER -> "idle"

ReadApproved ==
    /\ reading = "approved"
    /\ IF IsApproved
       THEN /\ receipt' = "DestinationInitiated"
            /\ reading' = "queued"
       ELSE /\ reading' = IF route \in MultiToken THEN NextTransceiver(attested) ELSE "idle"
            /\ UNCHANGED receipt
    /\ UNCHANGED <<rigidVars, vaa, relay, destVars, attested>>

(* The loop over the sendTransceivers not known to have attested, Wormhole last: the
   first that has not is asked about, if it has a relayer. *)
ReadTransceivers ==
    /\ reading = "transceivers"
    /\ \E t \in Transceivers \ attested :
         /\ t = Wormhole => Transceivers \ attested = {Wormhole}
         /\ IF t \in Voters
            THEN /\ attested' = attested \cup {t}
                 /\ receipt' = "Attested"
                 /\ reading' = NextTransceiver(attested')
            ELSE /\ reading' = RelayerOf(t)
                 /\ UNCHANGED <<receipt, attested>>
    /\ UNCHANGED <<rigidVars, vaa, relay, destVars>>

ReadQueued ==
    /\ reading = "queued"
    /\ IF HasInboundQueued
       THEN /\ receipt' = "DestinationQueued"
            /\ reading' = "idle"
       ELSE /\ reading' = "executed"
            /\ UNCHANGED receipt
    /\ UNCHANGED <<rigidVars, vaa, relay, destVars, attested>>

(* getIsExecuted, whose EVM version goes on to read the queue again. *)
ReadExecuted ==
    /\ reading = "executed"
    /\ IF platform = "Evm" /\ status[Transfer] \in Dest!Executed
       THEN /\ reading' = "stillQueued"
            /\ UNCHANGED receipt
       ELSE /\ reading' = "idle"
            /\ receipt' = IF IsReleased THEN "DestinationFinalized" ELSE receipt
    /\ UNCHANGED <<rigidVars, vaa, relay, destVars, attested>>

ReadStillQueued ==
    /\ reading = "stillQueued"
    /\ receipt' = IF EvmStillQueued THEN receipt ELSE "DestinationFinalized"
    /\ reading' = "idle"
    /\ UNCHANGED <<rigidVars, vaa, relay, destVars, attested>>

ManualMayComplete == receipt = "Attested"
OtherMayComplete == receipt \in {"Attested", "Failed"}

(* complete: the redeem transaction of the platform.  On EVM it votes.  On Solana it
   votes and releases what is ready, and fails for what was released.  On Sui the
   release aborts unless the message is approved and its time has come, so it pays or
   does nothing.  A success says DestinationInitiated, whatever the vote achieved; the
   multi-token routes leave the receipt to track. *)
Complete ==
    /\ reading = "idle"
    /\ IF route = "Manual" THEN ManualMayComplete ELSE OtherMayComplete
    /\ VoteFor(Wormhole)
    /\ CASE platform = "Evm" -> TRUE
         [] platform = "Solana" -> ~Paid /\ (Queued' => ~ready')
         [] platform = "Sui" -> ~Paid /\ Paid'
         [] platform = "Xrpl" -> FALSE
    /\ receipt' = IF route \in MultiToken THEN receipt ELSE "DestinationInitiated"
    /\ UNCHANGED <<rigidVars, vaa, relay, attested, reading>>

(* completeInboundQueuedTransfer: reverts on EVM when it is too early; on Solana with
   revertWhenNotReady false it succeeds and leaves the item; on Sui it redeems the
   consumed VAA again, which aborts; unsupported on XRPL. *)
FinalizeTx ==
    \/ /\ platform \in {"Evm", "Solana"}
       /\ ready
       /\ Dest!Complete(Transfer)
    \/ /\ platform = "Solana"
       /\ Queued /\ ~ready
       /\ UNCHANGED <<votes, status, enabled, threshold>>

Finalize ==
    /\ reading = "idle"
    /\ receipt = "DestinationQueued"
    /\ FinalizeTx
    /\ receipt' = "DestinationFinalized"
    /\ UNCHANGED <<rigidVars, vaa, relay, ready, attested, reading>>

Read ==
    \/ ReadVaa \/ ReadRelay \/ ReadAxelar \/ ReadApproved \/ ReadTransceivers
    \/ ReadQueued \/ ReadExecuted \/ ReadStillQueued

ClientNext == Initiate \/ Resume \/ Track \/ ReadThrows \/ Read \/ Complete \/ Finalize

Next ==
    \/ ClientNext
    \/ \E t \in Transceivers : Relay(t)
    \/ Execute \/ CompleteQueued \/ QueueOver \/ Administer \/ Sign \/ Report

Spec == Init /\ [][Next]_vars

(* Guardians sign and time passes.  A client that waits for its transfer tracks,
   completes and finalizes again and again; a read returns or throws, and the reads do
   not throw for ever. *)
Fairness ==
    /\ WF_vars(Sign) /\ WF_vars(QueueOver)
    /\ WF_vars(Track) /\ WF_vars(ReadThrows)
    /\ SF_vars(ReadVaa) /\ SF_vars(ReadRelay) /\ SF_vars(ReadApproved)
    /\ SF_vars(ReadAxelar) /\ SF_vars(ReadTransceivers)
    /\ SF_vars(ReadQueued) /\ SF_vars(ReadExecuted) /\ SF_vars(ReadStillQueued)
    /\ SF_vars(Complete) /\ SF_vars(Finalize)

FairSpec == Spec /\ Fairness

--------------------------------------------------------------------------------

(* A receipt never runs ahead of the destination, although every one of its states
   was read at another moment and the owner may have changed the quorum since: what
   it calls redeemed has a vote, what it calls queued was executed, and what it calls
   finalized is paid.  XRPL has nothing to compare with (executor.ts:856-858); for
   Solana finalize runs ahead: its transaction succeeds and leaves what is not ready.
   (executor.ts:801-917, manual.ts:351-417, evm/ts/src/ntt.ts:329-338) *)
ReceiptIsTrue ==
    platform # "Xrpl" =>
      /\ receipt \in {"DestinationInitiated", "DestinationQueued"} => Voters # {}
      /\ receipt = "DestinationQueued" => status[Transfer] \in Dest!Executed
      /\ receipt = "DestinationFinalized" =>
           \/ Paid
           \/ platform = "Solana" /\ Queued

(* What was paid for good and stays approved in the eyes of the getter is tracked to
   DestinationFinalized by whoever keeps tracking, whatever receipt it started from and
   however often reads failed; with the executor route only once the executor knows
   the transfer at all (executor.ts:843). *)
PaidIsTracked ==
    <>[](/\ Paid /\ IsApproved
         /\ receipt # "None"
         /\ route = "Executor" => relay # "unknown")
        => []<>(receipt = "DestinationFinalized")

(* A user of an EVM destination needs nobody else: while the Wormhole transceiver is
   enabled and suffices, tracking, completing and finalizing get the transfer paid
   through failed relays, queues and lost receipts. *)
RouteDelivers ==
    (/\ [](platform = "Evm" /\ Wormhole \in enabled /\ threshold = 1)
     /\ <>(vaa # "none")
     /\ <>[](route \in Relayed => relay # "unknown"))
        => <>Paid

================================================================================
