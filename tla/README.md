# A verification project for Native Token Transfers (NTT)

TLA+ modules that model the protocol core of this repository and the clients that drive
it, TLC configurations that check them on small instances, and theorems about them that
TLAPS proves for every value of the constants. `PROJECT.json` lists the components, runs,
findings, hazards and theorems, and gives for every definition the source lines it stands
for.

Run a model with `tlc -config <run>.cfg <module>.tla` and check proofs with
`tlapm <module>.tla`. The theorems about a module are in `<module>Proofs`, those about the
registry, the limiter and the amounts in `ManagerPartsProofs`, and those about sums, which the
others use, in `SumTheorems`.

## 1. The system

NTT bridges one token between chains without wrapping it. Every chain has a *manager*,
which takes and pays tokens, and *transceivers*, which carry messages between managers.
A manager either locks the token (the chain where it originates) or burns and mints it.

| Component | State it keeps | Operations | Interacts with |
|---|---|---|---|
| **EVM NTT manager** (`evm/src/NttManager/`) | peers, pause flag, message sequence, attestation bitmaps and executed flags, two queues, threshold | `transfer`, `attestationReceived`, `executeMsg`, `completeInbound/OutboundQueuedTransfer`, `cancelOutboundQueuedTransfer`, owner's setters, `pause` | calls the token and every enabled transceiver in the caller's transaction; is called back by transceivers |
| **Transceiver registry** (`TransceiverRegistry.sol`) | flags and slot by address, registered and enabled arrays, bitmap of enabled slots, counters | set, remove | storage of the manager; attestations are bits by slot |
| **Rate limiter** (`libraries/RateLimiter.sol`) | limit, current capacity and time of the last change, once outbound and once per inbound chain; the queues | consume, backfill, set limit, queue | storage of the manager |
| **TrimmedAmount** (`libraries/TrimmedAmount.sol`, `ntt-messages/src/trimmed_amount.rs`) | none | trim, untrim, shift, scale, remove dust | every amount in messages, queues and limits |
| **Wormhole transceiver** (`evm/src/Transceiver/`) | Wormhole peers, consumed VAA hashes | `sendMessage` (manager only), `receiveMessage` (anyone), `setWormholePeer` | publishes to the Wormhole core bridge; calls the manager |
| **EVM ownership, upgrades** (`Implementation`, `PausableOwnable`, `PausableUpgradeable`) | owner, pauser, initialised and migrating flags | transfer ownership, upgrade, migrate | transceivers follow the manager's owner |
| **EVM governance** (`wormhole/Governance.sol`) | consumed governance VAAs | `performGovernance` | owns managers |
| **Solana manager** (`example-native-token-transfers`) | config, inbox and outbox items with a release status, rate limits, registered transceivers | transfer, redeem, release inbound/outbound, admin, ownership and token-authority handshakes | transceiver programs |
| **Sui manager** (`sui/packages/ntt`) | the same as shared objects | transfer by ticket, redeem, release, admin caps | `wormhole_transceiver`, `ntt_governance` |
| **SDK routes** (`sdk/route/src`) | the receipt of a transfer, which transceivers attested | quote, initiate, track, complete, finalize, resume | read the chains, guardians and executor; send the user's transactions |
| **Platform clients** (`evm/ts`, `solana/ts`, `sui/ts`, `xrpl/ts`) | none | build transactions, read accounts | the contracts |
| **CLI** (`cli/src`) | a deployment file | push, pull, add-chain, clone, transfer-ownership and others | all chains of a deployment with one key |

What is hard about it:

* A call is atomic on its chain and nothing is atomic across chains. Completing,
  cancelling, attesting, executing and administrating interleave freely.
* VAAs are public. Anyone presents them late, repeatedly, out of order or never.
* Approval is computed from stored attestations and the *current* registry, which the
  owner changes while messages are in flight.
* A transfer may wait a full rate-limit duration on each side and needs somebody to call
  for it each time.
* Amounts are converted between three numbers of decimals and cast to 64 bits at places
  where the sender can no longer take the transfer back.
* Clients see a chain through reads made at different moments, which fail, and drive
  transfers together with relayers they do not control.
* Configuring a deployment is many transactions on many chains, any of which can fail, and
  some of them (handing a chain over) cannot be repaired with the same key.

What makes each part correct: the registry's pieces of storage agree and slots are never
reused; no window lets more than a limit and its refill through; a transfer is sent or
refunded, once; a message is paid once and only with a quorum; locked tokens back what is
on the other chain and on its way; a conversion never changes value and a quote is kept;
every transfer settles while the owners are idle; a receipt never runs ahead of the chain;
a chain is handed over last.

## 2. The modules

```
TransceiverSet <== implements == TransceiverRegistry
      |
      | INSTANCE                  RateLimiter ---- RateLimitedFlow
      v                                |
  NttManager  <------ EXTENDS ---------+           TrimmedAmount ---- TransferAmount
      |  x2   \== implements ==> InboundTransfers <== implement == SolanaNtt --- SolanaRateLimit
      v                                ^                           SuiNtt ------/
  NttBridge                            | INSTANCE
      | \== implements ==> TransferLedger
      | x2                        TransferRoute              Deployments
  WormholeTransceiver
```

**TransceiverRegistry** has the registry's storage one variable per piece. A bitmap is the
set of its bits. `SetTransceiver`, `RemoveTransceiver` and `SetThreshold` are the external
calls of `ManagerBase` with the internal ones they make. The self-checks of
`_checkTransceiversInvariants` revert when they fail; the actions do not have them as
guards, and `RegistryInv` shows that they never fail.

**TransceiverSet** is what the rest of the manager needs of it: registered, enabled,
threshold. The refinement replaces six variables by three in the larger models.

**RateLimiter** has the arithmetic as operators on a `RateLimitParams` record, with the
same divisions, minima and saturation. All amounts are already in the limit's decimals.
**RateLimitedFlow** drives one record: consume, backfill, move the limit, let time pass.
`netFlow` is a history variable that counts what passed since an arbitrary moment
(`OpenWindow`), so a bound on it is a bound over every window.

**NttManager** is one EVM manager. `transfer` is two actions, within the limit and queued;
every other entry point is one action (`attestationReceived` includes the `executeMsg` it
calls). A call that reverts is a disabled action. A message is identified with its digest:
source chain, sequence number, payload, and not the source manager. `held` is the
contract's balance in locking mode and burned less minted in burning mode. `paid` and
`refunded` are history variables. `published` is what transceivers were handed to send.

**InboundTransfers** is what any manager promises of arriving messages: votes, a status
that never goes back, a quorum of the transceivers enabled now. NttManager, SolanaNtt and
SuiNtt are shown to implement it, which is why TransferRoute can use it as the destination.
`VotesOfDisabled` is the one thing in which they differ: Sui takes votes of disabled
transceivers, without counting them.

**WormholeTransceiver** is all Wormhole transceivers of one manager. **NttBridge** is a
locking manager A and a burning manager B (two INSTANCEs of NttManager), their
transceivers and the VAAs in between; a delivery is `receiveMessage` and the
`attestationReceived` it calls as one step. `ForeignVAAs` are VAAs of other emitters.
**TransferLedger** is what users are promised: a transfer takes tokens, is pending, and is
paid or refunded once.

**SolanaNtt** is the Solana program with its transceivers. An instruction is one step that
fails as a whole; `SdkTransfer` and `SdkRedeem` are the transactions of several
instructions the TypeScript client builds. An outbox item is released by every transceiver
on its own, an inbox item collects votes, is approved with a release time and is released
by anyone. `redeem` works while the program is paused, and a transceiver that voted may
vote again once the threshold is lower. A fixed, positive duration and limits in the
token's decimals make its limiter (**SolanaRateLimit**) another one than that of EVM.
`posts` and `payouts` are history variables.

**SuiNtt** is the manager of the Sui package, a shared object, so that a call is one step.
The ticket of a transfer and the validated message of a redemption cannot outlive their
transaction, so they are inputs of the calls, and a transceiver may validate a message
again, whenever it likes. `TransferPosting` is a transaction in which the transfer and the
messages of some transceivers are made; `SdkTransfer` and `SdkRedeem` are what the client
builds, and the latter pays in the same transaction or does nothing. Votes of disabled
transceivers are taken and not counted; `EnableTransceiver` takes ids that nobody has;
disabling the last transceiver makes the threshold zero. The limits are SolanaRateLimit's,
except that `GivenBack` (`refill`) keeps the old time. Amounts in messages are trimmed, the
limits and the balance count the token's own units, and `Unit` is the factor.

**TrimmedAmount** has the conversions with the conditions under which the casts revert.
**TransferAmount** follows one amount from a route's quote or the user's offer to payment
or refund, each side an EVM or a Solana manager: EVM refuses dust and keeps its limits in
trimmed decimals, Solana leaves dust with the sender and keeps its limits in the token's.

**Sums** is `SumOfAmounts`, the sum of the amounts of a set of records, in which the books
of the managers and of the bridge are stated.

**TransferRoute** is one client with the receipt of one transfer, in the four routes
(manual, executor, and the two multi-token ones) and towards EVM, Solana, Sui and XRPL.
`track` awaits every read, so `reading` is what it is about to read and each read is a
step: VAA, executor status, approval, inbound queue, execution, and the second look at the
queue the EVM getter makes. The getters are modelled by what they compute on each platform
(on Solana approval is the existence of the item, on EVM it counts under the registry of
now). Between two steps other relayers vote, anybody executes or completes, and the owner
changes transceivers and threshold. A receipt can be lost and resumed.

**Deployments** is `ntt push`, run again and again by the holder of one key over the
chains of one file. Each fetch and each transaction is a step: fetch all, look at owners,
register missing peers, fetch again, then per chain the version, the settings in any order
and the owner. A fetch can fail, a read of the inbound limits can fail quietly, the
registration of the Solana transceiver can fail and be remembered, and the process can end
anywhere. A Solana owner is proposed and claimed, or handed over in one step, which the
upgrade lock prevents after a proposal. The inbound limits of a chain are one setting.
Registering a manager sets the limit for that chain: of two chains this makes the setting
right, of more it may be the last limit that was missing or not. On Solana a limit exists
only once the manager is registered, so push stops at a limit for a chain that it was told
to leave alone and that was never registered.

Definitions named `Operator_Slip` are plausible coding slips of `Operator`. Nothing uses
them; replacing the operator by the slip breaks the property named for it in
`PROJECT.json`, which shows that the property can fail.

## 3. What is checked

| Run | Instance | Shows |
|---|---|---|
| `MCTransceiverRegistry` | 4 addresses, 3 slots | the registry's storage agrees in every order of calls, slots are stable, it implements TransceiverSet |
| `MCRateLimitedFlow` | duration that divides no limit, limits up to the largest amount, amounts 0, 1, 3 | no window exceeds limit plus refill; the limit can always be moved; moving it preserves what is used |
| `MCNttManager` | 2 transceivers, 1 other chain, 2 messages, 2 sequence numbers, amounts 1 and 2, limit 1, locking | outbound and inbound settlement, the books, no stranded message, every flow charged, implements InboundTransfers |
| `MCNttBridge` | 2 sides, 2 transceivers each, limits that queue on both sides, fair | backing, consumption and attestation together, implements TransferLedger, every transfer settles while the owners are idle |
| `MCNttBridgeOwner` | the same with owners active, Wormhole peers unset, a stranger's VAA | authenticity and the ledger survive administration |
| `MCSolanaNtt` | 2 transceivers, 2 contents under one message id, 1 outbox item, burning, fair | items and messages are settled once, posted by every transceiver once, charged, follow a quorum, implement InboundTransfers, and are posted and paid in the end |
| `MCSuiNtt` | 2 transceiver ids, 2 contents under one message id, 1 outbox item, amounts of 2 and 4 units, limit 2, locking | settlement and balance agree in spite of trimming, no stranded message, every flow charged or delayed, implements InboundTransfers with votes of disabled transceivers |
| `MCTransferAmount` | base 2, decimals around the trimmed decimals, amounts to four times the cast, EVM and Solana on either side, fees that are dust and that are not | value is preserved, limits are charged in their decimals, a quote is accepted and paid |
| `MCTransferRoute` | four routes, four platforms, 2 transceivers, fair | a receipt never runs ahead of the destination, what is paid is tracked to its end, on EVM the user needs nobody else |
| `MCDeployments` | an EVM and a Solana chain, the version and one more setting, every state of both, any failures, fair | a chain is handed over last, peers come first, pushing again converges |

Two runs are expected to end in a violation; each is a disagreement between the code and
a statement in the repository:

| Run | Statement | What the code does |
|---|---|---|
| `MCTransferAmountStuck` | docs/INVARIANTS.md:17 | the source takes amounts on which the destination's cast reverts |
| `MCSuiRefill` | README.md:43 | a Sui transfer gives the inbound limit back more than its amount: `refill` stores the capacity of now under the old time (rate_limit.move:113), and the time in between counts twice |

**Read, not run.** Other things met while translating:

* TransceiverRegistry.sol:34-35 states an equivalence that is false before the first
  registration (every unknown address has index 0); `RegistryInv` has the corrected form.
* `quoteDeliveryPrice` (IManagerBase.sol:112-115) parses the instructions into an array with
  as many entries as there are enabled transceivers, which is then indexed by slot
  (ManagerBase.sol:105-114). Once a transceiver in a lower slot was removed, the quote
  reverts. The EVM client says so and asks each transceiver itself (evm/ts/src/ntt.ts:458).
* With a rate limit duration of 0, which means no limiting (evm/README.md:44,
  RateLimiter.sol:167), a limit that was set cannot be set again: the current
  capacity is calculated by a division by the duration (RateLimiter.sol:93). So a peer cannot be set
  again either. The proofs about the limiter assume a positive duration.
* On Sui, disabling the last transceiver lowers the threshold to zero
  (state.move:290-294). From there enabling one again, or setting a threshold, fails
  `check_threshold_invariants` (state.move:352-364), and only registering another
  transceiver type recovers. Until then one vote of any registered transceiver, disabled or
  not, approves a message (ntt.move:217-221), which is why `NoItemStranded` of SuiNtt is
  stated for as long as one is enabled.
* On Sui, a transfer gives the inbound limit back the trimmed amount, while redemptions are
  charged in the token's own units (ntt.move:163, 225-241): for a token of more than 8
  decimals next to nothing comes back. `FlowsAreCharged` is stated with the trimmed amount.
* On Sui, an id that no transceiver has can be enabled (state.move:279) and then counts for
  the threshold.
* The client's `redeem` on Sui releases in the same transaction (sui/ts/src/ntt.ts:907-947),
  so it can neither deliver a vote short of the quorum nor queue a message beyond the limit;
  other callers of the package can.
* docs/INVARIANTS.md:42 (INV-004) asks that messages are executed in order; no code looks
  at a sequence number on execution, and queued messages overtake each other.
* `completeInboundQueuedTransfer` of the Solana client passes `revertWhenNotReady: false`
  (solana/ts/sdk/ntt.ts:1515), so `finalize` says DestinationFinalized for a transfer that
  still waits; `ReceiptIsTrue` excepts it. sdk/definitions/src/ntt.ts:369 describes the call
  as completing the transfer.
* No route calls `executeMsg`: a message that got its quorum by a lower threshold, after
  the Wormhole transceiver voted, is not executed by `complete`, which refuses.
* For XRPL the executor route calls every status that is not a failure final
  (executor.ts:856).
* `push` over several chains aborts for good once an EVM chain among them belongs to
  another wallet, until the user leaves that chain out (push.ts:149-159).
* `pull` writes a file without those inbound limits whose read failed (query.ts:299-306).
* solana/README.md:39 says that release_outbound verifies that the transceiver is one of the
  senders specified for the message; an item specifies none, and the instruction asks
  whether the transceiver is enabled now and has not released the item
  (release_outbound.rs:21-30).

**Bounds.** Four addresses for three slots exhaust the slots and leave one to reject.
Two transceivers distinguish every threshold from none and all. Two sequence numbers and
two messages are the least with an order between them. Amounts 1 and 2 at limit 1 or 2 fit
alone and not together, so transfers queue. The clock runs two durations past the start of
a transfer (one for each queue). Base 2 with few decimals makes scaling cross the cast in
both directions as base 10 with 18 decimals does. Two Solana messages under one id are
what disagreeing transceivers would present. On Sui two ids are enough for one to be
enabled that nobody has, a `Unit` of 2 tells trimmed amounts from the token's own, one
message takes the whole limit, so that the other waits and a disabled transceiver's vote
decides, and a transfer of 4 units is beyond the limit and waits in the outbox.
One EVM and one Solana chain have both ways of
handing over and both kinds of registration; the proofs about push hold for any number.
`MaxSequence`, `MaxTime`, `MaxItems`,
`LastTransferTime` and `MaxOffered` are the only bounds in guards or initial states. The
configurations of the bridge and the amount allow deadlock, because a bounded system comes
to rest.

**Fairness** (`FairSpec`). The code acts only when called, so liveness needs callers.

* *Bridge.* Time passes; somebody calls the `complete...` functions when they can succeed,
  which anyone may do (NttManager.sol:305, 327); somebody presents each VAA to the
  transceiver it is for, which anyone may do (WormholeTransceiver.sol:59). All are weak
  fairness, and presenting is fair for each transceiver and not for each message. Nobody is
  assumed to cancel, to transfer or to call `executeMsg`. The owners are idle: an owner may
  pause for ever or raise the threshold, and no code prevents either. `NothingUndelivered`
  lets the bounded clock wait for what has still to be queued, so that the bound does not
  cut a waiting time off.
* *Solana.* Somebody releases outbox and inbox items that can be released and redeems what
  was validated while that changes anything, all open to anyone. The owner owes nothing:
  the properties assume what they need of the configuration in the end.
* *Sui.* `FairSpec` (time passes, somebody posts and releases) is what `MCSuiRefill` is
  checked under; `MCSuiNtt` has no liveness property and needs no fairness.
* *Routes.* The user keeps tracking, and completes and finalizes when it is offered; reads
  may throw any number of times but not for ever (strong fairness of each read). Guardians
  sign, queues run out. Relayers, the executor and the owner owe nothing.
* *Push.* The command goes on while it can and the user starts it again. `PushConverges`
  assumes that failures end, that the user leaves out what was handed over, waits for
  proposals and does not mix them with the one-step flag.

## 4. What is proved

| Theorem | States |
|---|---|
| `RegistryInvariant` (RegistryInv) | the registry's arrays, slots, counters and bitmap agree |
| `SlotsStable` (SlotsNeverReassigned) | no step forgets a transceiver or moves it to another slot |
| `RegistryRefinement` (ImplementsTransceiverSet) | the storage implements the set view the manager uses |
| `WindowBound` (NetFlowBounded) | no window lets more through than the limit and what was refilled |
| `FlowTypes` (FlowTypeOK) | limiter: the capacity never leaves the range from zero to the limit |
| `OwnerCanAlwaysMoveLimit` (LimitCanAlwaysMove) | no history of traffic makes a change of the limit revert |
| `LimitMovePreservesUse` (UsedCapacityPreserved) | a change of the limit keeps the used part of it |
| `AmountTypes` (AmountTypeOK) | amounts: what is trimmed and charged fits its 64 bits |
| `NothingIsLostOnTheWay` (ValuePreserved) | amounts: what is paid is worth what was taken, a refund is what was taken |
| `QuotesAreKept` (QuoteKept) | amounts: what a route quoted is not refused for dust, and is paid |
| `ChargesAreExact` (ChargesInLimitDecimals) | amounts: both limits are charged with the value that moves, in their own decimals |
| `ManagerTypes` (TypeOK) | EVM manager: no balance and no capacity goes below zero |
| `OutboundSettlement` (OutboundSettledOnce) | EVM manager: every sequence number is queued, sent or refunded, one of them |
| `InboundSettlement` (InboundSettledOnce) | EVM manager: every executed message is paid or queued, once |
| `AttestedByAllIsApproved` (NoMessageStranded) | EVM manager: what all enabled transceivers attested to can be executed |
| `BooksBalance` (Conservation) | EVM manager: the balance is what came in less what went out |
| `QuorumAtExecution` (ExecutedByQuorum) | EVM manager: an executed message has a quorum enabled at that moment |
| `FlowsCharge` (FlowsAreCharged) | EVM manager: whatever passes is charged, or has waited |
| `ArrivalsRefinement` (ImplementsInboundTransfers) | EVM manager: it implements InboundTransfers |
| `AuthenticExecution` (Authentic) | bridge: what is executed was published by the other side's transceivers |
| `ConsumedWithAttestation` (ConsumedIffAttested) | bridge: a VAA is consumed exactly where its message is attested |
| `AlwaysBacked` (Backed) | bridge: what is locked on one side backs the supply of the other and what is on its way |
| `BridgeIsALedger` (ImplementsLedger) | bridge: it implements TransferLedger |
| `UnlocksAreCovered` | bridge: the tokens of a transfer that may be unlocked or refunded are there |
| `ProgramTypes` (TypeOK) | Solana: no balance, time or capacity goes below zero, a capacity fits a u64 |
| `InboxSettlement` (InboxSettledOnce) | Solana: a message is paid once, by a released item |
| `OutboxSettlement` (OutboxPostedOnce) | Solana: a transceiver posts an item once, not before its time |
| `BooksBalance` (Conservation) | Solana: the custody is what the outbox took in less what released items paid |
| `VotedByAllIsApproved` (NoItemStranded) | Solana: what all enabled transceivers voted for can be approved |
| `ApprovalNeedsQuorum` (ApprovedByQuorum) | Solana: an approved item has a quorum enabled at that moment |
| `LimitsHold` (FlowsAreCharged) | Solana: whatever passes is charged, or has waited |
| `PauseHolds` (PausedMovesNothing) | Solana: while paused, no token moves and no message leaves |
| `InboxRefinement` (ImplementsInboundTransfers) | Solana: the inbox implements InboundTransfers |
| `ReceiptsAreTrue` (ReceiptIsTrue) | routes: a receipt claims nothing of the destination that is not so |
| `RouteTypes` (TypeOK) | routes: types, and the loop over the transceivers ends |
| `PushTypes` (TypeOK) | push: types |
| `OwnerGoesLast` (HandedOverConfigured) | push: the owner changes only where everything else is done |
| `PeersGoFirst` (PeeredBeforePush) | push: nothing but peers changes before all that take part know each other |
| `TypeCorrect` (TypeOK) | Sui: no capacity, threshold or count leaves its range |
| `Settlement` (SettledOnce) | Sui: a message is paid once, by a released item; a transceiver posts an item once, not before its time |
| `AccountsBalance` (AccountsAgree) | Sui: settlement, and a balance that agrees with it in the token's own units |
| `QuorumsAreReal` (NoItemStranded) | Sui: while one is enabled, what all enabled transceivers voted for has its quorum, and no quorum is empty |
| `LimitsHold` (FlowsAreCharged) | Sui: whatever passes is charged, or has waited |
| `InboxRefinement` (ImplementsInboundTransfers) | Sui: the inbox implements InboundTransfers |

`FlowTypeOK` and the `TypeOK` of NttManager, SolanaNtt, SuiNtt and TransferRoute are proved and
not among the runs, nor are `ExecutedByQuorum`, `ApprovedByQuorum` and
`PausedMovesNothing`, which are proved as well.

*Registry.* From `RegistryAssumption` (at least one slot, a bitmap at least as wide as the
slots). The parts of `RegistryInv` are inductive together: the bitmap's meaning rests on
distinct slots, the counter on an enabled list without repetition. The refinement uses them
to turn counters into cardinalities.

*Rate limiter.* From a positive duration (see *Read, not run* for zero). The inductive
invariant says that the capacity is at most the limit and that, with `c` the capacity and
`t` the time of the last change, `netFlow + c` is at most the limit plus what was refilled
from the start of the window to `t`. The step that needs care is that the sum of two
rounded-down refills is at most the refill of the sum.

*Manager.* From `ManagerAssumption` and `RateLimiterAssumption`. The set of addresses may be
infinite: the registered ones are proved finite. Capacities between zero and the limit keep
balances and capacities non-negative. Settlement needs that queued,
sent and refunded sequence numbers lie below the next one. `NoMessageStranded` needs only
that the threshold is at most the number of enabled transceivers and is positive as soon
as one is. `Conservation` adds that the queue, what was published and what was paid are
finite (`BooksInv`); settlement then makes each step add or take one transfer from its sums.

*Sums.* The balances are compared with sums over sets that grow with every transfer
(**Sums**: `SumOfAmounts`, `SumFunction` of the community modules). SumTheorems proves that
such a sum changes by the amount of the element that is added, removed or changed. The
prover has no induction over a predicate, but the library's theorem that strict inclusion of
the subsets of a finite set is well-founded is about a set: a smallest set for which a sum
is wrong cannot exist (`MinimalSet`).

*Amounts.* From `TrimmedAmountAssumption` and `TransferAmountAssumption`, for any base, any
trimmed decimals and any decimals of the tokens. The powers of the base are a recursive
function (`Power`), whose equation and whose law `Power[m + n] = Power[m] * Power[n]` are
proved by a least counterexample (`LeastNatural`, `PowerSum`). The inductive invariant
`AmountIInv` says that whatever the transfer has been converted to so far is the same whole
number of units of the message, and `ScaleWhole` that a whole number of them converts to any
finer decimals and back without loss. A quote keeps this, although the fee is trimmed apart
from the amount (`QuoteAmountIInv`); taking establishes it, because EVM refuses dust and
Solana leaves it with the sender.

*Bridge.* From `BridgeAssumption`: there are finitely many transceivers, no foreign emitter
is a transceiver's peer, and, for the sums, finitely many accounts hold tokens and amounts
are natural numbers, as a `uint256` and the accounts of a chain are. The argument is made
for each side. Its enabled set and threshold stay in range, its Wormhole peers are the right
one or none, what is attested and executed was published by the other side, and
attestations and consumed VAAs correspond (`InvA`, `InvB`, joined in `BridgeStep`). The other
side enters only through what it published, which only grows.

For the tokens, `BooksA` and `BooksB` say that a transfer waits in the outbound queue or was
sent, not both, under one sequence number, and that a message is executed exactly if it is
paid or waits in the inbound queue, not both. From them every step of the bridge, a call of
an owner included, is one entry in these books or none (`BridgeEntry`): a transfer is taken,
leaves the queue or is refunded, a message arrives or is paid. Seen by the users
(`BridgeMoves`) an entry starts a transfer, pays one, refunds one, or moves nothing, and that
is what both results need: `BackedStep` follows the sums through these cases, and the ledger
takes the corresponding step (`LedgerStepA`, `LedgerStepB`).
`Backed` holds with equality, so the sum over what is not settled covers each part of it,
which is `UnlocksAreCovered`.

*Solana.* From `SolanaAssumption` and `SolanaRateLimitAssumption` (a positive duration).
`RateInv` says that a capacity fits a u64 and no record is ahead of the clock;
`RegistryInv` that a threshold is within what is enabled; `OutInv` and `InInv` tie the
history variables to the items. `ApprovedByQuorum` and the refinement need
`VotesValidated`: every vote in an item is of a transceiver that validated this very
message, and not another one under its id. The balance needs that finitely many messages are released (`BooksInv`);
with `OutInv` and `InInv` every instruction, alone or in the client's transactions, adds at
most one item to the sum of what was taken and at most one to the sum of what was paid.

*Routes.* From `RouteAssumption`, for any set of routes, platforms and transceivers. The
destination only grows (`DestGrows`): votes stay, executed stays executed, paid stays paid,
whatever the owner does to the quorum; and whatever was executed has a vote, because the
threshold is never zero. So a claim that was read once stays true, and each read makes only
claims about what it sees. The second look into the queue of the EVM getter needs one more
fact (`ReceiptInv`): who takes it has seen the message executed.

*Sui.* From `SuiAssumption` and `SolanaRateLimitAssumption`. `RateInv` bounds the limits,
`SettingsInv` says that the check of the threshold holds after every call of the admin
(disabling can therefore never fail, and a threshold of zero means that nothing is enabled),
`OutInv` and `InInv` tie the history variables to the items. `GivenBackIsThere` says that
the refill that keeps the old time can only give back too much: so `FlowsAreCharged`, which
bounds it from below, is a theorem, while `RefillsByTheAmount`, from above, is refuted.
The balance needs that finitely many messages are released (`BooksInv`), and follows the
same way as on Solana, in the token's own units.

*Push.* From `DeploymentsAssumption`, for any number of chains. `HandedOverConfigured`
needs that what was read as right still is (`SettingsInv`: settings only become right), so
that the transactions left for a chain are all it still lacks, and that the owner is sent
when nothing else is left. `PeeredBeforePush` needs that during the registrations every gap
is in a chain still to come, among the transactions left, or remembered as an error
(`PeersInv`), and that leaving out chains only takes peers away.

Only model-checked: all liveness (`EveryTransferSettles`, `EveryItemPosted`,
`EveryMessagePaid`, `PaidIsTracked`, `RouteDelivers`, `PushConverges`), which rests on
fairness and is out of the prover's reach. Every invariant and every refinement the passing
runs check is a theorem as well. The theorems say nothing about values beyond those of their
assumptions: a positive duration of the limits, a `uint256` that does not overflow when an
amount is scaled up.

## 5. What is not modelled

* *EVM:* delivery prices and refunds of native currency, fee-on-transfer tokens,
  forked-chain checks, byte encodings, initialisation, ownership and upgrade, governance,
  the manager variants without rate limiting and with WETH. In NttManager the token has
  the same decimals on every chain (TransferAmount treats the conversion), and no second
  manager of the same chain's peer carries traffic of its own.
* *Solana:* ownership and token-authority handshakes (the claim of an owner is in
  Deployments), account rent, lookup tables, the governance and quoter programs.
* *Sui:* setup and the hand-over of the treasury cap, the version gate and upgrades, the
  decimals of a peer (one `Unit` serves every chain), the wire format, coins and dust (the
  change returned to the sender), the Wormhole transceiver's own object and the governance
  package. Admin capabilities are taken to be held by somebody who may make every call.
* *Guardians* are external: a published message becomes a VAA that stays available.
* *Routes:* timeouts of `track`, gas limits and price quotes, token resolution. The
  multi-token manager's contracts are not in this repository; the routes treat it as
  InboundTransfers.
* *CLI:* every command except `push`; owners that are contracts; the lookup table of
  Solana; prompts; errors in the file.
* *XRPL:* a client for a manager that is not in this repository.

`PROJECT.json` gives the reason of each.

## 6. Plan

Done: the EVM core, the Solana and the Sui manager, amounts on EVM and Solana with the
routes' quotes, the routes, and `ntt push`. What is left, in this order:

1. `NttNetwork`: three managers, two of them at the same address, with peers replaced while
   messages are in flight: what `toChain` and the peer check each prevent.
2. The handshakes: Solana token authority, EVM ownership and migration, governance on the
   three platforms (each governance message acts once).
3. Variants of the manager (no rate limiting, WETH) and the instruction parser.
4. Proofs: what the network and the handshakes add.
