----------------------------- MODULE TransferAmount -----------------------------
(***************************************************************************)
(* The amount of one transfer on its way: quoted by a route of the SDK or  *)
(* offered by the user, at the decimals of the source token, trimmed into  *)
(* the message, charged to the limits of both managers, and paid at the    *)
(* decimals of the destination token or refunded at those of the source.   *)
(* Either side is an EVM or a Solana manager, which differ in what they do *)
(* with dust, in the width of amounts and in the decimals of their limits. *)
(* setPeer has recorded the decimals the destination token really has.     *)
(***************************************************************************)
EXTENDS TrimmedAmount

CONSTANTS
    Platforms,     \* the platforms the two sides can be on
    MaxDecimals,   \* bound of a token's decimals
    MaxOffered,    \* bound of the offered amount
    Fees           \* the fees a route can be configured to take

ASSUME TransferAmountAssumption ==
    /\ Platforms \subseteq {"Evm", "Solana"}
    /\ MaxDecimals \in Nat
    /\ MaxOffered \in Nat
    /\ Fees \subseteq Nat

VARIABLES
    source,        \* platforms of the two managers
    target,
    fromDecimals,  \* of the source token
    toDecimals,    \* of the destination token
    amount,        \* offered, or taken, in units of the source token
    quoted,        \* what a route said the recipient gets, or NoQuote
    stage,         \* "offered", "taken", "sent", "paid" or "refunded"
    trimmed,       \* the TrimmedAmount of the queue entry and the message
    sourceCharge,  \* what the source charges its outbound limit
    targetCharge,  \* what the destination charges its inbound limit
    credited       \* units credited to the recipient, or back to the sender

sideVars == <<source, target, fromDecimals, toDecimals>>
amountVars == <<sideVars, amount, quoted, stage, trimmed, sourceCharge, targetCharge, credited>>

Decimals == 1..MaxDecimals

Zero == [amount |-> 0, decimals |-> 0]

NoQuote == -1

AmountTypeOK ==
    /\ source \in Platforms
    /\ target \in Platforms
    /\ quoted \in Nat \cup {NoQuote}
    /\ fromDecimals \in Decimals
    /\ toDecimals \in Decimals
    /\ amount \in Nat
    /\ stage \in {"offered", "taken", "sent", "paid", "refunded"}
    /\ trimmed \in TrimmedAmounts
    /\ sourceCharge \in TrimmedAmounts
    /\ targetCharge \in TrimmedAmounts
    /\ credited \in Nat

(* setPeer refuses decimals of zero.  Solana's amounts are uint64 from the start. *)
AmountInit ==
    /\ source \in Platforms
    /\ target \in Platforms
    /\ fromDecimals \in Decimals
    /\ toDecimals \in Decimals
    /\ amount \in 1..MaxOffered
    /\ source = "Solana" => Fits(amount)
    /\ quoted = NoQuote
    /\ stage = "offered"
    /\ trimmed = Zero
    /\ sourceCharge = Zero
    /\ targetCharge = Zero
    /\ credited = 0

--------------------------------------------------------------------------------
\* The routes of the SDK.

RouteTrim_IgnoreDestination(x) ==
    LET d == MinDecimals(fromDecimals, TrimmedDecimals)
    IN  Scale(Scale(x, fromDecimals, d), d, fromDecimals)

(* NttRoute.trimAmount: without the digits a message cannot carry, in the same units. *)
RouteTrim(x) ==
    LET d == TrimDecimals(fromDecimals, toDecimals)
    IN  Scale(Scale(x, fromDecimals, d), d, fromDecimals)

(* validate and quote of a route that takes a fee, or of one that takes none and lets
   the manager refuse what is nothing. *)
Quote(fee) ==
    LET remaining == RouteTrim(amount) - RouteTrim(fee)
    IN  /\ stage = "offered"
        /\ quoted = NoQuote
        /\ fee # 0 => remaining > 0
        /\ amount' = remaining
        /\ quoted' = Scale(remaining, fromDecimals, toDecimals)
        /\ UNCHANGED <<sideVars, stage, trimmed, sourceCharge, targetCharge, credited>>

--------------------------------------------------------------------------------
\* The managers.

Sent == Trim(amount, fromDecimals, toDecimals)

(* _trimTransferAmount, which refuses dust, and the shift to the decimals of the
   outbound limit.  Either cast reverts the transfer. *)
Take ==
    /\ stage = "offered" /\ source = "Evm"
    /\ amount > 0
    /\ TrimFits(amount, fromDecimals, toDecimals)
    /\ Untrim(Sent, fromDecimals) = amount
    /\ ShiftFits(Sent, fromDecimals)
    /\ trimmed' = Sent
    /\ sourceCharge' = Shift(Sent, fromDecimals)
    /\ stage' = "taken"
    /\ UNCHANGED <<sideVars, amount, quoted, targetCharge, credited>>

(* remove_dust: what the message cannot carry is left with the sender. *)
TakeSolana ==
    /\ stage = "offered" /\ source = "Solana"
    /\ amount' = Untrim(Sent, fromDecimals)
    /\ trimmed' = Sent
    /\ sourceCharge' = [amount |-> amount', decimals |-> fromDecimals]
    /\ stage' = "taken"
    /\ UNCHANGED <<sideVars, quoted, targetCharge, credited>>

Send ==
    /\ stage = "taken"
    /\ stage' = "sent"
    /\ UNCHANGED <<sideVars, amount, quoted, trimmed, sourceCharge, targetCharge, credited>>

(* cancelOutboundQueuedTransfer; Solana has no such call. *)
Cancel ==
    /\ stage = "taken" /\ source = "Evm"
    /\ credited' = Untrim(trimmed, fromDecimals)
    /\ stage' = "refunded"
    /\ UNCHANGED <<sideVars, amount, quoted, trimmed, sourceCharge, targetCharge>>

(* _handleTransfer converts the amount of the message to the decimals of its limits
   and pays, now or from the queue, what that is in units of its token. *)
Receivable ==
    TrimFits(Untrim(trimmed, toDecimals), toDecimals, toDecimals)

Receive ==
    LET native == Trim(Untrim(trimmed, toDecimals), toDecimals, toDecimals)
    IN  /\ stage = "sent" /\ target = "Evm"
        /\ Receivable
        /\ targetCharge' = native
        /\ credited' = Untrim(native, toDecimals)
        /\ stage' = "paid"
        /\ UNCHANGED <<sideVars, amount, quoted, trimmed, sourceCharge>>

(* redeem keeps its limits in the decimals of the token, and refuses what overflows. *)
ReceiveSolana ==
    LET units == Untrim(trimmed, toDecimals)
    IN  /\ stage = "sent" /\ target = "Solana"
        /\ Fits(units)
        /\ targetCharge' = [amount |-> units, decimals |-> toDecimals]
        /\ credited' = units
        /\ stage' = "paid"
        /\ UNCHANGED <<sideVars, amount, quoted, trimmed, sourceCharge>>

AmountNext ==
    \/ \E fee \in Fees : Quote(fee)
    \/ Take \/ TakeSolana \/ Send \/ Cancel \/ Receive \/ ReceiveSolana

AmountSpec == AmountInit /\ [][AmountNext]_amountVars

--------------------------------------------------------------------------------

(* x units at xDecimals are worth y units at yDecimals. *)
SameValue(x, xDecimals, y, yDecimals) == x * Power[yDecimals] = y * Power[xDecimals]

(* What is paid is worth what was taken, to the last unit, for any decimals on the
   two sides, on either platform, and however the amount was trimmed and scaled on its
   way (INV-018; NttManager.sol:669-689, 238-241, 629-647; redeem.rs:121-125).  A refund gives back the same number
   of units. *)
ValuePreserved ==
    /\ stage = "paid" => SameValue(amount, fromDecimals, credited, toDecimals)
    /\ stage = "refunded" => credited = amount

(* A transfer a route quoted is not refused for dust by a manager that takes none, and
   where it is paid the recipient gets what the user was told, although route, source
   and destination each convert the amount on their own and the fee is trimmed apart
   from it.  (types.ts:292 "remove dust to avoid TransferAmountHasDust revert reason",
   executor.ts:371 "Trim the fee to destination decimals to avoid dust on the remaining
   amount", executor.ts:290-293) *)
QuoteKept ==
    quoted # NoQuote =>
        /\ stage = "offered" => Untrim(Sent, fromDecimals) = amount
        /\ stage = "paid" => credited = quoted

LimitDecimalsOf(platform, decimals) ==
    IF platform = "Evm" THEN MinDecimals(TrimmedDecimals, decimals) ELSE decimals

(* Both managers charge their limit with the value that moves, in the decimals the
   limit is kept in, so that the limiter never compares amounts of different
   decimals and never reverts with NumberOfDecimalsNotEqual (RateLimiter.sol:171,
   TrimmedAmount.sol:57-66). *)
ChargesInLimitDecimals ==
    /\ stage # "offered" =>
         /\ sourceCharge.decimals = LimitDecimalsOf(source, fromDecimals)
         /\ SameValue(amount, fromDecimals, sourceCharge.amount, sourceCharge.decimals)
    /\ stage = "paid" =>
         /\ targetCharge.decimals = LimitDecimalsOf(target, toDecimals)
         /\ SameValue(amount, fromDecimals, targetCharge.amount, targetCharge.decimals)

(* docs/INVARIANTS.md:16-17: when tokens are burned on the source chain, an
   equivalent amount must be minted on the destination chain.  So an amount that
   was sent is one the destination can take. *)
SentIsReceivable == stage = "sent" => Receivable

================================================================================
