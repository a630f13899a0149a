----------------------------- MODULE TrimmedAmount -----------------------------
(***************************************************************************)
(* Token amounts of different decimals, as TrimmedAmount.sol converts      *)
(* them: an amount in a message is a uint64 with the decimals it is in.    *)
(* A conversion that does not fit a uint64 reverts, so the operators come  *)
(* with the condition under which they return.                             *)
(***************************************************************************)
EXTENDS Integers

CONSTANTS
    Base,             \* 10 in the library
    TrimmedDecimals,  \* TRIMMED_DECIMALS: 8 in the library
    MaxUint64

ASSUME TrimmedAmountAssumption ==
    /\ Base \in Nat \ {0}
    /\ TrimmedDecimals \in Nat
    /\ MaxUint64 \in Nat

TrimmedAmounts == [amount : 0..MaxUint64, decimals : Nat]

MinDecimals(a, b) == IF a < b THEN a ELSE b

\* Plausible slips in the code, each refuted by a property of TransferAmount.
TrimDecimals_IgnoreDestination(fromDecimals, toDecimals) ==
    MinDecimals(TrimmedDecimals, fromDecimals)
LimitDecimals_Own(decimals) == decimals
Fits_Unchecked(amount) == TRUE

(* 10 ** n *)
Power[n \in Nat] == IF n = 0 THEN 1 ELSE Base * Power[n - 1]

(* scale *)
Scale(amount, fromDecimals, toDecimals) ==
    IF fromDecimals > toDecimals
    THEN amount \div Power[fromDecimals - toDecimals]
    ELSE amount * Power[toDecimals - fromDecimals]

(* The decimals trim settles on: no more than either side or the message has. *)
TrimDecimals(fromDecimals, toDecimals) ==
    MinDecimals(MinDecimals(TrimmedDecimals, fromDecimals), toDecimals)

(* SafeCast.toUint64 *)
Fits(amount) == amount <= MaxUint64

TrimFits(amount, fromDecimals, toDecimals) ==
    Fits(Scale(amount, fromDecimals, TrimDecimals(fromDecimals, toDecimals)))

Trim(amount, fromDecimals, toDecimals) ==
    [amount   |-> Scale(amount, fromDecimals, TrimDecimals(fromDecimals, toDecimals)),
     decimals |-> TrimDecimals(fromDecimals, toDecimals)]

Untrim(trimmed, toDecimals) == Scale(trimmed.amount, trimmed.decimals, toDecimals)

(* The decimals of a manager's rate limits, which shift and max convert to. *)
LimitDecimals(decimals) == MinDecimals(TrimmedDecimals, decimals)

ShiftFits(trimmed, decimals) == Fits(Untrim(trimmed, LimitDecimals(decimals)))

Shift(trimmed, decimals) ==
    [amount |-> Untrim(trimmed, LimitDecimals(decimals)), decimals |-> LimitDecimals(decimals)]

================================================================================
