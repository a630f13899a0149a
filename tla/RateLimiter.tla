------------------------------ MODULE RateLimiter ------------------------------
(***************************************************************************)
(* The arithmetic of RateLimiter.sol: a limit whose used capacity grows    *)
(* back over RateLimitDuration, is consumed by a flow in one direction and *)
(* given back by the flow in the other.  Amounts are trimmed amounts, all  *)
(* at the token's own trimmed decimals, as setPeer, setOutboundLimit and   *)
(* the transfer paths convert them before they come here.                  *)
(***************************************************************************)
EXTENDS Integers

CONSTANTS
    RateLimitDuration,  \* seconds a spent limit takes to come back; 0: skipped
    MaxAmount           \* type(uint64).max

ASSUME RateLimiterAssumption ==
    /\ RateLimitDuration \in Nat
    /\ MaxAmount \in Nat

(* RateLimitParams.  isSet is FALSE for the null limit of untouched storage. *)
RateLimitParams == [isSet : BOOLEAN, limit : Nat, currentCapacity : Nat,
                    lastTxTimestamp : Nat]

NullParams == [isSet |-> FALSE, limit |-> 0, currentCapacity |-> 0, lastTxTimestamp |-> 0]

Min2(a, b) == IF a < b THEN a ELSE b

\* Plausible slips in the code, each refuted by a property of RateLimitedFlow.
CurrentCapacity_NoMin(p, now) ==
    p.currentCapacity + (p.limit * (now - p.lastTxTimestamp)) \div RateLimitDuration
NewCapacity_KeepCapacity(new, old, capacity) == capacity
Consume_KeepTimestamp(p, amount, now) ==
    [p EXCEPT !.currentCapacity = @ - amount]

(* _getCurrentCapacity *)
CurrentCapacity(p, now) ==
    IF RateLimitDuration = 0
    THEN MaxAmount
    ELSE Min2(p.currentCapacity
                + (p.limit * (now - p.lastTxTimestamp)) \div RateLimitDuration,
              p.limit)

(* _calculateNewCurrentCapacity, before its closing check *)
NewCapacity(new, old, capacity) ==
    IF old > new
    THEN IF capacity > old - new THEN capacity - (old - new) ELSE 0
    ELSE capacity + (new - old)

(* What _setLimit writes to currentCapacity. *)
CapacityAfterSet(p, limit, now) ==
    IF p.isSet THEN NewCapacity(limit, p.limit, CurrentCapacity(p, now)) ELSE limit

(* _setLimit reverts unless this holds: CapacityCannotExceedLimit, or the checked
   uint64 addition. *)
SetLimitAllowed(p, limit, now) ==
    /\ CapacityAfterSet(p, limit, now) <= limit
    /\ CapacityAfterSet(p, limit, now) <= MaxAmount

SetLimit(p, limit, now) ==
    [isSet |-> TRUE, limit |-> limit, currentCapacity |-> CapacityAfterSet(p, limit, now),
     lastTxTimestamp |-> now]

(* _consumeOutboundAmount, _consumeInboundAmount *)
Consume(p, amount, now) ==
    IF RateLimitDuration = 0 THEN p
    ELSE [p EXCEPT !.currentCapacity = CurrentCapacity(p, now) - amount,
                   !.lastTxTimestamp = now]

(* _backfillOutboundAmount, _backfillInboundAmount: the saturating addition, then
   the minimum with the limit *)
Backfill(p, amount, now) ==
    IF RateLimitDuration = 0 THEN p
    ELSE [p EXCEPT !.currentCapacity =
                       Min2(Min2(CurrentCapacity(p, now) + amount, MaxAmount), p.limit),
                   !.lastTxTimestamp = now]

(* _isOutboundAmountRateLimited, _isInboundAmountRateLimited *)
IsRateLimited(p, amount, now) ==
    RateLimitDuration # 0 /\ CurrentCapacity(p, now) < amount

================================================================================
