---------------------------- MODULE SolanaRateLimit ----------------------------
(***************************************************************************)
(* The rate limiter of the Solana program (queue/rate_limit.rs), which the *)
(* Sui package shares but for Refilled.  It is not the EVM one: amounts    *)
(* are in the token's own decimals, the duration is fixed and positive, a  *)
(* new limiter starts full at time 0, and moving the limit saturates where *)
(* the EVM one reverts.                                                    *)
(***************************************************************************)
EXTENDS Integers

CONSTANTS
    Duration,   \* RATE_LIMIT_DURATION
    MaxU64      \* u64::MAX

ASSUME SolanaRateLimitAssumption ==
    /\ Duration \in Nat \ {0}
    /\ MaxU64 \in Nat

RateLimitState == [limit : 0..MaxU64, capacityAtLastTx : 0..MaxU64, lastTxTimestamp : Nat]

Lesser(a, b) == IF a < b THEN a ELSE b

NewRateLimit(limit) ==
    [limit |-> limit, capacityAtLastTx |-> limit, lastTxTimestamp |-> 0]

(* capacity_at; the u128 intermediate never overflows here *)
CapacityAt(rl, now) ==
    Lesser(rl.capacityAtLastTx + ((now - rl.lastTxTimestamp) * rl.limit) \div Duration,
           rl.limit)

(* consume_or_delay: whether it answers Consumed, and the state it then leaves *)
Fits(rl, amount, now) == CapacityAt(rl, now) >= amount

Consumed(rl, amount, now) ==
    [rl EXCEPT !.capacityAtLastTx = CapacityAt(rl, now) - amount, !.lastTxTimestamp = now]

Refilled(rl, amount, now) ==
    [rl EXCEPT !.capacityAtLastTx =
                   Lesser(Lesser(CapacityAt(rl, now) + amount, MaxU64), rl.limit),
               !.lastTxTimestamp = now]

(* set_limit: the used part of the capacity stays used *)
WithLimit(rl, limit, now) ==
    LET capacity == CapacityAt(rl, now)
        moved == IF rl.limit > limit
                 THEN IF capacity > rl.limit - limit THEN capacity - (rl.limit - limit) ELSE 0
                 ELSE Lesser(capacity + (limit - rl.limit), MaxU64)
    IN  [limit |-> limit, capacityAtLastTx |-> Lesser(moved, limit), lastTxTimestamp |-> now]

================================================================================
