---------------------------- MODULE RateLimitedFlow ----------------------------
(***************************************************************************)
(* One direction of a manager's flow under its limit: amounts that fit are *)
(* consumed, amounts of the opposite direction are given back, the owner   *)
(* moves the limit, time passes.  netFlow measures what passed since an    *)
(* arbitrary moment, so that a bound on it is a bound over every window.   *)
(***************************************************************************)
EXTENDS RateLimiter

CONSTANTS
    Amounts,   \* amounts transfers use
    Limits,    \* limits the owner sets
    MaxTime    \* bound of the clock

ASSUME FlowAssumption ==
    /\ Amounts \subseteq Nat
    /\ Limits \subseteq 0..MaxAmount
    /\ MaxTime \in Nat

VARIABLES
    params,       \* the RateLimitParams of this direction
    now,          \* block.timestamp
    windowStart,  \* when the measured window opened
    netFlow       \* consumed minus given back since then

flowVars == <<params, now, windowStart, netFlow>>

FlowTypeOK ==
    /\ params \in RateLimitParams
    /\ now \in Nat
    /\ windowStart \in Nat
    /\ netFlow \in Int

(* The limit is first set when the manager is initialised (outbound) or the peer
   is set (inbound). *)
FlowInit ==
    /\ now = 0
    /\ \E limit \in Limits : params = SetLimit(NullParams, limit, now)
    /\ windowStart = 0
    /\ netFlow = 0

Pass(amount) ==
    /\ ~IsRateLimited(params, amount, now)
    /\ params' = Consume(params, amount, now)
    /\ netFlow' = netFlow + amount
    /\ UNCHANGED <<now, windowStart>>

Return(amount) ==
    /\ params' = Backfill(params, amount, now)
    /\ netFlow' = netFlow - (CurrentCapacity(params', now) - CurrentCapacity(params, now))
    /\ UNCHANGED <<now, windowStart>>

(* The owner changes the limit; a window measures one limit. *)
ChangeLimit(limit) ==
    /\ SetLimitAllowed(params, limit, now)
    /\ params' = SetLimit(params, limit, now)
    /\ windowStart' = now
    /\ netFlow' = 0
    /\ UNCHANGED now

OpenWindow ==
    /\ windowStart' = now
    /\ netFlow' = 0
    /\ UNCHANGED <<params, now>>

Tick ==
    /\ now < MaxTime
    /\ now' = now + 1
    /\ UNCHANGED <<params, windowStart, netFlow>>

FlowNext ==
    \/ \E amount \in Amounts : Pass(amount)
    \/ \E amount \in Amounts : Return(amount)
    \/ \E limit \in Limits : ChangeLimit(limit)
    \/ OpenWindow
    \/ Tick

FlowSpec == FlowInit /\ [][FlowNext]_flowVars

--------------------------------------------------------------------------------

Refilled(t) == (params.limit * t) \div RateLimitDuration

(* INV-009 and INV-010 as a bound: over any window in which the limit stays put,
   what passed, less what was given back, is at most one limit plus what time
   refilled.  The rounding of every step must not leak capacity into the next. *)
NetFlowBounded ==
    RateLimitDuration # 0 =>
        netFlow <= params.limit + Refilled(now - windowStart)

(* RateLimiter.sol:222-224: _setLimit never fails its CapacityCannotExceedLimit
   check nor overflows, whatever the traffic before, so the owner can always move
   a limit (and always update a peer, whose limit setPeer sets). *)
LimitCanAlwaysMove == \A limit \in Limits : SetLimitAllowed(params, limit, now)

(* Raising the limit by d raises the capacity left by d and lowering it takes d
   away: moving the limit neither forgives nor charges the traffic of the current
   period, RateLimiter.sol:205-225. *)
UsedCapacityPreserved ==
    [][params'.limit # params.limit =>
         LET used == params.limit - CurrentCapacity(params, now)
             usedAfter == params'.limit - params'.currentCapacity
         IN  usedAfter = Min2(used, params'.limit)]_flowVars

================================================================================
