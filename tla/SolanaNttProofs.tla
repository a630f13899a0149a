---------------------------- MODULE SolanaNttProofs ----------------------------
(***************************************************************************)
(* What the Solana program guarantees for any number of transceivers,      *)
(* chains, users, messages and items.  The invariant is proved in groups   *)
(* that touch different variables: the registry, the rate limits, the      *)
(* outbox, the inbox and the tokens.                                       *)
(***************************************************************************)
EXTENDS SolanaNtt, FiniteSetTheorems, SumTheorems, TLAPS

--------------------------------------------------------------------------------
\* The limits.

(* A limiter whose books are in order at time t. *)
InOrder(rl, t) ==
    /\ rl \in RateLimitState
    /\ rl.lastTxTimestamp <= t

LEMMA CapacityTypes ==
  ASSUME NEW t \in Nat, NEW rl, InOrder(rl, t)
  PROVE  CapacityAt(rl, t) \in 0..MaxU64
<1> DEFINE fill == ((t - rl.lastTxTimestamp) * rl.limit) \div Duration
<1>1. /\ rl.limit \in 0..MaxU64 /\ rl.capacityAtLastTx \in 0..MaxU64
      /\ t - rl.lastTxTimestamp \in Nat
      /\ MaxU64 \in Nat /\ Duration \in Nat \ {0}
  BY SolanaRateLimitAssumption DEF InOrder, RateLimitState
<1>2. (t - rl.lastTxTimestamp) * rl.limit \in Nat
  BY <1>1
<1>3. fill \in Nat
  BY <1>1, <1>2
<1>4. CapacityAt(rl, t) = Lesser(rl.capacityAtLastTx + fill, rl.limit)
  BY DEF CapacityAt
<1> HIDE DEF fill
<1> QED
  BY <1>1, <1>3, <1>4 DEF Lesser

LEMMA NewInOrder ==
  ASSUME NEW t \in Nat, NEW limit \in 0..MaxU64
  PROVE  InOrder(NewRateLimit(limit), t)
BY SolanaRateLimitAssumption DEF InOrder, NewRateLimit, RateLimitState

(* A charge and a refill write the capacity and the time and nothing else. *)
LEMMA UpdateInOrder ==
  ASSUME NEW t \in Nat, NEW rl, InOrder(rl, t), NEW capacity \in 0..MaxU64
  PROVE  InOrder([rl EXCEPT !.capacityAtLastTx = capacity, !.lastTxTimestamp = t], t)
<1> DEFINE after == [rl EXCEPT !.capacityAtLastTx = capacity, !.lastTxTimestamp = t]
<1>1. rl \in RateLimitState
  BY DEF InOrder
<1>2. after \in RateLimitState
  BY <1>1 DEF RateLimitState
<1>3. after.lastTxTimestamp = t
  BY <1>1 DEF RateLimitState
<1> HIDE DEF after
<1>4. InOrder(after, t)
  BY <1>2, <1>3 DEF InOrder
<1> QED
  BY <1>4 DEF after

LEMMA ConsumedInOrder ==
  ASSUME NEW t \in Nat, NEW rl, InOrder(rl, t), NEW amount \in 0..MaxU64, Fits(rl, amount, t)
  PROVE  InOrder(Consumed(rl, amount, t), t)
<1> DEFINE left == CapacityAt(rl, t) - amount
<1>1. left \in 0..MaxU64
  BY CapacityTypes, SolanaRateLimitAssumption DEF Fits
<1>2. Consumed(rl, amount, t) =
        [rl EXCEPT !.capacityAtLastTx = left, !.lastTxTimestamp = t]
  BY DEF Consumed
<1> HIDE DEF left
<1>3. InOrder([rl EXCEPT !.capacityAtLastTx = left, !.lastTxTimestamp = t], t)
  BY <1>1, UpdateInOrder
<1> QED
  BY <1>2, <1>3

LEMMA RefilledInOrder ==
  ASSUME NEW t \in Nat, NEW rl, InOrder(rl, t), NEW amount \in 0..MaxU64
  PROVE  InOrder(Refilled(rl, amount, t), t)
<1> DEFINE full == Lesser(Lesser(CapacityAt(rl, t) + amount, MaxU64), rl.limit)
<1>1. full \in 0..MaxU64
  <2>1. CapacityAt(rl, t) \in 0..MaxU64 /\ rl.limit \in 0..MaxU64
    BY CapacityTypes DEF InOrder, RateLimitState
  <2> QED
    BY <2>1, SolanaRateLimitAssumption DEF Lesser
<1>2. Refilled(rl, amount, t) =
        [rl EXCEPT !.capacityAtLastTx = full, !.lastTxTimestamp = t]
  BY DEF Refilled
<1> HIDE DEF full
<1>3. InOrder([rl EXCEPT !.capacityAtLastTx = full, !.lastTxTimestamp = t], t)
  BY <1>1, UpdateInOrder
<1> QED
  BY <1>2, <1>3

LEMMA WithLimitInOrder ==
  ASSUME NEW t \in Nat, NEW rl, InOrder(rl, t), NEW limit \in 0..MaxU64
  PROVE  InOrder(WithLimit(rl, limit, t), t)
<1> DEFINE moved(c) ==
        IF rl.limit > limit
        THEN IF c > rl.limit - limit THEN c - (rl.limit - limit) ELSE 0
        ELSE Lesser(c + (limit - rl.limit), MaxU64)
           full == Lesser(moved(CapacityAt(rl, t)), limit)
<1>1. full \in 0..MaxU64
  <2>1. rl.limit \in 0..MaxU64
    BY DEF InOrder, RateLimitState
  <2>2. ASSUME NEW c \in 0..MaxU64
        PROVE  moved(c) \in Nat
    BY <2>1, <2>2, SolanaRateLimitAssumption DEF Lesser
  <2> HIDE DEF moved
  <2> QED
    BY <2>2, CapacityTypes, SolanaRateLimitAssumption DEF Lesser
<1>2. WithLimit(rl, limit, t) =
        [limit |-> limit, capacityAtLastTx |-> full, lastTxTimestamp |-> t]
  BY DEF WithLimit
<1> HIDE DEF full
<1> QED
  BY <1>1, <1>2 DEF InOrder, RateLimitState

RateInv ==
    /\ now \in Nat
    /\ InOrder(outboxRateLimit, now)
    /\ inboxRateLimit \in [Chains -> RateLimitState]
    /\ \A c \in Chains : InOrder(inboxRateLimit[c], now)

LEMMA InitRates == Init => RateInv
<1> SUFFICES ASSUME Init PROVE RateInv
  OBVIOUS
<1>1. InOrder(NewRateLimit(StartLimit), 1) /\ InOrder(NewRateLimit(0), 1)
  BY NewInOrder, SolanaAssumption, SolanaRateLimitAssumption
<1> QED
  BY <1>1 DEF Init, RateInv, InOrder

(* Every step leaves the limits to the clock, or moves one, or charges an amount that
   fits to one and gives it back to the other. *)
LimitsMoved ==
    \/ UNCHANGED outboxRateLimit /\ UNCHANGED inboxRateLimit
    \/ \E limit \in 0..MaxU64 :
         /\ outboxRateLimit' = WithLimit(outboxRateLimit, limit, now)
         /\ UNCHANGED inboxRateLimit
    \/ \E limit \in 0..MaxU64, c \in Chains :
         /\ \/ inboxRateLimit' = [inboxRateLimit EXCEPT ![c] = WithLimit(@, limit, now)]
            \/ inboxRateLimit' = [inboxRateLimit EXCEPT ![c] = NewRateLimit(limit)]
         /\ UNCHANGED outboxRateLimit

LimitsCharged ==
    \E amount \in 0..MaxU64, c \in Chains :
      \/ /\ Fits(outboxRateLimit, amount, now)
         /\ outboxRateLimit' = Consumed(outboxRateLimit, amount, now)
         /\ inboxRateLimit' = [inboxRateLimit EXCEPT ![c] = Refilled(@, amount, now)]
      \/ /\ Fits(inboxRateLimit[c], amount, now)
         /\ inboxRateLimit' = [inboxRateLimit EXCEPT ![c] = Consumed(@, amount, now)]
         /\ outboxRateLimit' = Refilled(outboxRateLimit, amount, now)

(* Transfers, as far as the limits go. *)
LEMMA InsertLimits ==
  ASSUME NEW user \in Users, NEW amount \in Amounts, NEW chain \in Chains,
         NEW recipient \in Users, NEW queue \in BOOLEAN, NEW posting,
         TransferPosting(user, amount, chain, recipient, queue, posting)
  PROVE  UNCHANGED now /\ (LimitsMoved \/ LimitsCharged)
<1>1. amount \in 0..MaxU64
  BY SolanaAssumption
<1>2. CASE FitsOutbound(amount)
  BY <1>1, <1>2 DEF TransferPosting, InsertIntoOutbox, FitsOutbound, LimitsCharged
<1>3. CASE ~FitsOutbound(amount)
  BY <1>3 DEF TransferPosting, InsertIntoOutbox, LimitsMoved, limitVars
<1> QED
  BY <1>2, <1>3 DEF TransferPosting

LEMMA ChargeLimits ==
  ASSUME NEW t \in Transceivers, NEW m \in Messages, ChargeRedeem(m, t)
  PROVE  LimitsMoved \/ LimitsCharged
<1>1. m.amount \in 0..MaxU64 /\ m.source \in Chains
  BY SolanaAssumption
<1> QED
  BY <1>1 DEF ChargeRedeem, LimitsMoved, LimitsCharged, limitVars

LEMMA LimitEffects ==
  Next => \/ UNCHANGED now /\ (LimitsMoved \/ LimitsCharged)
          \/ now' = now + 1 /\ UNCHANGED outboxRateLimit /\ UNCHANGED inboxRateLimit
<1> SUFFICES ASSUME Next
             PROVE  \/ UNCHANGED now /\ (LimitsMoved \/ LimitsCharged)
                    \/ now' = now + 1 /\ UNCHANGED outboxRateLimit /\ UNCHANGED inboxRateLimit
  OBVIOUS
<1>1. CASE Tick
  BY <1>1 DEF Tick, limitVars
<1>2. CASE AdminNext
  <2>0. Limits \subseteq 0..MaxU64
    BY SolanaAssumption
  <2>1. ASSUME NEW c \in Chains, NEW manager \in Managers, NEW limit \in Limits,
               SetPeer(c, manager, limit)
        PROVE  UNCHANGED now /\ LimitsMoved
    <3>1. CASE inboxRateLimit[c].lastTxTimestamp = 0
      BY <2>0, <2>1, <3>1 DEF SetPeer, LimitsMoved
    <3>2. CASE inboxRateLimit[c].lastTxTimestamp # 0
      BY <2>0, <2>1, <3>2 DEF SetPeer, LimitsMoved
    <3> QED
      BY <3>1, <3>2
  <2>2. ASSUME NEW limit \in Limits, SetOutboundLimit(limit)
        PROVE  UNCHANGED now /\ LimitsMoved
    BY <2>0, <2>2 DEF SetOutboundLimit, LimitsMoved
  <2>3. ASSUME NEW c \in Chains, NEW limit \in Limits, SetInboundLimit(c, limit)
        PROVE  UNCHANGED now /\ LimitsMoved
    BY <2>0, <2>3 DEF SetInboundLimit, LimitsMoved
  <2>4. CASE \E t \in Transceivers : RegisterTransceiver(t) \/ DeregisterTransceiver(t)
    BY <2>4 DEF RegisterTransceiver, DeregisterTransceiver, LimitsMoved, limitVars
  <2>5. CASE \E n \in 1..Cardinality(Transceivers) : SetThreshold(n)
    BY <2>5 DEF SetThreshold, LimitsMoved, limitVars
  <2>6. CASE \E value \in BOOLEAN : SetPaused(value)
    BY <2>6 DEF SetPaused, LimitsMoved, limitVars
  <2> QED
    BY <1>2, <2>1, <2>2, <2>3, <2>4, <2>5, <2>6 DEF AdminNext
<1>3. CASE OutboundNext
  <2>1. CASE \E t \in Transceivers, i \in 1..Len(outbox) : ReleaseOutbound(t, i)
    BY <2>1 DEF ReleaseOutbound, LimitsMoved, limitVars
  <2> QED
    BY <1>3, <2>1, InsertLimits DEF OutboundNext, Transfer, SdkTransfer
<1>4. CASE InboundNext
  <2>1. CASE \E m \in Messages : ReleaseInbound(m)
    BY <2>1 DEF ReleaseInbound, LimitsMoved, limitVars
  <2>2. ASSUME NEW t \in Transceivers, NEW manager \in Managers, NEW m \in Messages,
               ReceiveMessage(t, manager, m)
        PROVE  UNCHANGED now /\ LimitsMoved
    BY <2>2 DEF ReceiveMessage, LimitsMoved, limitVars
  <2>3. ASSUME NEW t \in Transceivers, NEW manager \in Managers, NEW m \in Messages,
               Redeem(t, manager, m) \/ SdkRedeem(t, manager, m)
        PROVE  UNCHANGED now /\ (LimitsMoved \/ LimitsCharged)
    BY <2>3, ChargeLimits DEF Redeem, SdkRedeem
  <2> QED
    BY <1>4, <2>1, <2>2, <2>3 DEF InboundNext
<1> QED
  BY <1>1, <1>2, <1>3, <1>4 DEF Next

LEMMA RateStep == RateInv /\ [Next]_vars => RateInv'
<1> SUFFICES ASSUME RateInv, [Next]_vars PROVE RateInv'
  OBVIOUS
<1> USE DEF RateInv
<1>1. CASE UNCHANGED vars
  BY <1>1 DEF vars, limitVars
<1>2. CASE now' = now + 1 /\ UNCHANGED outboxRateLimit /\ UNCHANGED inboxRateLimit
  BY <1>2 DEF InOrder, RateLimitState
<1>3. CASE UNCHANGED now /\ LimitsMoved
  <2>1. ASSUME NEW limit \in 0..MaxU64, NEW c \in Chains
        PROVE  /\ InOrder(WithLimit(outboxRateLimit, limit, now), now)
               /\ InOrder(WithLimit(inboxRateLimit[c], limit, now), now)
               /\ InOrder(NewRateLimit(limit), now)
    BY WithLimitInOrder, NewInOrder
  <2>2. ASSUME NEW limit \in 0..MaxU64
        PROVE  InOrder(WithLimit(outboxRateLimit, limit, now), now)
    BY WithLimitInOrder
  <2> QED
    BY <1>3, <2>1, <2>2 DEF LimitsMoved, InOrder
<1>4. CASE UNCHANGED now /\ LimitsCharged
  <2> PICK amount \in 0..MaxU64, c \in Chains :
        \/ /\ Fits(outboxRateLimit, amount, now)
           /\ outboxRateLimit' = Consumed(outboxRateLimit, amount, now)
           /\ inboxRateLimit' = [inboxRateLimit EXCEPT ![c] = Refilled(@, amount, now)]
        \/ /\ Fits(inboxRateLimit[c], amount, now)
           /\ inboxRateLimit' = [inboxRateLimit EXCEPT ![c] = Consumed(@, amount, now)]
           /\ outboxRateLimit' = Refilled(outboxRateLimit, amount, now)
    BY <1>4 DEF LimitsCharged
  <2>1. /\ InOrder(Refilled(outboxRateLimit, amount, now), now)
        /\ InOrder(Refilled(inboxRateLimit[c], amount, now), now)
    BY RefilledInOrder
  <2>2. /\ Fits(outboxRateLimit, amount, now) =>
             InOrder(Consumed(outboxRateLimit, amount, now), now)
        /\ Fits(inboxRateLimit[c], amount, now) =>
             InOrder(Consumed(inboxRateLimit[c], amount, now), now)
    BY ConsumedInOrder
  <2> QED
    BY <1>4, <2>1, <2>2 DEF InOrder
<1> QED
  BY <1>1, <1>2, <1>3, <1>4, LimitEffects

--------------------------------------------------------------------------------
\* The owner's settings.

RegistryInv ==
    /\ enabled \subseteq Transceivers
    /\ threshold \in Nat
    /\ enabled = {} => threshold <= 1
    /\ enabled # {} => threshold <= Cardinality(enabled)

SettingsInv ==
    /\ RegistryInv
    /\ paused \in BOOLEAN
    /\ peers \in [Chains -> Managers \cup {NoPeer}]

LEMMA RegisterKeeps ==
  ASSUME RegistryInv, NEW t \in Transceivers, RegisterTransceiver(t)
  PROVE  RegistryInv'
<1>1. IsFiniteSet(enabled) /\ IsFiniteSet(enabled \cup {t})
  BY SolanaAssumption, FS_Subset DEF RegistryInv
<1>2. enabled' = enabled \cup {t} /\ enabled' # {} /\ threshold' = threshold
  BY DEF RegisterTransceiver
<1>3. Cardinality(enabled) <= Cardinality(enabled \cup {t})
  BY <1>1, FS_Subset
<1>4. /\ Cardinality(enabled) \in Nat /\ Cardinality(enabled \cup {t}) \in Nat
      /\ Cardinality({t}) = 1
  BY <1>1, FS_CardinalityType, FS_Singleton
<1>5. enabled = {} => enabled \cup {t} = {t}
  OBVIOUS
<1>6. threshold <= Cardinality(enabled \cup {t})
  BY <1>3, <1>4, <1>5 DEF RegistryInv
<1> QED
  BY <1>2, <1>6 DEF RegistryInv

LEMMA DeregisterKeeps ==
  ASSUME RegistryInv, NEW t \in Transceivers, DeregisterTransceiver(t)
  PROVE  RegistryInv'
<1>1. Cardinality(enabled \ {t}) \in Nat
  BY SolanaAssumption, FS_Subset, FS_CardinalityType DEF RegistryInv
<1>2. /\ enabled' = enabled \ {t} /\ enabled' # {}
      /\ threshold' = DecrementThreshold(enabled \ {t})
  BY DEF DeregisterTransceiver
<1>3. /\ DecrementThreshold(enabled \ {t}) \in Nat
      /\ DecrementThreshold(enabled \ {t}) <= Cardinality(enabled \ {t})
  BY <1>1 DEF RegistryInv, DecrementThreshold
<1> QED
  BY <1>2, <1>3 DEF RegistryInv

LEMMA SetThresholdKeeps ==
  ASSUME RegistryInv, NEW n \in Nat, SetThreshold(n)
  PROVE  RegistryInv'
<1>1. enabled # {}
  BY FS_EmptySet DEF SetThreshold
<1> QED
  BY <1>1 DEF SetThreshold, RegistryInv

(* All steps but the owner's, in a form that the groups below split on. *)
LEMMA NextCases ==
  Next =>
    \/ AdminNext
    \/ \E user \in Users, amount \in Amounts, chain \in Chains, recipient \in Users,
          queue \in BOOLEAN, posting \in SUBSET Transceivers :
         /\ TransferPosting(user, amount, chain, recipient, queue, posting)
         /\ posting # {} => FitsOutbound(amount)
    \/ \E t \in Transceivers, i \in 1..Len(outbox) : ReleaseOutbound(t, i)
    \/ \E t \in Transceivers, manager \in Managers, m \in Messages :
         \/ ReceiveMessage(t, manager, m)
         \/ Redeem(t, manager, m)
         \/ SdkRedeem(t, manager, m)
    \/ \E m \in Messages : ReleaseInbound(m)
    \/ Tick
<1>1. {SdkTransceiver} \in SUBSET Transceivers /\ {} \in SUBSET Transceivers
  BY SolanaAssumption
<1>2. ASSUME NEW user \in Users, NEW amount \in Amounts, NEW chain \in Chains,
             NEW recipient \in Users, NEW queue \in BOOLEAN,
             \/ Transfer(user, amount, chain, recipient, queue)
             \/ SdkTransfer(user, amount, chain, recipient, queue)
      PROVE  \E posting \in SUBSET Transceivers :
               /\ TransferPosting(user, amount, chain, recipient, queue, posting)
               /\ posting # {} => FitsOutbound(amount)
  <2>1. CASE Transfer(user, amount, chain, recipient, queue)
    BY <1>1, <2>1 DEF Transfer
  <2>2. CASE SdkTransfer(user, amount, chain, recipient, queue) /\ FitsOutbound(amount)
    BY <1>1, <2>2 DEF SdkTransfer
  <2>3. CASE SdkTransfer(user, amount, chain, recipient, queue) /\ ~FitsOutbound(amount)
    BY <1>1, <2>3 DEF SdkTransfer
  <2> QED
    BY <1>2, <2>1, <2>2, <2>3
<1>3. CASE OutboundNext
  BY <1>2, <1>3 DEF OutboundNext
<1> QED
  BY <1>3 DEF Next, InboundNext

LEMMA SettingsStep == SettingsInv /\ [Next]_vars => SettingsInv'
<1> SUFFICES ASSUME SettingsInv, [Next]_vars PROVE SettingsInv'
  OBVIOUS
<1> USE DEF SettingsInv
<1>1. CASE UNCHANGED configVars
  BY <1>1 DEF configVars, RegistryInv
<1>2. CASE AdminNext
  <2>1. ASSUME NEW t \in Transceivers, RegisterTransceiver(t)
        PROVE  SettingsInv'
    BY <2>1, RegisterKeeps DEF RegisterTransceiver
  <2>2. ASSUME NEW t \in Transceivers, DeregisterTransceiver(t)
        PROVE  SettingsInv'
    BY <2>2, DeregisterKeeps DEF DeregisterTransceiver
  <2>3. ASSUME NEW n \in 1..Cardinality(Transceivers), SetThreshold(n)
        PROVE  SettingsInv'
    <3>1. n \in Nat
      BY SolanaAssumption, FS_CardinalityType
    <3> QED
      BY <2>3, <3>1, SetThresholdKeeps DEF SetThreshold
  <2>4. ASSUME NEW value \in BOOLEAN, SetPaused(value)
        PROVE  SettingsInv'
    BY <2>4 DEF SetPaused, RegistryInv
  <2>5. ASSUME NEW c \in Chains, NEW manager \in Managers, NEW limit \in Limits,
               SetPeer(c, manager, limit)
        PROVE  SettingsInv'
    BY <2>5 DEF SetPeer, RegistryInv
  <2>6. ASSUME NEW limit \in Limits, SetOutboundLimit(limit)
        PROVE  UNCHANGED configVars
    BY <2>6 DEF SetOutboundLimit
  <2>7. ASSUME NEW c \in Chains, NEW limit \in Limits, SetInboundLimit(c, limit)
        PROVE  UNCHANGED configVars
    BY <2>7 DEF SetInboundLimit
  <2> QED
    BY <1>1, <1>2, <2>1, <2>2, <2>3, <2>4, <2>5, <2>6, <2>7 DEF AdminNext
<1>3. ASSUME NEW t \in Transceivers, NEW manager \in Managers, NEW m \in Messages,
             \/ ReceiveMessage(t, manager, m)
             \/ Redeem(t, manager, m)
             \/ SdkRedeem(t, manager, m)
      PROVE  UNCHANGED configVars
  BY <1>3 DEF ReceiveMessage, Redeem, SdkRedeem
<1>4. ASSUME NEW user \in Users, NEW amount \in Amounts, NEW chain \in Chains,
             NEW recipient \in Users, NEW queue \in BOOLEAN,
             NEW posting \in SUBSET Transceivers,
             TransferPosting(user, amount, chain, recipient, queue, posting)
      PROVE  UNCHANGED configVars
  BY <1>4 DEF TransferPosting
<1>5. ASSUME NEW t \in Transceivers, NEW i \in 1..Len(outbox), ReleaseOutbound(t, i)
      PROVE  UNCHANGED configVars
  BY <1>5 DEF ReleaseOutbound
<1>6. ASSUME NEW m \in Messages, ReleaseInbound(m)
      PROVE  UNCHANGED configVars
  BY <1>6 DEF ReleaseInbound
<1>7. Tick \/ UNCHANGED vars => UNCHANGED configVars
  BY DEF Tick, vars
<1> QED
  BY <1>1, <1>2, <1>3, <1>4, <1>5, <1>6, <1>7, NextCases

LEMMA InitSettings == Init => SettingsInv
<1>1. Init => RegistryInv
  BY DEF Init, RegistryInv
<1>2. Init => paused \in BOOLEAN /\ peers \in [Chains -> Managers \cup {NoPeer}]
  BY Zenon DEF Init
<1> QED
  BY <1>1, <1>2 DEF SettingsInv

(* A message every enabled transceiver voted for has its quorum, however the owner
   registers, removes and sets the threshold: the counterpart of NoMessageStranded for
   this program (admin/mod.rs, deregister_transceiver). *)
THEOREM VotedByAllIsApproved == Spec => []NoItemStranded
<1>1. SettingsInv => NoItemStranded
  <2> SUFFICES ASSUME SettingsInv, NEW m \in Messages, enabled # {},
                      enabled \subseteq inbox[m].votes
               PROVE  Reached(inbox[m])
    BY DEF NoItemStranded
  <2>1. EnabledVotes(inbox[m]) = enabled
    BY DEF EnabledVotes
  <2>2. threshold <= Cardinality(enabled) /\ Cardinality(enabled) \in Nat
    BY SolanaAssumption, FS_Subset, FS_CardinalityType DEF SettingsInv, RegistryInv
  <2> QED
    BY <2>1, <2>2 DEF Reached, SettingsInv, RegistryInv
<1> QED
  BY <1>1, InitSettings, SettingsStep, PTL DEF Spec

--------------------------------------------------------------------------------
\* The outbox.

OutInv ==
    /\ outbox \in Seq(OutboxItem)
    /\ posts \in Seq([Transceivers -> Nat])
    /\ Len(posts) = Len(outbox)
    /\ OutboxPostedOnce

(* Steps that neither touch the outbox nor turn the clock back. *)
LEMMA OutFrame ==
  ASSUME RateInv, OutInv, UNCHANGED outVars, now' \in Nat, now <= now'
  PROVE  OutInv'
<1>1. outbox' = outbox /\ posts' = posts
  BY DEF outVars
<1>2. OutboxPostedOnce'
  <2> SUFFICES ASSUME NEW i \in DOMAIN outbox, NEW t \in Transceivers
               PROVE  /\ posts[i][t] = IF t \in outbox[i].released THEN 1 ELSE 0
                      /\ t \in outbox[i].released => outbox[i].releaseTimestamp <= now'
    BY <1>1 DEF OutboxPostedOnce
  <2>1. outbox[i] \in OutboxItem
    BY DEF OutInv
  <2>2. outbox[i].releaseTimestamp \in Nat /\ now \in Nat
    BY <2>1 DEF OutboxItem, RateInv
  <2> QED
    BY <2>2 DEF OutInv, OutboxPostedOnce
<1> QED
  BY <1>1, <1>2 DEF OutInv

(* A new item, with the posts of the transaction that made it. *)
LEMMA OutAppend ==
  ASSUME RateInv, SettingsInv, OutInv,
         NEW user \in Users, NEW amount \in Amounts, NEW chain \in Chains,
         NEW recipient \in Users, NEW queue \in BOOLEAN, NEW posting \in SUBSET Transceivers,
         TransferPosting(user, amount, chain, recipient, queue, posting),
         posting # {} => FitsOutbound(amount)
  PROVE  OutInv'
<1> DEFINE item == [amount |-> amount, sender |-> user,
                    recipientChain |-> chain, recipientManager |-> peers[chain],
                    recipient |-> recipient,
                    releaseTimestamp |-> ReleaseTime(FitsOutbound(amount)),
                    released |-> posting]
           post == [t \in Transceivers |-> IF t \in posting THEN 1 ELSE 0]
<1>1. now \in Nat /\ Duration \in Nat /\ amount \in Nat
  BY SolanaAssumption, SolanaRateLimitAssumption DEF RateInv
<1>2. ReleaseTime(FitsOutbound(amount)) \in Nat
  BY <1>1 DEF ReleaseTime
<1>3. peers[chain] \in Managers
  BY DEF TransferPosting, SettingsInv
<1>4. item \in OutboxItem
  BY <1>1, <1>2, <1>3 DEF OutboxItem
<1>5. post \in [Transceivers -> Nat]
  OBVIOUS
<1>6. /\ item.released = posting
      /\ posting # {} => item.releaseTimestamp = now
  BY DEF ReleaseTime
<1>7. outbox' = Append(outbox, item) /\ posts' = Append(posts, post) /\ now' = now
  BY DEF TransferPosting, InsertIntoOutbox
<1>8. \A t \in Transceivers : post[t] = IF t \in posting THEN 1 ELSE 0
  OBVIOUS
<1> HIDE DEF item, post
<1>9. /\ outbox' \in Seq(OutboxItem) /\ posts' \in Seq([Transceivers -> Nat])
      /\ Len(outbox') = Len(outbox) + 1 /\ Len(posts') = Len(posts) + 1
      /\ Len(outbox) = Len(posts) /\ Len(outbox) \in Nat
      /\ outbox'[Len(outbox) + 1] = item /\ posts'[Len(outbox) + 1] = post
      /\ \A i \in 1..Len(outbox) : outbox'[i] = outbox[i] /\ posts'[i] = posts[i]
  BY <1>4, <1>5, <1>7 DEF OutInv
<1>10. OutboxPostedOnce'
  <2> SUFFICES ASSUME NEW i \in DOMAIN outbox', NEW t \in Transceivers
               PROVE  /\ posts'[i][t] = IF t \in outbox'[i].released THEN 1 ELSE 0
                      /\ t \in outbox'[i].released => outbox'[i].releaseTimestamp <= now'
    BY DEF OutboxPostedOnce
  <2>1. CASE i \in 1..Len(outbox)
    <3>1. i \in DOMAIN outbox
      BY <2>1 DEF OutInv
    <3>2. /\ posts[i][t] = IF t \in outbox[i].released THEN 1 ELSE 0
          /\ t \in outbox[i].released => outbox[i].releaseTimestamp <= now
      BY <3>1 DEF OutInv, OutboxPostedOnce
    <3> QED
      BY <1>7, <1>9, <2>1, <3>2
  <2>2. CASE i = Len(outbox) + 1
    BY <1>1, <1>6, <1>7, <1>8, <1>9, <2>2
  <2> QED
    BY <1>9, <2>1, <2>2
<1> QED
  BY <1>9, <1>10 DEF OutInv

LEMMA OutRelease ==
  ASSUME RateInv, OutInv, NEW t \in Transceivers, NEW i \in 1..Len(outbox),
         ReleaseOutbound(t, i)
  PROVE  OutInv'
<1> DEFINE item == MarkReleased(outbox[i], t)
           post == [posts[i] EXCEPT ![t] = @ + 1]
<1>1. /\ outbox[i] \in OutboxItem /\ posts[i] \in [Transceivers -> Nat]
      /\ Len(posts) = Len(outbox)
  BY DEF OutInv
<1>2. item \in OutboxItem /\ post \in [Transceivers -> Nat]
  BY <1>1 DEF MarkReleased, OutboxItem
<1>3. /\ item.released = outbox[i].released \cup {t}
      /\ item.releaseTimestamp = outbox[i].releaseTimestamp
  BY <1>1 DEF MarkReleased, OutboxItem
<1>4. /\ post[t] = posts[i][t] + 1
      /\ \A u \in Transceivers : u # t => post[u] = posts[i][u]
  BY <1>1
<1>5. /\ outbox' = [outbox EXCEPT ![i] = item] /\ posts' = [posts EXCEPT ![i] = post]
      /\ now' = now
  BY <1>1 DEF ReleaseOutbound
<1> HIDE DEF item, post
<1>6. /\ outbox' \in Seq(OutboxItem) /\ posts' \in Seq([Transceivers -> Nat])
      /\ Len(outbox') = Len(outbox) /\ Len(posts') = Len(posts)
      /\ DOMAIN outbox' = DOMAIN outbox
      /\ outbox'[i] = item /\ posts'[i] = post
      /\ \A k \in DOMAIN outbox : k # i => outbox'[k] = outbox[k] /\ posts'[k] = posts[k]
  BY <1>1, <1>2, <1>5 DEF OutInv
<1>7. OutboxPostedOnce'
  <2> SUFFICES ASSUME NEW k \in DOMAIN outbox, NEW u \in Transceivers
               PROVE  /\ posts'[k][u] = IF u \in outbox'[k].released THEN 1 ELSE 0
                      /\ u \in outbox'[k].released => outbox'[k].releaseTimestamp <= now'
    BY <1>6 DEF OutboxPostedOnce
  <2>1. /\ posts[k][u] = IF u \in outbox[k].released THEN 1 ELSE 0
        /\ u \in outbox[k].released => outbox[k].releaseTimestamp <= now
    BY DEF OutInv, OutboxPostedOnce
  <2>2. CASE k # i
    BY <1>5, <1>6, <2>1, <2>2
  <2>3. CASE k = i
    <3>1. t \notin outbox[i].released /\ outbox[i].releaseTimestamp <= now
      BY DEF ReleaseOutbound
    <3> QED
      BY <1>3, <1>4, <1>5, <1>6, <2>1, <2>3, <3>1
  <2> QED
    BY <2>2, <2>3
<1> QED
  BY <1>6, <1>7 DEF OutInv

LEMMA OutStep == RateInv /\ SettingsInv /\ OutInv /\ [Next]_vars => OutInv'
<1> SUFFICES ASSUME RateInv, SettingsInv, OutInv, [Next]_vars PROVE OutInv'
  OBVIOUS
<1>0. now \in Nat
  BY DEF RateInv
<1>1. CASE UNCHANGED <<outVars, now>>
  BY <1>0, <1>1, OutFrame
<1>2. AdminNext => UNCHANGED <<outVars, now>>
  BY DEF AdminNext, RegisterTransceiver, DeregisterTransceiver, SetThreshold, SetPaused,
         SetPeer, SetOutboundLimit, SetInboundLimit
<1>3. ASSUME NEW t \in Transceivers, NEW manager \in Managers, NEW m \in Messages,
             \/ ReceiveMessage(t, manager, m)
             \/ Redeem(t, manager, m)
             \/ SdkRedeem(t, manager, m)
      PROVE  UNCHANGED <<outVars, now>>
  BY <1>3 DEF ReceiveMessage, Redeem, SdkRedeem
<1>4. ASSUME NEW m \in Messages, ReleaseInbound(m)
      PROVE  UNCHANGED <<outVars, now>>
  BY <1>4 DEF ReleaseInbound
<1>5. CASE Tick
  BY <1>0, <1>5, OutFrame DEF Tick
<1>6. UNCHANGED vars => UNCHANGED <<outVars, now>>
  BY DEF vars
<1> QED
  BY <1>1, <1>2, <1>3, <1>4, <1>5, <1>6, OutAppend, OutRelease, NextCases

LEMMA InitOut == Init => OutInv
BY DEF Init, OutInv, OutboxPostedOnce

(* Whoever calls release_outbound, and however often, every transceiver posts an item
   at most once and never before its release timestamp. *)
THEOREM OutboxSettlement == Spec => []OutboxPostedOnce
<1>1. Init => RateInv /\ SettingsInv /\ OutInv
  BY InitRates, InitSettings, InitOut
<1>2. (RateInv /\ SettingsInv /\ OutInv) /\ [Next]_vars => (RateInv /\ SettingsInv /\ OutInv)'
  BY RateStep, SettingsStep, OutStep
<1>3. OutInv => OutboxPostedOnce
  BY DEF OutInv
<1> QED
  BY <1>1, <1>2, <1>3, PTL DEF Spec

--------------------------------------------------------------------------------
\* The inbox.

ValidatedBy(t, m) == \E v \in validated : v.transceiver = t /\ v.message = m

(* Every vote in an item is of a transceiver that validated this very message. *)
VotesValidated == \A m \in Messages : \A t \in inbox[m].votes : ValidatedBy(t, m)

InTypes ==
    /\ validated \subseteq ValidatedMessage
    /\ inbox \in [Messages -> InboxItem]
    /\ payouts \in [Messages -> Nat]

InInv ==
    /\ InTypes
    /\ InboxSettledOnce
    /\ VotesValidated

LEMMA RedeemedItem ==
  ASSUME RateInv, InTypes, NEW t \in Transceivers, NEW manager, NEW m \in Messages,
         CanRedeem(t, manager, m)
  PROVE  /\ Redeemed(m, t) \in InboxItem
         /\ Redeemed(m, t).votes = inbox[m].votes \cup {t}
         /\ \/ /\ ~Reached(Voted(m, t))
               /\ Redeemed(m, t).releaseStatus = inbox[m].releaseStatus
               /\ Redeemed(m, t).releaseAfter = inbox[m].releaseAfter
            \/ /\ Reached(Voted(m, t))
               /\ inbox[m].releaseStatus = "NotApproved"
               /\ Redeemed(m, t).releaseStatus = "ReleaseAfter"
               /\ Redeemed(m, t).releaseAfter =
                    ReleaseTime(Fits(inboxRateLimit[m.source], m.amount, now))
<1>1. inbox[m] \in InboxItem
  BY DEF InTypes
<1>2. /\ Voted(m, t) \in InboxItem
      /\ Voted(m, t).votes = inbox[m].votes \cup {t}
      /\ Voted(m, t).releaseStatus = inbox[m].releaseStatus
      /\ Voted(m, t).releaseAfter = inbox[m].releaseAfter
  BY <1>1 DEF Voted, InboxItem
<1>3. CASE ~Reached(Voted(m, t))
  BY <1>2, <1>3 DEF Redeemed
<1>4. CASE Reached(Voted(m, t))
  <2> DEFINE time == ReleaseTime(Fits(inboxRateLimit[m.source], m.amount, now))
             item == [Voted(m, t) EXCEPT !.releaseStatus = "ReleaseAfter", !.releaseAfter = time]
  <2>1. time \in Nat
    BY SolanaRateLimitAssumption DEF RateInv, ReleaseTime
  <2>2. Redeemed(m, t) = item
    BY <1>4 DEF Redeemed
  <2> HIDE DEF time
  <2>3. /\ item \in InboxItem
        /\ item.votes = Voted(m, t).votes
        /\ item.releaseStatus = "ReleaseAfter"
        /\ item.releaseAfter = time
    BY <1>2, <2>1 DEF InboxItem
  <2>4. inbox[m].releaseStatus = "NotApproved"
    BY <1>4 DEF CanRedeem
  <2> HIDE DEF item
  <2> QED
    BY <1>2, <1>4, <2>2, <2>3, <2>4 DEF time
<1> QED
  BY <1>3, <1>4

LEMMA TriedItem ==
  ASSUME NEW item \in InboxItem
  PROVE  /\ TryRelease(item) \in InboxItem
         /\ TryRelease(item).votes = item.votes
         /\ TryRelease(item).releaseStatus = "Released"
         /\ TryRelease(item).releaseAfter = item.releaseAfter
BY DEF TryRelease, InboxItem

(* A step that writes one item, and pays it exactly when it makes it Released. *)
LEMMA InUpdate ==
  ASSUME InInv, NEW m \in Messages, NEW item \in InboxItem,
         inbox' = [inbox EXCEPT ![m] = item],
         validated \subseteq validated', validated' \subseteq ValidatedMessage,
         \A t \in item.votes : t \in inbox[m].votes \/ ValidatedBy(t, m)',
         \/ /\ payouts' = payouts
            /\ item.releaseStatus = "Released" <=> inbox[m].releaseStatus = "Released"
         \/ /\ payouts' = [payouts EXCEPT ![m] = @ + 1]
            /\ inbox[m].releaseStatus # "Released"
            /\ item.releaseStatus = "Released"
  PROVE  InInv'
<1>1. inbox \in [Messages -> InboxItem] /\ payouts \in [Messages -> Nat]
  BY DEF InInv, InTypes
<1>2. InTypes'
  BY <1>1 DEF InTypes
<1>3. inbox'[m] = item /\ \A n \in Messages : n # m => inbox'[n] = inbox[n]
  BY <1>1
<1>4. InboxSettledOnce'
  <2> SUFFICES ASSUME NEW n \in Messages
               PROVE  payouts'[n] = IF inbox'[n].releaseStatus = "Released" THEN 1 ELSE 0
    BY DEF InboxSettledOnce
  <2>1. payouts[n] = IF inbox[n].releaseStatus = "Released" THEN 1 ELSE 0
    BY DEF InInv, InboxSettledOnce
  <2>2. CASE n # m
    BY <1>1, <1>3, <2>1, <2>2
  <2>3. CASE n = m
    BY <1>1, <1>3, <2>1, <2>3
  <2> QED
    BY <2>2, <2>3
<1>5. VotesValidated'
  <2> SUFFICES ASSUME NEW n \in Messages, NEW t \in inbox'[n].votes
               PROVE  ValidatedBy(t, n)'
    BY DEF VotesValidated
  <2>1. CASE t \in inbox[n].votes
    <3>1. ValidatedBy(t, n)
      BY <2>1 DEF InInv, VotesValidated
    <3> QED
      BY <3>1 DEF ValidatedBy
  <2>2. CASE t \notin inbox[n].votes
    BY <1>3, <2>2
  <2> QED
    BY <2>1, <2>2
<1> QED
  BY <1>2, <1>4, <1>5 DEF InInv

(* What validating, voting and paying do to the inbox. *)
LEMMA RedeemIn ==
  ASSUME RateInv, InInv, NEW t \in Transceivers, NEW manager \in Managers, NEW m \in Messages,
         Redeem(t, manager, m)
  PROVE  InInv'
<1>1. InTypes /\ CanRedeem(t, manager, m) /\ inbox' = [inbox EXCEPT ![m] = Redeemed(m, t)]
      /\ validated' = validated /\ payouts' = payouts
  BY DEF InInv, Redeem
<1>2. ValidatedBy(t, m)'
  BY <1>1 DEF Redeem, ValidatedBy
<1>3. validated \subseteq ValidatedMessage
  BY <1>1 DEF InTypes
<1>4. /\ Redeemed(m, t) \in InboxItem
      /\ Redeemed(m, t).votes = inbox[m].votes \cup {t}
      /\ Redeemed(m, t).releaseStatus = "Released" <=> inbox[m].releaseStatus = "Released"
  BY <1>1, RedeemedItem
<1> QED
  BY <1>1, <1>2, <1>3, <1>4, InUpdate

LEMMA SdkRedeemIn ==
  ASSUME RateInv, InInv, NEW t \in Transceivers, NEW manager \in Managers, NEW m \in Messages,
         SdkRedeem(t, manager, m)
  PROVE  InInv'
<1> DEFINE v == [transceiver |-> t, manager |-> manager, message |-> m]
<1>1. /\ InTypes /\ CanRedeem(t, manager, m) /\ inbox[m].releaseStatus # "Released"
      /\ validated' = validated \cup {v}
  BY DEF InInv, SdkRedeem
<1>2. /\ v \in ValidatedMessage /\ ValidatedBy(t, m)'
      /\ validated \subseteq validated' /\ validated' \subseteq ValidatedMessage
  <2>1. v \in ValidatedMessage /\ v.transceiver = t /\ v.message = m
    BY DEF ValidatedMessage
  <2> HIDE DEF v
  <2> QED
    BY <1>1, <2>1 DEF ValidatedBy, InTypes
<1>3. /\ Redeemed(m, t) \in InboxItem
      /\ Redeemed(m, t).votes = inbox[m].votes \cup {t}
      /\ Redeemed(m, t).releaseStatus # "Released"
  BY <1>1, RedeemedItem
<1>4. /\ TryRelease(Redeemed(m, t)) \in InboxItem
      /\ TryRelease(Redeemed(m, t)).votes = inbox[m].votes \cup {t}
      /\ TryRelease(Redeemed(m, t)).releaseStatus = "Released"
  BY <1>3, TriedItem
<1>5. CASE CanRelease(Redeemed(m, t))
  <2>1. /\ inbox' = [inbox EXCEPT ![m] = TryRelease(Redeemed(m, t))]
        /\ payouts' = [payouts EXCEPT ![m] = @ + 1]
    BY <1>5 DEF SdkRedeem, MintOrUnlock
  <2> QED
    BY <1>1, <1>2, <1>4, <2>1, InUpdate
<1>6. CASE ~CanRelease(Redeemed(m, t))
  <2>1. inbox' = [inbox EXCEPT ![m] = Redeemed(m, t)] /\ payouts' = payouts
    BY <1>6 DEF SdkRedeem
  <2> QED
    BY <1>1, <1>2, <1>3, <2>1, InUpdate
<1> QED
  BY <1>5, <1>6

LEMMA ReleaseIn ==
  ASSUME InInv, NEW m \in Messages, ReleaseInbound(m)
  PROVE  InInv'
<1>1. /\ inbox[m] \in InboxItem /\ validated \subseteq ValidatedMessage
      /\ validated' = validated /\ payouts' = [payouts EXCEPT ![m] = @ + 1]
      /\ inbox[m].releaseStatus = "ReleaseAfter"
  BY DEF InInv, InTypes, ReleaseInbound, MintOrUnlock, CanRelease
<1>2. inbox' = [inbox EXCEPT ![m] = TryRelease(inbox[m])]
  BY DEF ReleaseInbound
<1>3. /\ TryRelease(inbox[m]) \in InboxItem
      /\ TryRelease(inbox[m]).votes = inbox[m].votes
      /\ TryRelease(inbox[m]).releaseStatus = "Released"
  BY <1>1, TriedItem
<1> QED
  BY <1>1, <1>2, <1>3, InUpdate

LEMMA ReceiveIn ==
  ASSUME InInv, NEW t \in Transceivers, NEW manager \in Managers, NEW m \in Messages,
         ReceiveMessage(t, manager, m)
  PROVE  InInv'
<1>1. /\ inbox' = inbox /\ payouts' = payouts /\ validated \subseteq validated'
      /\ validated' \subseteq ValidatedMessage
  BY DEF ReceiveMessage, InInv, InTypes, ValidatedMessage
<1>2. VotesValidated'
  BY <1>1 DEF InInv, VotesValidated, ValidatedBy
<1> QED
  BY <1>1, <1>2 DEF InInv, InTypes, InboxSettledOnce

LEMMA InStep == RateInv /\ InInv /\ [Next]_vars => InInv'
<1> SUFFICES ASSUME RateInv, InInv, [Next]_vars PROVE InInv'
  OBVIOUS
<1>1. CASE UNCHANGED inVars
  BY <1>1 DEF inVars, InInv, InTypes, InboxSettledOnce, VotesValidated, ValidatedBy
<1>2. AdminNext => UNCHANGED inVars
  BY DEF AdminNext, RegisterTransceiver, DeregisterTransceiver, SetThreshold, SetPaused,
         SetPeer, SetOutboundLimit, SetInboundLimit
<1>3. ASSUME NEW user \in Users, NEW amount \in Amounts, NEW chain \in Chains,
             NEW recipient \in Users, NEW queue \in BOOLEAN,
             NEW posting \in SUBSET Transceivers,
             TransferPosting(user, amount, chain, recipient, queue, posting)
      PROVE  UNCHANGED inVars
  BY <1>3 DEF TransferPosting
<1>4. ASSUME NEW t \in Transceivers, NEW i \in 1..Len(outbox), ReleaseOutbound(t, i)
      PROVE  UNCHANGED inVars
  BY <1>4 DEF ReleaseOutbound
<1>5. Tick \/ UNCHANGED vars => UNCHANGED inVars
  BY DEF Tick, vars
<1> QED
  BY <1>1, <1>2, <1>3, <1>4, <1>5, RedeemIn, SdkRedeemIn, ReleaseIn, ReceiveIn, NextCases

LEMMA InitIn == Init => InInv
<1> SUFFICES ASSUME Init PROVE InInv
  OBVIOUS
<1>1. NewInboxItem \in InboxItem /\ NewInboxItem.votes = {}
      /\ NewInboxItem.releaseStatus = "NotApproved"
  BY DEF NewInboxItem, InboxItem
<1>2. InTypes
  BY <1>1 DEF Init, InTypes
<1>3. InboxSettledOnce /\ VotesValidated
  BY <1>1 DEF Init, InboxSettledOnce, VotesValidated
<1> QED
  BY <1>2, <1>3 DEF InInv

LEMMA InboxInvariant == Spec => [](RateInv /\ InInv)
<1>1. Init => RateInv /\ InInv
  BY InitRates, InitIn
<1>2. (RateInv /\ InInv) /\ [Next]_vars => (RateInv /\ InInv)'
  BY RateStep, InStep
<1> QED
  BY <1>1, <1>2, PTL DEF Spec

(* A message is paid exactly when its item is Released, and then once: no order of
   single instructions and bundles of the client pays it again. *)
THEOREM InboxSettlement == Spec => []InboxSettledOnce
<1>1. InInv => InboxSettledOnce
  BY DEF InInv
<1> QED
  BY <1>1, InboxInvariant, PTL

(* A bundle or a single redeem whose vote makes the quorum: those who voted are
   enabled now, and each of them validated this very message. *)
LEMMA QuorumValidated ==
  ASSUME InInv, NEW t \in Transceivers, NEW m \in Messages, NEW manager,
         CanRedeem(t, manager, m), Reached(Voted(m, t)),
         validated \subseteq validated', ValidatedBy(t, m)'
  PROVE  \E quorum \in SUBSET enabled :
           /\ Cardinality(quorum) >= threshold
           /\ threshold > 0
           /\ \A u \in quorum : \E v \in validated' : v.transceiver = u /\ v.message = m
<1> DEFINE quorum == EnabledVotes(Voted(m, t))
<1>1. inbox[m] \in InboxItem
  BY DEF InInv, InTypes
<1>2. Voted(m, t).votes = inbox[m].votes \cup {t}
  BY <1>1 DEF Voted, InboxItem
<1>3. quorum \in SUBSET enabled /\ quorum \subseteq inbox[m].votes \cup {t}
  BY <1>2 DEF EnabledVotes
<1>4. Cardinality(quorum) >= threshold /\ threshold > 0
  BY DEF Reached, CanRedeem
<1>5. \A u \in inbox[m].votes \cup {t} : \E v \in validated' : v.transceiver = u /\ v.message = m
  BY DEF InInv, VotesValidated, ValidatedBy
<1> HIDE DEF quorum
<1> QED
  BY <1>3, <1>4, <1>5

(* When an item is approved, threshold transceivers that are enabled at that moment
   have each validated the message of the item and not merely one with its id. *)
THEOREM ApprovalNeedsQuorum == Spec => ApprovedByQuorum
<1> DEFINE Approval(m) ==
             inbox[m].releaseStatus = "NotApproved" /\ inbox'[m].releaseStatus # "NotApproved"
           Attested(m) ==
             \E quorum \in SUBSET enabled :
               /\ Cardinality(quorum) >= threshold
               /\ threshold > 0
               /\ \A t \in quorum : \E v \in validated' : v.transceiver = t /\ v.message = m
<1>1. (RateInv /\ InInv) /\ [Next]_vars => \A m \in Messages : Approval(m) => Attested(m)
  <2> SUFFICES ASSUME RateInv, InInv, [Next]_vars, NEW m \in Messages, Approval(m)
               PROVE  Attested(m)
    OBVIOUS
  <2> inbox \in [Messages -> InboxItem] /\ InTypes
    BY DEF InInv, InTypes
  <2>1. ASSUME NEW t \in Transceivers, NEW manager \in Managers, NEW n \in Messages,
               Redeem(t, manager, n)
        PROVE  Attested(m)
    <3>1. CanRedeem(t, manager, n) /\ validated' = validated /\ ValidatedBy(t, n)'
          /\ inbox' = [inbox EXCEPT ![n] = Redeemed(n, t)]
      BY <2>1 DEF Redeem, ValidatedBy
    <3>2. n = m
      BY <3>1
    <3>3. Reached(Voted(n, t))
      BY <3>1, <3>2, RedeemedItem
    <3> QED
      BY <3>1, <3>2, <3>3, QuorumValidated
  <2>2. ASSUME NEW t \in Transceivers, NEW manager \in Managers, NEW n \in Messages,
               SdkRedeem(t, manager, n)
        PROVE  Attested(m)
    <3> DEFINE v == [transceiver |-> t, manager |-> manager, message |-> n]
    <3>1. CanRedeem(t, manager, n) /\ validated' = validated \cup {v}
          /\ v.transceiver = t /\ v.message = n
      BY <2>2 DEF SdkRedeem
    <3>2. validated \subseteq validated' /\ ValidatedBy(t, n)'
      <4> HIDE DEF v
      <4> QED
        BY <3>1 DEF ValidatedBy
    <3>3. \/ /\ CanRelease(Redeemed(n, t))
             /\ inbox' = [inbox EXCEPT ![n] = TryRelease(Redeemed(n, t))]
          \/ inbox' = [inbox EXCEPT ![n] = Redeemed(n, t)]
      BY <2>2 DEF SdkRedeem
    <3>4. n = m
      BY <3>3
    <3>5. Reached(Voted(n, t))
      <4>1. SUFFICES ASSUME ~Reached(Voted(n, t)) PROVE FALSE
        OBVIOUS
      <4>2. Redeemed(n, t).releaseStatus = "NotApproved"
        BY <3>1, <3>4, <4>1, RedeemedItem
      <4> QED
        BY <3>3, <3>4, <4>2 DEF CanRelease
    <3> QED
      BY <3>1, <3>2, <3>4, <3>5, QuorumValidated
  <2>3. ASSUME NEW n \in Messages, ReleaseInbound(n)
        PROVE  Attested(m)
    <3>1. inbox[n].releaseStatus = "ReleaseAfter"
          /\ inbox' = [inbox EXCEPT ![n] = TryRelease(inbox[n])]
      BY <2>3 DEF ReleaseInbound, CanRelease
    <3> QED
      BY <3>1
  <2>4. inbox' # inbox
    OBVIOUS
  <2>5. ~AdminNext
    BY <2>4 DEF AdminNext, RegisterTransceiver, DeregisterTransceiver, SetThreshold,
           SetPaused, SetPeer, SetOutboundLimit, SetInboundLimit, inVars
  <2>6. ASSUME NEW t \in Transceivers, NEW manager \in Managers, NEW n \in Messages
        PROVE  ~ReceiveMessage(t, manager, n)
    BY <2>4 DEF ReceiveMessage
  <2>7. ASSUME NEW user \in Users, NEW amount \in Amounts, NEW chain \in Chains,
               NEW recipient \in Users, NEW queue \in BOOLEAN,
               NEW posting \in SUBSET Transceivers
        PROVE  ~TransferPosting(user, amount, chain, recipient, queue, posting)
    BY <2>4 DEF TransferPosting, inVars
  <2>8. ASSUME NEW t \in Transceivers, NEW i \in 1..Len(outbox)
        PROVE  ~ReleaseOutbound(t, i)
    BY <2>4 DEF ReleaseOutbound, inVars
  <2>9. ~Tick /\ ~UNCHANGED vars
    BY <2>4 DEF Tick, vars, inVars
  <2> HIDE DEF Approval, Attested
  <2> QED
    BY <2>1, <2>2, <2>3, <2>5, <2>6, <2>7, <2>8, <2>9, NextCases
<1>2. (RateInv /\ InInv) /\ [Next]_vars
        => [\A m \in Messages : Approval(m) => Attested(m)]_vars
  BY <1>1
<1> QED
  BY <1>2, InboxInvariant, PTL DEF Spec, ApprovedByQuorum

(* While the program is paused no token moves and no message leaves, although redeem
   goes on voting, approving and charging limits (redeem.rs:25). *)
THEOREM PauseHolds == Spec => PausedMovesNothing
<1> DEFINE Still == UNCHANGED <<tokenVars, outVars, payouts>>
<1>1. ASSUME [Next]_vars, paused
      PROVE  Still
  <2>1. CASE AdminNext
    BY <2>1 DEF AdminNext, RegisterTransceiver, DeregisterTransceiver, SetThreshold,
           SetPaused, SetPeer, SetOutboundLimit, SetInboundLimit, inVars
  <2>2. ASSUME NEW user \in Users, NEW amount \in Amounts, NEW chain \in Chains,
               NEW recipient \in Users, NEW queue \in BOOLEAN,
               NEW posting \in SUBSET Transceivers
        PROVE  ~TransferPosting(user, amount, chain, recipient, queue, posting)
    BY <1>1 DEF TransferPosting, NotPaused
  <2>3. ASSUME NEW t \in Transceivers, NEW i \in 1..Len(outbox)
        PROVE  ~ReleaseOutbound(t, i)
    BY <1>1 DEF ReleaseOutbound, NotPaused
  <2>4. ASSUME NEW t \in Transceivers, NEW manager \in Managers, NEW m \in Messages
        PROVE  /\ ~ReceiveMessage(t, manager, m)
               /\ ~SdkRedeem(t, manager, m)
               /\ Redeem(t, manager, m) => Still
    BY <1>1 DEF ReceiveMessage, SdkRedeem, CanReceive, NotPaused, Redeem
  <2>5. ASSUME NEW m \in Messages
        PROVE  ~ReleaseInbound(m)
    BY <1>1 DEF ReleaseInbound, NotPaused
  <2>6. Tick \/ UNCHANGED vars => Still
    BY DEF Tick, vars, inVars
  <2> HIDE DEF Still
  <2> QED
    BY <1>1, <2>1, <2>2, <2>3, <2>4, <2>5, <2>6, NextCases
<1>2. [Next]_vars => [paused => Still]_vars
  BY <1>1
<1> QED
  BY <1>2, PTL DEF Spec, PausedMovesNothing

--------------------------------------------------------------------------------
\* The tokens.

TokenInv ==
    /\ balances \in [Users -> Nat]
    /\ held \in Int

LEMMA TokenStep == TokenInv /\ [Next]_vars => TokenInv'
<1> SUFFICES ASSUME TokenInv, [Next]_vars PROVE TokenInv'
  OBVIOUS
<1> USE DEF TokenInv
<1>1. CASE UNCHANGED tokenVars
  BY <1>1 DEF tokenVars
<1>2. AdminNext => UNCHANGED tokenVars
  BY DEF AdminNext, RegisterTransceiver, DeregisterTransceiver, SetThreshold, SetPaused,
         SetPeer, SetOutboundLimit, SetInboundLimit
<1>3. ASSUME NEW user \in Users, NEW amount \in Amounts, NEW chain \in Chains,
             NEW recipient \in Users, NEW queue \in BOOLEAN,
             NEW posting \in SUBSET Transceivers,
             TransferPosting(user, amount, chain, recipient, queue, posting)
      PROVE  TokenInv'
  <2>1. amount \in Nat
    BY SolanaAssumption, SolanaRateLimitAssumption
  <2>2. /\ balances[user] >= amount
        /\ balances' = [balances EXCEPT ![user] = balances[user] - amount]
        /\ held' = held + amount
    BY <1>3 DEF TransferPosting
  <2>3. balances[user] - amount \in Nat
    BY <2>1, <2>2
  <2> QED
    BY <2>1, <2>2, <2>3
<1>4. ASSUME NEW m \in Messages, MintOrUnlock(m)
      PROVE  TokenInv'
  <2>1. m.amount \in Nat /\ m.recipient \in Users
    BY SolanaAssumption, SolanaRateLimitAssumption
  <2>2. /\ balances' = [balances EXCEPT ![m.recipient] = balances[m.recipient] + m.amount]
        /\ held' = held - m.amount
    BY <1>4 DEF MintOrUnlock
  <2>3. balances[m.recipient] + m.amount \in Nat
    BY <2>1
  <2> QED
    BY <2>1, <2>2, <2>3
<1>5. ASSUME NEW m \in Messages, ReleaseInbound(m)
      PROVE  MintOrUnlock(m)
  BY <1>5 DEF ReleaseInbound
<1>6. ASSUME NEW t \in Transceivers, NEW manager \in Managers, NEW m \in Messages,
             \/ ReceiveMessage(t, manager, m)
             \/ Redeem(t, manager, m)
             \/ SdkRedeem(t, manager, m)
      PROVE  MintOrUnlock(m) \/ UNCHANGED tokenVars
  BY <1>6 DEF ReceiveMessage, Redeem, SdkRedeem
<1>7. ASSUME NEW t \in Transceivers, NEW i \in 1..Len(outbox), ReleaseOutbound(t, i)
      PROVE  UNCHANGED tokenVars
  BY <1>7 DEF ReleaseOutbound
<1>8. Tick \/ UNCHANGED vars => UNCHANGED tokenVars
  BY DEF Tick, vars
<1> QED
  BY <1>1, <1>2, <1>3, <1>4, <1>5, <1>6, <1>7, <1>8, NextCases

LEMMA InitTokens == Init => TokenInv
BY SolanaAssumption DEF Init, TokenInv

(* Every account keeps its type: in particular balances, capacities and times never
   go below zero, and a capacity never exceeds a u64. *)
THEOREM ProgramTypes == Spec => []TypeOK
<1> DEFINE IndInv == RateInv /\ SettingsInv /\ OutInv /\ InInv /\ TokenInv
<1>1. Init => IndInv
  BY InitRates, InitSettings, InitOut, InitIn, InitTokens
<1>2. IndInv /\ [Next]_vars => IndInv'
  BY RateStep, SettingsStep, OutStep, InStep, TokenStep
<1>3. IndInv => TypeOK
  BY DEF RateInv, InOrder, SettingsInv, RegistryInv, OutInv, InInv, InTypes, TokenInv, TypeOK
<1> QED
  BY <1>1, <1>2, <1>3, PTL DEF Spec

--------------------------------------------------------------------------------
\* The books.

BooksInv ==
    /\ IsFiniteSet(ReleasedMessages)
    /\ Conservation

LEMMA BookedSums ==
  ASSUME OutInv, InTypes, BooksInv
  PROVE  /\ IsFiniteSet(DOMAIN ItemAmounts)
         /\ \A i \in DOMAIN ItemAmounts : ItemAmounts[i] \in Nat
         /\ SumFunction(ItemAmounts) \in Nat
         /\ \A m \in ReleasedMessages : m.amount \in Nat
         /\ SumOfAmounts(ReleasedMessages) \in Nat
<1>1. DOMAIN ItemAmounts = 1..Len(outbox) /\ Len(outbox) \in Nat
  BY DEF ItemAmounts, OutInv
<1>2. IsFiniteSet(DOMAIN ItemAmounts)
  BY <1>1, FS_Interval
<1>3. \A i \in DOMAIN ItemAmounts : ItemAmounts[i] \in Nat
  <2> SUFFICES ASSUME NEW i \in DOMAIN outbox PROVE outbox[i].amount \in Nat
    BY DEF ItemAmounts
  <2>1. outbox[i] \in OutboxItem
    BY DEF OutInv
  <2> QED
    BY <2>1 DEF OutboxItem
<1>4. \A m \in ReleasedMessages : m.amount \in Nat
  BY SolanaAssumption, SolanaRateLimitAssumption DEF ReleasedMessages
<1> QED
  BY <1>2, <1>3, <1>4, SumType, AmountsType DEF BooksInv

(* A step that pays m and one that pays nothing. *)
LEMMA PayBooks ==
  ASSUME OutInv, InTypes, TokenInv, BooksInv, NEW m \in Messages, outbox' = outbox,
         m \notin ReleasedMessages, ReleasedMessages' = ReleasedMessages \cup {m},
         held' = held - m.amount
  PROVE  BooksInv'
<1>1. m.amount \in Nat
  BY SolanaAssumption, SolanaRateLimitAssumption
<1>2. IsFiniteSet(ReleasedMessages') /\ ItemAmounts' = ItemAmounts
  BY FS_AddElement DEF BooksInv, ItemAmounts
<1>3. SumOfAmounts(ReleasedMessages') = SumOfAmounts(ReleasedMessages) + m.amount
  BY <1>1, BookedSums, AmountsAdd DEF BooksInv
<1>4. SumFunction(ItemAmounts) \in Nat /\ SumOfAmounts(ReleasedMessages) \in Nat /\ held \in Int
  BY BookedSums DEF TokenInv
<1> QED
  BY <1>1, <1>2, <1>3, <1>4 DEF BooksInv, Conservation

LEMMA QuietBooks ==
  ASSUME BooksInv, held' = held, ItemAmounts' = ItemAmounts, ReleasedMessages' = ReleasedMessages
  PROVE  BooksInv'
BY DEF BooksInv, Conservation

LEMMA TransferBooks ==
  ASSUME OutInv, InTypes, TokenInv, BooksInv,
         NEW user \in Users, NEW amount \in Amounts, NEW chain \in Chains,
         NEW recipient \in Users, NEW queue \in BOOLEAN, NEW posting \in SUBSET Transceivers,
         TransferPosting(user, amount, chain, recipient, queue, posting)
  PROVE  BooksInv'
<1> DEFINE k == Len(outbox) + 1
           item == [amount |-> amount, sender |-> user,
                    recipientChain |-> chain, recipientManager |-> peers[chain],
                    recipient |-> recipient,
                    releaseTimestamp |-> ReleaseTime(FitsOutbound(amount)),
                    released |-> posting]
<1>1. amount \in Nat /\ item.amount = amount
  BY SolanaAssumption, SolanaRateLimitAssumption
<1>2. outbox' = Append(outbox, item) /\ held' = held + amount /\ inbox' = inbox
  BY DEF TransferPosting, InsertIntoOutbox, inVars
<1> HIDE DEF item
<1>3. /\ DOMAIN outbox = 1..Len(outbox) /\ DOMAIN outbox' = 1..k /\ Len(outbox) \in Nat
      /\ outbox'[k] = item /\ \A i \in 1..Len(outbox) : outbox'[i] = outbox[i]
  BY <1>2 DEF OutInv
<1>4. /\ DOMAIN ItemAmounts = 1..Len(outbox) /\ DOMAIN ItemAmounts' = 1..k
      /\ ItemAmounts'[k] = amount
      /\ \A i \in DOMAIN ItemAmounts : ItemAmounts'[i] = ItemAmounts[i]
  BY <1>1, <1>3 DEF ItemAmounts
<1>5. /\ k \notin DOMAIN ItemAmounts /\ DOMAIN ItemAmounts' = DOMAIN ItemAmounts \cup {k}
      /\ \A i \in DOMAIN ItemAmounts' : ItemAmounts'[i] \in Int
  BY <1>1, <1>3, <1>4, BookedSums
<1>6. SumFunction(ItemAmounts') = SumFunction(ItemAmounts) + amount
  <2> HIDE DEF k
  <2> QED
    BY <1>4, <1>5, BookedSums, SumExtends
<1>7. ReleasedMessages' = ReleasedMessages
  BY <1>2 DEF ReleasedMessages
<1>8. SumFunction(ItemAmounts) \in Nat /\ SumOfAmounts(ReleasedMessages) \in Nat /\ held \in Int
  BY BookedSums DEF TokenInv
<1> QED
  BY <1>1, <1>2, <1>6, <1>7, <1>8 DEF BooksInv, Conservation

LEMMA ReleaseOutboundBooks ==
  ASSUME OutInv, BooksInv, NEW t \in Transceivers, NEW i \in 1..Len(outbox), ReleaseOutbound(t, i)
  PROVE  BooksInv'
<1>1. /\ outbox' = [outbox EXCEPT ![i] = MarkReleased(outbox[i], t)]
      /\ held' = held /\ inbox' = inbox
  BY DEF ReleaseOutbound, tokenVars, inVars
<1>2. \A j \in DOMAIN outbox : outbox'[j].amount = outbox[j].amount
  <2> SUFFICES ASSUME NEW j \in DOMAIN outbox PROVE outbox'[j].amount = outbox[j].amount
    OBVIOUS
  <2>1. outbox[j] \in OutboxItem
    BY DEF OutInv
  <2> QED
    BY <1>1, <2>1 DEF MarkReleased, OutboxItem
<1>3. DOMAIN outbox' = DOMAIN outbox
  BY <1>1
<1>4. ItemAmounts' = ItemAmounts /\ ReleasedMessages' = ReleasedMessages
  BY <1>1, <1>2, <1>3 DEF ItemAmounts, ReleasedMessages
<1> QED
  BY <1>1, <1>4, QuietBooks

(* Writing an item releases its message or leaves the released ones alone. *)
LEMMA WriteItem ==
  ASSUME InTypes, NEW m \in Messages, NEW item, inbox' = [inbox EXCEPT ![m] = item]
  PROVE  /\ (item.releaseStatus = "Released" <=> inbox[m].releaseStatus = "Released")
              => ReleasedMessages' = ReleasedMessages
         /\ item.releaseStatus = "Released" => ReleasedMessages' = ReleasedMessages \cup {m}
<1>1. inbox'[m] = item /\ \A n \in Messages : n # m => inbox'[n] = inbox[n]
  BY DEF InTypes
<1> QED
  BY <1>1 DEF ReleasedMessages

LEMMA RedeemBooks ==
  ASSUME RateInv, InTypes, BooksInv, NEW t \in Transceivers, NEW manager \in Managers,
         NEW m \in Messages, Redeem(t, manager, m)
  PROVE  BooksInv'
<1>1. /\ CanRedeem(t, manager, m) /\ inbox' = [inbox EXCEPT ![m] = Redeemed(m, t)]
      /\ held' = held /\ outbox' = outbox
  BY DEF Redeem, tokenVars, outVars
<1>2. Redeemed(m, t).releaseStatus = "Released" <=> inbox[m].releaseStatus = "Released"
  BY <1>1, RedeemedItem
<1>3. ReleasedMessages' = ReleasedMessages /\ ItemAmounts' = ItemAmounts
  BY <1>1, <1>2, WriteItem DEF ItemAmounts
<1> QED
  BY <1>1, <1>3, QuietBooks

LEMMA SdkRedeemBooks ==
  ASSUME RateInv, OutInv, InTypes, TokenInv, BooksInv, NEW t \in Transceivers,
         NEW manager \in Managers, NEW m \in Messages, SdkRedeem(t, manager, m)
  PROVE  BooksInv'
<1>1. CanRedeem(t, manager, m) /\ inbox[m].releaseStatus # "Released" /\ outbox' = outbox
  BY DEF SdkRedeem, outVars
<1>2. Redeemed(m, t) \in InboxItem /\ Redeemed(m, t).releaseStatus # "Released"
  BY <1>1, RedeemedItem
<1>3. CASE CanRelease(Redeemed(m, t))
  <2>1. /\ inbox' = [inbox EXCEPT ![m] = TryRelease(Redeemed(m, t))]
        /\ held' = held - m.amount
    BY <1>3 DEF SdkRedeem, MintOrUnlock
  <2>2. TryRelease(Redeemed(m, t)).releaseStatus = "Released"
    BY <1>2, TriedItem
  <2>3. m \notin ReleasedMessages /\ ReleasedMessages' = ReleasedMessages \cup {m}
    BY <1>1, <2>1, <2>2, WriteItem DEF ReleasedMessages
  <2> QED
    BY <1>1, <2>1, <2>3, PayBooks
<1>4. CASE ~CanRelease(Redeemed(m, t))
  <2>1. inbox' = [inbox EXCEPT ![m] = Redeemed(m, t)] /\ held' = held
    BY <1>4 DEF SdkRedeem, tokenVars
  <2>2. ReleasedMessages' = ReleasedMessages /\ ItemAmounts' = ItemAmounts
    BY <1>1, <1>2, <2>1, WriteItem DEF ItemAmounts
  <2> QED
    BY <2>1, <2>2, QuietBooks
<1> QED
  BY <1>3, <1>4

LEMMA ReleaseInboundBooks ==
  ASSUME OutInv, InTypes, TokenInv, BooksInv, NEW m \in Messages, ReleaseInbound(m)
  PROVE  BooksInv'
<1>1. /\ inbox' = [inbox EXCEPT ![m] = TryRelease(inbox[m])] /\ held' = held - m.amount
      /\ outbox' = outbox /\ inbox[m].releaseStatus = "ReleaseAfter"
  BY DEF ReleaseInbound, MintOrUnlock, CanRelease, outVars
<1>2. TryRelease(inbox[m]).releaseStatus = "Released"
  BY TriedItem DEF InTypes
<1>3. m \notin ReleasedMessages /\ ReleasedMessages' = ReleasedMessages \cup {m}
  BY <1>1, <1>2, WriteItem DEF ReleasedMessages
<1> QED
  BY <1>1, <1>3, PayBooks

LEMMA BooksStep ==
  ASSUME RateInv, OutInv, InInv, TokenInv, BooksInv, [Next]_vars
  PROVE  BooksInv'
<1>0. InTypes
  BY DEF InInv
<1>1. CASE UNCHANGED <<outbox, inbox, held>>
  BY <1>1 DEF BooksInv, Conservation, ItemAmounts, ReleasedMessages
<1>2. AdminNext => UNCHANGED <<outbox, inbox, held>>
  BY DEF AdminNext, RegisterTransceiver, DeregisterTransceiver, SetThreshold, SetPaused,
         SetPeer, SetOutboundLimit, SetInboundLimit, outVars, inVars, tokenVars
<1>3. ASSUME NEW t \in Transceivers, NEW manager \in Managers, NEW m \in Messages,
             ReceiveMessage(t, manager, m)
      PROVE  UNCHANGED <<outbox, inbox, held>>
  BY <1>3 DEF ReceiveMessage, outVars, tokenVars
<1>4. Tick \/ UNCHANGED vars => UNCHANGED <<outbox, inbox, held>>
  BY DEF Tick, vars, outVars, inVars, tokenVars
<1> QED
  BY <1>0, <1>1, <1>2, <1>3, <1>4, TransferBooks, ReleaseOutboundBooks, RedeemBooks,
     SdkRedeemBooks, ReleaseInboundBooks, NextCases

LEMMA InitBooks == Init => BooksInv
<1> SUFFICES ASSUME Init PROVE BooksInv
  OBVIOUS
<1>1. DOMAIN ItemAmounts = {} /\ ReleasedMessages = {}
  BY DEF Init, ItemAmounts, ReleasedMessages, NewInboxItem
<1>2. SumFunction(ItemAmounts) = 0
  BY <1>1, SumEmpty
<1>3. SumOfAmounts(ReleasedMessages) = 0 /\ IsFiniteSet(ReleasedMessages)
  BY <1>1, AmountsEmpty, FS_EmptySet
<1> QED
  BY <1>2, <1>3 DEF Init, BooksInv, Conservation

(* The books balance: with any number of items and messages, and whichever mixture of
   bundles and single instructions moves them, the custody (or what was burned less
   minted) is what the outbox took in less what released items gave out
   (transfer.rs, release_inbound.rs). *)
THEOREM BooksBalance == Spec => []Conservation
<1> DEFINE IndInv == RateInv /\ SettingsInv /\ OutInv /\ InInv /\ TokenInv /\ BooksInv
<1>1. Init => IndInv
  BY InitRates, InitSettings, InitOut, InitIn, InitTokens, InitBooks
<1>2. IndInv /\ [Next]_vars => IndInv'
  BY RateStep, SettingsStep, OutStep, InStep, TokenStep, BooksStep
<1>3. IndInv => Conservation
  BY DEF BooksInv
<1> QED
  BY <1>1, <1>2, <1>3, PTL DEF Spec

--------------------------------------------------------------------------------
\* The inbox implements what every manager promises.

(* What the abstract specification sees of the inbox. *)
VotesNow == [m \in Messages |-> inbox[m].votes]
StatusNow == [m \in Messages |-> StatusOf(inbox[m])]

LEMMA ItemStatus ==
  ASSUME NEW item \in InboxItem
  PROVE  /\ StatusOf(item) = "NotApproved" <=> item.releaseStatus = "NotApproved"
         /\ StatusOf(item) = "Queued" <=> item.releaseStatus = "ReleaseAfter"
         /\ StatusOf(item) = "Paid" <=> item.releaseStatus = "Released"
<1>1. item.releaseStatus \in {"NotApproved", "ReleaseAfter", "Released"}
  BY DEF InboxItem
<1> QED
  BY <1>1 DEF StatusOf, StatusName

(* A step that writes one item writes one place of each of the two. *)
LEMMA AbstractUpdate ==
  ASSUME InTypes, NEW m \in Messages, NEW item \in InboxItem,
         inbox' = [inbox EXCEPT ![m] = item]
  PROVE  /\ VotesNow' = [VotesNow EXCEPT ![m] = item.votes]
         /\ StatusNow' = [StatusNow EXCEPT ![m] = StatusOf(item)]
<1>1. inbox \in [Messages -> InboxItem]
  BY DEF InTypes
<1>2. inbox'[m] = item /\ \A n \in Messages : n # m => inbox'[n] = inbox[n]
  BY <1>1
<1>3. /\ VotesNow'[m] = item.votes
      /\ \A n \in Messages : n # m => VotesNow'[n] = VotesNow[n]
  BY <1>2 DEF VotesNow
<1>4. StatusNow' = [n \in Messages |-> IF n = m THEN StatusOf(item) ELSE StatusOf(inbox[n])]
  <2>1. StatusNow' = [n \in Messages |-> StatusName[inbox'[n].releaseStatus]]
    BY DEF StatusNow, StatusOf, StatusName
  <2>2. StatusNow = [n \in Messages |-> StatusName[inbox[n].releaseStatus]]
    BY DEF StatusNow, StatusOf
  <2> QED
    BY <1>2, <2>1, <2>2 DEF StatusOf
<1>5. VotesNow' = [n \in Messages |-> IF n = m THEN item.votes ELSE inbox[n].votes]
  BY <1>2 DEF VotesNow
<1>6. VotesNow' = [VotesNow EXCEPT ![m] = item.votes]
  BY <1>5 DEF VotesNow
<1>7. StatusNow' = [StatusNow EXCEPT ![m] = StatusOf(item)]
  <2> HIDE DEF StatusOf
  <2> QED
    BY <1>4 DEF StatusNow
<1> QED
  BY <1>6, <1>7

LEMMA SameCardinality ==
  ASSUME NEW S
  PROVE  Arrivals!Cardinality(S) = Cardinality(S)
BY DEF Arrivals!Cardinality, Cardinality

LEMMA VoteImplements ==
  ASSUME InTypes, NEW t \in enabled, NEW m \in Messages, NEW item \in InboxItem,
         inbox' = [inbox EXCEPT ![m] = item],
         item.votes = inbox[m].votes \cup {t},
         UNCHANGED <<enabled, threshold>>,
         \/ item.releaseStatus = inbox[m].releaseStatus
         \/ /\ inbox[m].releaseStatus = "NotApproved"
            /\ Reached(Voted(m, t))
            /\ item.releaseStatus \in {"ReleaseAfter", "Released"}
         \/ /\ inbox[m].releaseStatus = "ReleaseAfter"
            /\ item.releaseStatus = "Released"
  PROVE  Arrivals!Vote(m, t)
<1>1. inbox[m] \in InboxItem
  BY DEF InTypes
<1>2. /\ VotesNow' = [VotesNow EXCEPT ![m] = VotesNow[m] \cup {t}]
      /\ StatusNow' = [StatusNow EXCEPT ![m] = StatusOf(item)]
      /\ StatusNow[m] = StatusOf(inbox[m])
      /\ VotesNow'[m] = inbox[m].votes \cup {t}
  <2>1. /\ VotesNow' = [VotesNow EXCEPT ![m] = item.votes]
        /\ StatusNow' = [StatusNow EXCEPT ![m] = StatusOf(item)]
    BY AbstractUpdate
  <2>2. VotesNow[m] = inbox[m].votes /\ StatusNow[m] = StatusOf(inbox[m])
    BY DEF VotesNow, StatusNow
  <2>3. m \in DOMAIN VotesNow
    BY DEF VotesNow
  <2> QED
    BY <2>1, <2>2, <2>3
<1>3. CASE item.releaseStatus = inbox[m].releaseStatus
  <2>1. StatusOf(item) = StatusNow[m]
    BY <1>2, <1>3 DEF StatusOf
  <2>2. StatusNow' = StatusNow
    BY <1>2, <2>1 DEF StatusNow
  <2> QED
    BY <1>2, <2>2 DEF Arrivals!Vote, VotesNow, StatusNow
<1>4. CASE /\ inbox[m].releaseStatus = "NotApproved"
           /\ Reached(Voted(m, t))
           /\ item.releaseStatus \in {"ReleaseAfter", "Released"}
  <2>1. StatusNow[m] = "NotApproved" /\ StatusOf(item) \in {"Queued", "Paid"}
    BY <1>1, <1>2, <1>4, ItemStatus
  <2>0. \E s \in {"Queued", "Paid"} : StatusNow' = [StatusNow EXCEPT ![m] = s]
    BY <1>2, <2>1
  <2>2. Voted(m, t).votes = inbox[m].votes \cup {t}
    BY <1>1 DEF Voted, InboxItem
  <2>3. Cardinality(VotesNow'[m] \cap enabled) >= threshold
    BY <1>2, <1>4, <2>2 DEF Reached, EnabledVotes
  <2>4. Arrivals!Quorum(VotesNow'[m])
    BY <2>3, SameCardinality DEF Arrivals!Quorum
  <2> QED
    BY <1>2, <2>0, <2>1, <2>4 DEF Arrivals!Vote, Arrivals!Executed, VotesNow, StatusNow
<1>5. CASE inbox[m].releaseStatus = "ReleaseAfter" /\ item.releaseStatus = "Released"
  <2>1. StatusNow[m] = "Queued" /\ StatusOf(item) = "Paid"
    BY <1>1, <1>2, <1>5, ItemStatus
  <2> QED
    BY <1>2, <2>1 DEF Arrivals!Vote, VotesNow, StatusNow
<1> QED
  BY <1>3, <1>4, <1>5

LEMMA RedeemImplements ==
  ASSUME RateInv, InTypes, NEW t \in Transceivers, NEW manager, NEW m \in Messages,
         Redeem(t, manager, m)
  PROVE  Arrivals!Vote(m, t)
<1>1. CanRedeem(t, manager, m) /\ inbox' = [inbox EXCEPT ![m] = Redeemed(m, t)]
      /\ UNCHANGED <<enabled, threshold>> /\ t \in enabled
  BY DEF Redeem, CanRedeem, configVars
<1>2. /\ Redeemed(m, t) \in InboxItem
      /\ Redeemed(m, t).votes = inbox[m].votes \cup {t}
      /\ \/ Redeemed(m, t).releaseStatus = inbox[m].releaseStatus
         \/ /\ inbox[m].releaseStatus = "NotApproved"
            /\ Reached(Voted(m, t))
            /\ Redeemed(m, t).releaseStatus = "ReleaseAfter"
  BY <1>1, RedeemedItem
<1> QED
  BY <1>1, <1>2, VoteImplements

LEMMA SdkRedeemImplements ==
  ASSUME RateInv, InTypes, NEW t \in Transceivers, NEW manager, NEW m \in Messages,
         SdkRedeem(t, manager, m)
  PROVE  Arrivals!Vote(m, t)
<1> DEFINE item == Redeemed(m, t)
<1>1. CanRedeem(t, manager, m) /\ UNCHANGED <<enabled, threshold>> /\ t \in enabled
  BY DEF SdkRedeem, CanRedeem, configVars
<1>2. /\ item \in InboxItem
      /\ item.votes = inbox[m].votes \cup {t}
      /\ \/ item.releaseStatus = inbox[m].releaseStatus
         \/ /\ inbox[m].releaseStatus = "NotApproved"
            /\ Reached(Voted(m, t))
            /\ item.releaseStatus = "ReleaseAfter"
  BY <1>1, RedeemedItem
<1>3. CASE CanRelease(item)
  <2>1. /\ TryRelease(item) \in InboxItem
        /\ TryRelease(item).votes = inbox[m].votes \cup {t}
        /\ TryRelease(item).releaseStatus = "Released"
    BY <1>2, TriedItem
  <2>2. item.releaseStatus = "ReleaseAfter"
    BY <1>3 DEF CanRelease
  <2>3. inbox' = [inbox EXCEPT ![m] = TryRelease(item)]
    BY <1>3 DEF SdkRedeem
  <2> QED
    BY <1>1, <1>2, <2>1, <2>2, <2>3, VoteImplements
<1>4. CASE ~CanRelease(item)
  <2>1. inbox' = [inbox EXCEPT ![m] = item]
    BY <1>4 DEF SdkRedeem
  <2> QED
    BY <1>1, <1>2, <2>1, VoteImplements
<1> QED
  BY <1>3, <1>4

LEMMA ReleaseImplements ==
  ASSUME InTypes, NEW m \in Messages, ReleaseInbound(m)
  PROVE  Arrivals!Complete(m)
<1>1. /\ inbox[m] \in InboxItem
      /\ inbox[m].releaseStatus = "ReleaseAfter"
      /\ inbox' = [inbox EXCEPT ![m] = TryRelease(inbox[m])]
      /\ UNCHANGED <<enabled, threshold>>
  BY DEF InTypes, ReleaseInbound, CanRelease, configVars
<1>2. /\ TryRelease(inbox[m]) \in InboxItem
      /\ TryRelease(inbox[m]).votes = inbox[m].votes
      /\ TryRelease(inbox[m]).releaseStatus = "Released"
  BY <1>1, TriedItem
<1>3. StatusOf(inbox[m]) = "Queued" /\ StatusOf(TryRelease(inbox[m])) = "Paid"
  BY <1>1, <1>2, ItemStatus
<1>4. /\ VotesNow' = [VotesNow EXCEPT ![m] = inbox[m].votes]
      /\ StatusNow' = [StatusNow EXCEPT ![m] = "Paid"]
  BY <1>1, <1>2, <1>3, AbstractUpdate
<1>5. StatusNow[m] = "Queued" /\ VotesNow' = VotesNow
  BY <1>3, <1>4 DEF StatusNow, VotesNow
<1> QED
  BY <1>1, <1>4, <1>5 DEF Arrivals!Complete, VotesNow, StatusNow

(* Steps that leave the inbox alone are the administrator's or no step at all. *)
LEMMA QuietImplements ==
  ASSUME RegistryInv', inbox' = inbox
  PROVE  Arrivals!Administer
BY DEF RegistryInv, Arrivals!Administer

(* The program's inbox items live the life every manager promises of a message: votes
   and status never go back, an approval follows a quorum, one message at a time. *)
THEOREM InboxRefinement == Spec => ImplementsInboundTransfers
<1> DEFINE IndInv == RateInv /\ SettingsInv /\ InInv
<1>1. Init => Arrivals!Init
  <2> SUFFICES ASSUME Init PROVE Arrivals!Init
    OBVIOUS
  <2>1. NewInboxItem \in InboxItem /\ NewInboxItem.votes = {}
        /\ NewInboxItem.releaseStatus = "NotApproved"
    BY DEF NewInboxItem, InboxItem
  <2>2. StatusOf(NewInboxItem) = "NotApproved"
    BY <2>1, ItemStatus
  <2> QED
    BY <2>1, <2>2 DEF Init, Arrivals!Init
<1>2. IndInv /\ IndInv' /\ [Next]_vars => [Arrivals!Next]_(Arrivals!vars)
  <2> SUFFICES ASSUME IndInv, IndInv', [Next]_vars PROVE Arrivals!Next
    OBVIOUS
  <2>0. InTypes /\ RegistryInv'
    BY DEF InInv, SettingsInv
  <2>1. CASE UNCHANGED inbox
    BY <2>0, <2>1, QuietImplements DEF Arrivals!Next
  <2>2. AdminNext => UNCHANGED inbox
    BY DEF AdminNext, RegisterTransceiver, DeregisterTransceiver, SetThreshold, SetPaused,
           SetPeer, SetOutboundLimit, SetInboundLimit, inVars
  <2>3. ASSUME NEW user \in Users, NEW amount \in Amounts, NEW chain \in Chains,
               NEW recipient \in Users, NEW queue \in BOOLEAN,
               NEW posting \in SUBSET Transceivers,
               TransferPosting(user, amount, chain, recipient, queue, posting)
        PROVE  UNCHANGED inbox
    BY <2>3 DEF TransferPosting, inVars
  <2>4. ASSUME NEW t \in Transceivers, NEW i \in 1..Len(outbox), ReleaseOutbound(t, i)
        PROVE  UNCHANGED inbox
    BY <2>4 DEF ReleaseOutbound, inVars
  <2>5. ASSUME NEW t \in Transceivers, NEW manager \in Managers, NEW m \in Messages,
               ReceiveMessage(t, manager, m)
        PROVE  UNCHANGED inbox
    BY <2>5 DEF ReceiveMessage
  <2>6. ASSUME NEW t \in Transceivers, NEW manager \in Managers, NEW m \in Messages,
               Redeem(t, manager, m) \/ SdkRedeem(t, manager, m)
        PROVE  Arrivals!Next
    BY <2>0, <2>6, RedeemImplements, SdkRedeemImplements DEF Arrivals!Next
  <2>7. ASSUME NEW m \in Messages, ReleaseInbound(m)
        PROVE  Arrivals!Next
    BY <2>0, <2>7, ReleaseImplements DEF Arrivals!Next
  <2>8. Tick \/ UNCHANGED vars => UNCHANGED inbox
    BY DEF Tick, vars, inVars
  <2> QED
    BY <2>1, <2>2, <2>3, <2>4, <2>5, <2>6, <2>7, <2>8, NextCases
<1>3. Init => IndInv
  BY InitRates, InitSettings, InitIn
<1>4. IndInv /\ [Next]_vars => IndInv'
  BY RateStep, SettingsStep, InStep
<1> QED
  BY <1>1, <1>2, <1>3, <1>4, PTL DEF Spec, ImplementsInboundTransfers, Arrivals!Spec

--------------------------------------------------------------------------------
\* Flows and limits.

(* A vote that approves charges the limit or puts the release a Duration off. *)
LEMMA VoteCharges ==
  ASSUME RateInv, InTypes, NEW t \in Transceivers, NEW m \in Messages, NEW manager,
         CanRedeem(t, manager, m), ChargeRedeem(m, t), Reached(Voted(m, t))
  PROVE  \/ ChargedInbound(m.source, m.amount)
         \/ /\ Redeemed(m, t).releaseStatus = "ReleaseAfter"
            /\ Redeemed(m, t).releaseAfter = now + Duration
<1>1. CASE Fits(inboxRateLimit[m.source], m.amount, now)
  BY <1>1 DEF ChargeRedeem, ChargedInbound
<1>2. CASE ~Fits(inboxRateLimit[m.source], m.amount, now)
  BY <1>2, RedeemedItem DEF ReleaseTime
<1> QED
  BY <1>1, <1>2

LEMMA RedeemFollows ==
  ASSUME RateInv, InTypes, NEW t \in Transceivers, NEW manager, NEW n \in Messages,
         Redeem(t, manager, n), NEW m \in Messages
  PROVE  ApprovalCharged(m) /\ PaidInTime(m)
<1>1. /\ CanRedeem(t, manager, n) /\ ChargeRedeem(n, t) /\ payouts' = payouts
      /\ inbox' = [inbox EXCEPT ![n] = Redeemed(n, t)]
      /\ inbox \in [Messages -> InboxItem]
      /\ now + Duration \in Nat
  BY SolanaRateLimitAssumption DEF Redeem, InTypes, RateInv
<1>2. ApprovalCharged(m)
  <2> SUFFICES ASSUME inbox[m].releaseStatus = "NotApproved",
                      inbox'[m].releaseStatus # "NotApproved"
               PROVE  \/ ChargedInbound(m.source, m.amount)
                      \/ /\ inbox'[m].releaseStatus = "ReleaseAfter"
                         /\ inbox'[m].releaseAfter >= now + Duration
    BY DEF ApprovalCharged
  <2>1. n = m /\ inbox'[m] = Redeemed(m, t)
    BY <1>1
  <2>2. Reached(Voted(m, t))
    BY <1>1, <2>1, RedeemedItem
  <2>3. \/ ChargedInbound(m.source, m.amount)
        \/ /\ Redeemed(m, t).releaseStatus = "ReleaseAfter"
           /\ Redeemed(m, t).releaseAfter = now + Duration
    BY <1>1, <2>1, <2>2, VoteCharges
  <2> QED
    BY <1>1, <2>1, <2>3
<1> QED
  BY <1>1, <1>2 DEF PaidInTime

LEMMA SdkRedeemFollows ==
  ASSUME RateInv, InTypes, NEW t \in Transceivers, NEW manager, NEW n \in Messages,
         SdkRedeem(t, manager, n), NEW m \in Messages
  PROVE  ApprovalCharged(m) /\ PaidInTime(m)
<1> DEFINE item == Redeemed(n, t)
<1>1. /\ CanRedeem(t, manager, n) /\ ChargeRedeem(n, t)
      /\ inbox \in [Messages -> InboxItem] /\ payouts \in [Messages -> Nat]
      /\ now \in Nat /\ Duration \in Nat \ {0}
  BY SolanaRateLimitAssumption DEF SdkRedeem, InTypes, RateInv
<1>2. \/ /\ CanRelease(item)
         /\ inbox' = [inbox EXCEPT ![n] = TryRelease(item)]
         /\ payouts' = [payouts EXCEPT ![n] = @ + 1]
      \/ /\ ~CanRelease(item)
         /\ inbox' = [inbox EXCEPT ![n] = item]
         /\ payouts' = payouts
  BY DEF SdkRedeem, MintOrUnlock
<1>3. CanRelease(item) => item.releaseStatus = "ReleaseAfter" /\ item.releaseAfter <= now
  BY DEF CanRelease
<1>4. CASE n = m
  <2>1. CASE Reached(Voted(m, t))
    <3>1. inbox[m].releaseStatus = "NotApproved"
      BY <1>1, <1>4, <2>1, RedeemedItem
    <3>2. \/ ChargedInbound(m.source, m.amount)
          \/ item.releaseStatus = "ReleaseAfter" /\ item.releaseAfter = now + Duration
      BY <1>1, <1>4, <2>1, VoteCharges
    <3>3. PaidInTime(m)
      BY <3>1 DEF PaidInTime
    <3>4. CASE ChargedInbound(m.source, m.amount)
      BY <3>3, <3>4 DEF ApprovalCharged
    <3>5. CASE item.releaseStatus = "ReleaseAfter" /\ item.releaseAfter = now + Duration
      <4>1. ~CanRelease(item)
        BY <1>1, <1>3, <3>5
      <4>2. inbox'[m] = item
        BY <1>1, <1>2, <1>4, <4>1
      <4> HIDE DEF item
      <4>3. ApprovalCharged(m)
        BY <1>1, <3>5, <4>2 DEF ApprovalCharged
      <4> QED
        BY <3>3, <4>3
    <3> QED
      BY <3>2, <3>4, <3>5
  <2>2. CASE ~Reached(Voted(m, t))
    <3>1. /\ item.releaseStatus = inbox[m].releaseStatus
          /\ item.releaseAfter = inbox[m].releaseAfter
      BY <1>1, <1>4, <2>2, RedeemedItem
    <3> HIDE DEF item
    <3>2. PaidInTime(m)
      BY <1>1, <1>2, <1>3, <3>1 DEF PaidInTime
    <3>3. ApprovalCharged(m)
      BY <1>1, <1>2, <1>3, <1>4, <3>1 DEF ApprovalCharged
    <3> QED
      BY <3>2, <3>3
  <2> QED
    BY <2>1, <2>2
<1>5. CASE n # m
  <2>1. inbox'[m] = inbox[m] /\ payouts'[m] = payouts[m]
    BY <1>1, <1>2, <1>5
  <2> QED
    BY <2>1 DEF ApprovalCharged, PaidInTime
<1> QED
  BY <1>4, <1>5

LEMMA ReleaseFollows ==
  ASSUME InTypes, NEW n \in Messages, ReleaseInbound(n), NEW m \in Messages
  PROVE  ApprovalCharged(m) /\ PaidInTime(m)
<1>1. /\ inbox' = [inbox EXCEPT ![n] = TryRelease(inbox[n])]
      /\ inbox[n].releaseStatus = "ReleaseAfter" /\ inbox[n].releaseAfter <= now
      /\ payouts' = [payouts EXCEPT ![n] = @ + 1]
      /\ inbox \in [Messages -> InboxItem] /\ payouts \in [Messages -> Nat]
  BY DEF ReleaseInbound, CanRelease, MintOrUnlock, InTypes
<1>2. CASE n = m
  BY <1>1, <1>2 DEF ApprovalCharged, PaidInTime
<1>3. CASE n # m
  BY <1>1, <1>3 DEF ApprovalCharged, PaidInTime
<1> QED
  BY <1>2, <1>3

LEMMA TransferFollows ==
  ASSUME RateInv, OutInv,
         NEW user \in Users, NEW amount \in Amounts, NEW chain \in Chains,
         NEW recipient \in Users, NEW queue \in BOOLEAN, NEW posting \in SUBSET Transceivers,
         TransferPosting(user, amount, chain, recipient, queue, posting),
         NEW i \in DOMAIN outbox' \ DOMAIN outbox
  PROVE  ItemCharged(outbox'[i])
<1>1. PICK item :
        /\ outbox' = Append(outbox, item)
        /\ item.amount = amount /\ item.recipientChain = chain
        /\ item.releaseTimestamp = ReleaseTime(FitsOutbound(amount))
  <2> DEFINE item == [amount |-> amount, sender |-> user,
                      recipientChain |-> chain, recipientManager |-> peers[chain],
                      recipient |-> recipient,
                      releaseTimestamp |-> ReleaseTime(FitsOutbound(amount)),
                      released |-> posting]
  <2>1. outbox' = Append(outbox, item)
    BY DEF TransferPosting, InsertIntoOutbox
  <2>2. /\ item.amount = amount /\ item.recipientChain = chain
        /\ item.releaseTimestamp = ReleaseTime(FitsOutbound(amount))
    OBVIOUS
  <2> HIDE DEF item
  <2> QED
    BY <2>1, <2>2
<1>2. outbox'[i] = item
  BY <1>1 DEF OutInv
<1>3. CASE FitsOutbound(amount)
  BY <1>1, <1>2, <1>3 DEF TransferPosting, InsertIntoOutbox, ItemCharged, ChargedOutbound
<1>4. CASE ~FitsOutbound(amount)
  <2>1. outbox'[i].releaseTimestamp = now + Duration
    BY <1>1, <1>2, <1>4 DEF ReleaseTime
  <2> QED
    BY <2>1, SolanaRateLimitAssumption DEF ItemCharged, RateInv
<1> QED
  BY <1>3, <1>4

(* Everything approved or taken into the outbox is charged to its limit and given back
   to the other one, or waits a full Duration; nothing queued is paid early. *)
THEOREM LimitsHold == Spec => FlowsAreCharged
<1> DEFINE IndInv == RateInv /\ SettingsInv /\ OutInv /\ InInv
<1>1. IndInv /\ [Next]_vars
        => /\ \A m \in Messages : ApprovalCharged(m) /\ PaidInTime(m)
           /\ \A i \in DOMAIN outbox' \ DOMAIN outbox : ItemCharged(outbox'[i])
  <2> SUFFICES ASSUME IndInv, [Next]_vars
               PROVE  /\ \A m \in Messages : ApprovalCharged(m) /\ PaidInTime(m)
                      /\ \A i \in DOMAIN outbox' \ DOMAIN outbox : ItemCharged(outbox'[i])
    OBVIOUS
  <2>0. InTypes
    BY DEF InInv
  <2>1. UNCHANGED <<inbox, payouts>> => \A m \in Messages : ApprovalCharged(m) /\ PaidInTime(m)
    BY DEF ApprovalCharged, PaidInTime
  <2>2. DOMAIN outbox' = DOMAIN outbox
          => \A i \in DOMAIN outbox' \ DOMAIN outbox : ItemCharged(outbox'[i])
    OBVIOUS
  <2>3. AdminNext \/ Tick \/ UNCHANGED vars => UNCHANGED <<inbox, payouts, outbox>>
    BY DEF AdminNext, RegisterTransceiver, DeregisterTransceiver, SetThreshold, SetPaused,
           SetPeer, SetOutboundLimit, SetInboundLimit, Tick, vars, inVars, outVars
  <2>4. ASSUME NEW user \in Users, NEW amount \in Amounts, NEW chain \in Chains,
               NEW recipient \in Users, NEW queue \in BOOLEAN,
               NEW posting \in SUBSET Transceivers,
               TransferPosting(user, amount, chain, recipient, queue, posting)
        PROVE  /\ UNCHANGED <<inbox, payouts>>
               /\ \A i \in DOMAIN outbox' \ DOMAIN outbox : ItemCharged(outbox'[i])
    BY <2>4, TransferFollows DEF TransferPosting, inVars
  <2>5. ASSUME NEW t \in Transceivers, NEW i \in 1..Len(outbox), ReleaseOutbound(t, i)
        PROVE  UNCHANGED <<inbox, payouts>> /\ DOMAIN outbox' = DOMAIN outbox
    BY <2>5 DEF ReleaseOutbound, inVars
  <2>6. ASSUME NEW t \in Transceivers, NEW manager \in Managers, NEW m \in Messages,
               ReceiveMessage(t, manager, m)
        PROVE  UNCHANGED <<inbox, payouts, outbox>>
    BY <2>6 DEF ReceiveMessage, outVars
  <2>7. ASSUME NEW t \in Transceivers, NEW manager \in Managers, NEW n \in Messages,
               Redeem(t, manager, n) \/ SdkRedeem(t, manager, n)
        PROVE  UNCHANGED outbox /\ \A m \in Messages : ApprovalCharged(m) /\ PaidInTime(m)
    <3>1. UNCHANGED outbox
      BY <2>7 DEF Redeem, SdkRedeem, outVars
    <3> QED
      BY <2>0, <2>7, <3>1, RedeemFollows, SdkRedeemFollows
  <2>8. ASSUME NEW n \in Messages, ReleaseInbound(n)
        PROVE  UNCHANGED outbox /\ \A m \in Messages : ApprovalCharged(m) /\ PaidInTime(m)
    <3>1. UNCHANGED outbox
      BY <2>8 DEF ReleaseInbound, outVars
    <3> QED
      BY <2>0, <2>8, <3>1, ReleaseFollows
  <2> QED
    BY <2>1, <2>2, <2>3, <2>4, <2>5, <2>6, <2>7, <2>8, NextCases
<1>2. IndInv /\ [Next]_vars => [FlowsCharged]_vars
  BY <1>1 DEF FlowsCharged
<1>3. Init => IndInv
  BY InitRates, InitSettings, InitOut, InitIn
<1>4. IndInv /\ [Next]_vars => IndInv'
  BY RateStep, SettingsStep, OutStep, InStep
<1> QED
  BY <1>2, <1>3, <1>4, PTL DEF Spec, FlowsAreCharged

================================================================================
