------------------------------ MODULE SuiNttProofs ------------------------------
(***************************************************************************)
(* What the Sui manager guarantees for any number of transceivers, chains, *)
(* messages and items, and for any trimming.  As for the Solana program,   *)
(* the invariant is proved in groups that touch different variables: the   *)
(* limits, the settings, the outbox and the inbox.                         *)
(***************************************************************************)
EXTENDS SuiNtt, SumTheorems

--------------------------------------------------------------------------------
\* The limits.

LEMMA UntrimNat ==
  ASSUME NEW amount \in Nat
  PROVE  Untrim(amount) \in Nat
BY SuiAssumption DEF Untrim

(* A limiter whose books are in order at time t. *)
InOrder(rl, t) ==
    /\ rl \in RateLimitState
    /\ rl.lastTxTimestamp <= t

LEMMA CapacityTypes ==
  ASSUME NEW t \in Nat, NEW rl, InOrder(rl, t)
  PROVE  CapacityAt(rl, t) \in 0..MaxU64
<1> DEFINE fill == ((t - rl.lastTxTimestamp) * rl.limit) \div Duration
<1>1. /\ rl.limit \in 0..MaxU64 /\ rl.capacityAtLastTx \in 0..MaxU64
      /\ t - rl.lastTxTimestamp \in Nat
      /\ MaxU64 \in Nat /\ Duration \in Nat \ {0}
  BY SolanaRateLimitAssumption DEF InOrder, RateLimitState
<1>2. (t - rl.lastTxTimestamp) * rl.limit \in Nat
  BY <1>1
<1>3. fill \in Nat
  BY <1>1, <1>2
<1>4. CapacityAt(rl, t) = Lesser(rl.capacityAtLastTx + fill, rl.limit)
  BY DEF CapacityAt
<1> HIDE DEF fill
<1> QED
  BY <1>1, <1>3, <1>4 DEF Lesser

LEMMA NewInOrder ==
  ASSUME NEW t \in Nat, NEW limit \in 0..MaxU64
  PROVE  InOrder(NewRateLimit(limit), t)
BY SolanaRateLimitAssumption DEF InOrder, NewRateLimit, RateLimitState

(* A charge, and a giving back, write the capacity and perhaps the time. *)
LEMMA UpdateInOrder ==
  ASSUME NEW t \in Nat, NEW rl, InOrder(rl, t), NEW capacity \in 0..MaxU64
  PROVE  /\ InOrder([rl EXCEPT !.capacityAtLastTx = capacity], t)
         /\ InOrder([rl EXCEPT !.capacityAtLastTx = capacity, !.lastTxTimestamp = t], t)
<1> DEFINE kept == [rl EXCEPT !.capacityAtLastTx = capacity]
           moved == [rl EXCEPT !.capacityAtLastTx = capacity, !.lastTxTimestamp = t]
<1>1. rl \in RateLimitState /\ rl.lastTxTimestamp <= t
  BY DEF InOrder
<1>2. kept \in RateLimitState /\ moved \in RateLimitState
  BY <1>1 DEF RateLimitState
<1>3. kept.lastTxTimestamp = rl.lastTxTimestamp /\ moved.lastTxTimestamp = t
  BY <1>1 DEF RateLimitState
<1> HIDE DEF kept, moved
<1>4. InOrder(kept, t) /\ InOrder(moved, t)
  BY <1>1, <1>2, <1>3 DEF InOrder
<1> QED
  BY <1>4 DEF kept, moved

LEMMA ConsumedInOrder ==
  ASSUME NEW t \in Nat, NEW rl, InOrder(rl, t), NEW amount \in 0..MaxU64, Fits(rl, amount, t)
  PROVE  InOrder(Consumed(rl, amount, t), t)
<1> DEFINE left == CapacityAt(rl, t) - amount
<1>1. left \in 0..MaxU64
  BY CapacityTypes, SolanaRateLimitAssumption DEF Fits
<1>2. Consumed(rl, amount, t) =
        [rl EXCEPT !.capacityAtLastTx = left, !.lastTxTimestamp = t]
  BY DEF Consumed
<1> HIDE DEF left
<1>3. InOrder([rl EXCEPT !.capacityAtLastTx = left, !.lastTxTimestamp = t], t)
  BY <1>1, UpdateInOrder
<1> QED
  BY <1>2, <1>3

(* What a limiter holds after an amount is given back: at most its limit. *)
LEMMA GivenBackInOrder ==
  ASSUME NEW t \in Nat, NEW rl, InOrder(rl, t), NEW amount \in Nat
  PROVE  InOrder(GivenBack(rl, amount, t), t)
<1> DEFINE full == Lesser(Lesser(CapacityAt(rl, t) + amount, MaxU64), rl.limit)
<1>1. full \in 0..MaxU64
  <2>1. CapacityAt(rl, t) \in 0..MaxU64 /\ rl.limit \in 0..MaxU64
    BY CapacityTypes DEF InOrder, RateLimitState
  <2> QED
    BY <2>1, SolanaRateLimitAssumption DEF Lesser
<1>2. GivenBack(rl, amount, t) = [rl EXCEPT !.capacityAtLastTx = full]
  BY DEF GivenBack
<1> HIDE DEF full
<1> QED
  BY <1>1, <1>2, UpdateInOrder

(* The time that stays can only add to what is given back. *)
LEMMA GivenBackIsThere ==
  ASSUME NEW rl, now \in Nat, InOrder(rl, now), NEW amount \in Nat
  PROVE  GetsBack(rl, GivenBack(rl, amount, now), amount)
<1> DEFINE back == GivenBack(rl, amount, now)
           full == Lesser(Lesser(CapacityAt(rl, now) + amount, MaxU64), rl.limit)
           fill == ((now - rl.lastTxTimestamp) * rl.limit) \div Duration
<1>1. /\ rl \in RateLimitState
      /\ rl.limit \in 0..MaxU64 /\ now - rl.lastTxTimestamp \in Nat
      /\ MaxU64 \in Nat /\ Duration \in Nat \ {0}
  BY SolanaRateLimitAssumption DEF InOrder, RateLimitState
<1>2. CapacityAt(rl, now) \in 0..MaxU64
  BY CapacityTypes
<1>3. (now - rl.lastTxTimestamp) * rl.limit \in Nat
  BY <1>1
<1>4. fill \in Nat
  BY <1>1, <1>3
<1>5. full \in Nat /\ full >= Lesser(CapacityAt(rl, now) + amount, rl.limit)
  BY <1>1, <1>2 DEF Lesser
<1>6. back = [rl EXCEPT !.capacityAtLastTx = full]
  BY DEF GivenBack
<1>7. /\ back.capacityAtLastTx = full /\ back.limit = rl.limit
      /\ back.lastTxTimestamp = rl.lastTxTimestamp
  <2> HIDE DEF full, back
  <2> QED
    BY <1>1, <1>6 DEF RateLimitState
<1>8. CapacityAt(back, now) = Lesser(full + fill, rl.limit)
  <2> HIDE DEF full, back
  <2> QED
    BY <1>7 DEF CapacityAt
<1> HIDE DEF full, fill, back
<1>9. Lesser(CapacityAt(rl, now) + amount, rl.limit) <= rl.limit
  BY <1>1, <1>2 DEF Lesser
<1>10. Lesser(CapacityAt(rl, now) + amount, rl.limit) \in Int
  BY <1>1, <1>2 DEF Lesser
<1>11. CapacityAt(back, now) >= Lesser(CapacityAt(rl, now) + amount, rl.limit)
  <2> DEFINE promised == Lesser(CapacityAt(rl, now) + amount, rl.limit)
  <2> HIDE DEF promised
  <2>1. promised \in Int /\ promised <= rl.limit /\ full >= promised
    BY <1>5, <1>9, <1>10 DEF promised
  <2>2. CapacityAt(back, now) >= promised
    BY <1>1, <1>4, <1>5, <1>8, <2>1 DEF Lesser
  <2> QED
    BY <2>2 DEF promised
<1> QED
  BY <1>11 DEF GetsBack, back

LEMMA WithLimitInOrder ==
  ASSUME NEW t \in Nat, NEW rl, InOrder(rl, t), NEW limit \in 0..MaxU64
  PROVE  InOrder(WithLimit(rl, limit, t), t)
<1> DEFINE moved(c) ==
        IF rl.limit > limit
        THEN IF c > rl.limit - limit THEN c - (rl.limit - limit) ELSE 0
        ELSE Lesser(c + (limit - rl.limit), MaxU64)
           full == Lesser(moved(CapacityAt(rl, t)), limit)
<1>1. full \in 0..MaxU64
  <2>1. rl.limit \in 0..MaxU64
    BY DEF InOrder, RateLimitState
  <2>2. ASSUME NEW c \in 0..MaxU64
        PROVE  moved(c) \in Nat
    BY <2>1, <2>2, SolanaRateLimitAssumption DEF Lesser
  <2> HIDE DEF moved
  <2> QED
    BY <2>2, CapacityTypes, SolanaRateLimitAssumption DEF Lesser
<1>2. WithLimit(rl, limit, t) =
        [limit |-> limit, capacityAtLastTx |-> full, lastTxTimestamp |-> t]
  BY DEF WithLimit
<1> HIDE DEF full
<1> QED
  BY <1>1, <1>2 DEF InOrder, RateLimitState

RateInv ==
    /\ now \in Nat
    /\ InOrder(outboxRateLimit, now)
    /\ inboxRateLimit \in [Chains -> RateLimitState]
    /\ \A c \in Chains : InOrder(inboxRateLimit[c], now)

LEMMA InitRates == Init => RateInv
<1> SUFFICES ASSUME Init PROVE RateInv
  OBVIOUS
<1>1. InOrder(NewRateLimit(MaxU64), 1) /\ InOrder(NewRateLimit(0), 1)
  BY NewInOrder, SolanaRateLimitAssumption
<1> QED
  BY <1>1 DEF Init, RateInv, InOrder

(* Every step leaves the limits to the clock, or moves one, or charges what fits to
   one and gives something back to the other. *)
LimitsMoved ==
    \/ UNCHANGED outboxRateLimit /\ UNCHANGED inboxRateLimit
    \/ \E limit \in 0..MaxU64 :
         /\ outboxRateLimit' = WithLimit(outboxRateLimit, limit, now)
         /\ UNCHANGED inboxRateLimit
    \/ \E limit \in 0..MaxU64, c \in Chains :
         /\ \/ inboxRateLimit' = [inboxRateLimit EXCEPT ![c] = WithLimit(@, limit, now)]
            \/ inboxRateLimit' = [inboxRateLimit EXCEPT ![c] = NewRateLimit(limit)]
         /\ UNCHANGED outboxRateLimit

LimitsCharged ==
    \E taken \in 0..MaxU64, back \in Nat, c \in Chains :
      \/ /\ Fits(outboxRateLimit, taken, now)
         /\ outboxRateLimit' = Consumed(outboxRateLimit, taken, now)
         /\ inboxRateLimit' = [inboxRateLimit EXCEPT ![c] = GivenBack(@, back, now)]
      \/ /\ Fits(inboxRateLimit[c], taken, now)
         /\ inboxRateLimit' = [inboxRateLimit EXCEPT ![c] = Consumed(@, taken, now)]
         /\ outboxRateLimit' = GivenBack(outboxRateLimit, back, now)

LEMMA TransferLimits ==
  ASSUME NEW amount \in Amounts, NEW chain \in Chains, ChargeTransfer(amount, chain)
  PROVE  LimitsMoved \/ LimitsCharged
<1>1. amount \in Nat /\ Untrim(amount) \in 0..MaxU64
  BY SuiAssumption, SolanaRateLimitAssumption, UntrimNat
<1>2. CASE FitsOutbound(amount)
  BY <1>1, <1>2 DEF ChargeTransfer, FitsOutbound, LimitsCharged
<1>3. CASE ~FitsOutbound(amount)
  BY <1>3 DEF ChargeTransfer, LimitsMoved, limitVars
<1> QED
  BY <1>2, <1>3

LEMMA RedeemLimits ==
  ASSUME NEW t, NEW manager, NEW m \in Messages, CanRedeem(t, manager, m), ChargeRedeem(m, t)
  PROVE  LimitsMoved \/ LimitsCharged
<1>1. m.amount \in Nat /\ m.source \in Chains
  BY SuiAssumption, SolanaRateLimitAssumption
<1>2. Untrim(m.amount) \in 0..MaxU64 /\ Untrim(m.amount) \in Nat
  BY <1>1, UntrimNat, SolanaRateLimitAssumption DEF CanRedeem
<1> QED
  BY <1>1, <1>2 DEF ChargeRedeem, FitsInbound, LimitsMoved, LimitsCharged, limitVars

(* The owner's calls, as far as the limits go. *)
LEMMA AdminLimits == AdminNext => UNCHANGED now /\ LimitsMoved
<1> SUFFICES ASSUME AdminNext PROVE UNCHANGED now /\ LimitsMoved
  OBVIOUS
<1>0. Limits \subseteq 0..MaxU64
  BY SuiAssumption
<1>1. ASSUME NEW c \in Chains, NEW manager \in Managers, NEW limit \in Limits,
             SetPeer(c, manager, limit)
      PROVE  UNCHANGED now /\ LimitsMoved
  <2>1. CASE peers[c] = NoPeer
    BY <1>0, <1>1, <2>1 DEF SetPeer, LimitsMoved
  <2>2. CASE peers[c] # NoPeer
    BY <1>0, <1>1, <2>2 DEF SetPeer, LimitsMoved
  <2> QED
    BY <2>1, <2>2
<1>2. ASSUME NEW limit \in Limits, SetOutboundRateLimit(limit)
      PROVE  UNCHANGED now /\ LimitsMoved
  BY <1>0, <1>2 DEF SetOutboundRateLimit, LimitsMoved
<1>3. CASE \/ RegisterTransceiver
           \/ \E id \in Transceivers : EnableTransceiver(id) \/ DisableTransceiver(id)
           \/ \E n \in 1..MaxTransceivers : SetThreshold(n)
           \/ \E value \in BOOLEAN : SetPaused(value)
  BY <1>3 DEF RegisterTransceiver, EnableTransceiver, DisableTransceiver, SetThreshold,
              SetPaused, LimitsMoved, limitVars
<1> QED
  BY <1>1, <1>2, <1>3 DEF AdminNext

(* All steps, in a form that the groups below split on. *)
LEMMA NextCases ==
  Next =>
    \/ AdminNext
    \/ \E amount \in Amounts, chain \in Chains, queue \in BOOLEAN,
          posting \in SUBSET Transceivers :
         /\ TransferPosting(amount, chain, queue, posting)
         /\ posting # {} => FitsOutbound(amount)
    \/ \E t \in Transceivers, i \in 1..Len(outbox) : CreateTransceiverMessage(t, i)
    \/ \E t \in Transceivers, manager \in Managers, m \in Messages : Redeem(t, manager, m)
    \/ \E manager \in Managers, m \in Messages : SdkRedeem(manager, m)
    \/ \E m \in Messages : Release(m)
    \/ Tick
<1>1. {SdkTransceiver} \in SUBSET Transceivers /\ {} \in SUBSET Transceivers
  BY SuiAssumption
<1>2. ASSUME NEW amount \in Amounts, NEW chain \in Chains, NEW queue \in BOOLEAN,
             Transfer(amount, chain, queue) \/ SdkTransfer(amount, chain, queue)
      PROVE  \E posting \in SUBSET Transceivers :
               /\ TransferPosting(amount, chain, queue, posting)
               /\ posting # {} => FitsOutbound(amount)
  BY <1>1, <1>2 DEF Transfer, SdkTransfer
<1>3. CASE OutboundNext
  BY <1>2, <1>3 DEF OutboundNext
<1> QED
  BY <1>3 DEF Next, InboundNext

LEMMA LimitEffects ==
  Next => \/ UNCHANGED now /\ (LimitsMoved \/ LimitsCharged)
          \/ now' = now + 1 /\ UNCHANGED outboxRateLimit /\ UNCHANGED inboxRateLimit
<1> SUFFICES ASSUME Next
             PROVE  \/ UNCHANGED now /\ (LimitsMoved \/ LimitsCharged)
                    \/ now' = now + 1 /\ UNCHANGED outboxRateLimit /\ UNCHANGED inboxRateLimit
  OBVIOUS
<1>1. CASE Tick
  BY <1>1 DEF Tick, limitVars
<1>2. ASSUME NEW amount \in Amounts, NEW chain \in Chains, NEW queue \in BOOLEAN,
             NEW posting, TransferPosting(amount, chain, queue, posting)
      PROVE  UNCHANGED now /\ (LimitsMoved \/ LimitsCharged)
  BY <1>2, TransferLimits DEF TransferPosting
<1>3. ASSUME NEW t \in Transceivers, NEW i \in 1..Len(outbox), CreateTransceiverMessage(t, i)
      PROVE  UNCHANGED now /\ LimitsMoved
  BY <1>3 DEF CreateTransceiverMessage, LimitsMoved, limitVars
<1>4. ASSUME NEW t \in Transceivers, NEW manager \in Managers, NEW m \in Messages,
             Redeem(t, manager, m) \/ SdkRedeem(manager, m)
      PROVE  UNCHANGED now /\ (LimitsMoved \/ LimitsCharged)
  BY <1>4, RedeemLimits DEF Redeem, SdkRedeem
<1>5. ASSUME NEW m \in Messages, Release(m)
      PROVE  UNCHANGED now /\ LimitsMoved
  BY <1>5 DEF Release, LimitsMoved, limitVars
<1>6. 0 \in Transceivers
  BY SuiAssumption DEF Transceivers
<1> QED
  BY <1>1, <1>2, <1>3, <1>4, <1>5, <1>6, AdminLimits, NextCases

LEMMA RateStep == RateInv /\ [Next]_vars => RateInv'
<1> SUFFICES ASSUME RateInv, [Next]_vars PROVE RateInv'
  OBVIOUS
<1> USE DEF RateInv
<1>1. CASE UNCHANGED vars
  BY <1>1 DEF vars, limitVars
<1>2. CASE now' = now + 1 /\ UNCHANGED outboxRateLimit /\ UNCHANGED inboxRateLimit
  BY <1>2 DEF InOrder, RateLimitState
<1>3. CASE UNCHANGED now /\ LimitsMoved
  <2>1. ASSUME NEW limit \in 0..MaxU64, NEW c \in Chains
        PROVE  /\ InOrder(WithLimit(outboxRateLimit, limit, now), now)
               /\ InOrder(WithLimit(inboxRateLimit[c], limit, now), now)
               /\ InOrder(NewRateLimit(limit), now)
    BY WithLimitInOrder, NewInOrder
  <2>2. ASSUME NEW limit \in 0..MaxU64
        PROVE  InOrder(WithLimit(outboxRateLimit, limit, now), now)
    BY WithLimitInOrder
  <2> QED
    BY <1>3, <2>1, <2>2 DEF LimitsMoved, InOrder
<1>4. CASE UNCHANGED now /\ LimitsCharged
  <2> PICK taken \in 0..MaxU64, back \in Nat, c \in Chains :
        \/ /\ Fits(outboxRateLimit, taken, now)
           /\ outboxRateLimit' = Consumed(outboxRateLimit, taken, now)
           /\ inboxRateLimit' = [inboxRateLimit EXCEPT ![c] = GivenBack(@, back, now)]
        \/ /\ Fits(inboxRateLimit[c], taken, now)
           /\ inboxRateLimit' = [inboxRateLimit EXCEPT ![c] = Consumed(@, taken, now)]
           /\ outboxRateLimit' = GivenBack(outboxRateLimit, back, now)
    BY <1>4 DEF LimitsCharged
  <2>1. /\ InOrder(GivenBack(outboxRateLimit, back, now), now)
        /\ InOrder(GivenBack(inboxRateLimit[c], back, now), now)
    BY GivenBackInOrder
  <2>2. /\ Fits(outboxRateLimit, taken, now) =>
             InOrder(Consumed(outboxRateLimit, taken, now), now)
        /\ Fits(inboxRateLimit[c], taken, now) =>
             InOrder(Consumed(inboxRateLimit[c], taken, now), now)
    BY ConsumedInOrder
  <2> QED
    BY <1>4, <2>1, <2>2 DEF InOrder
<1> QED
  BY <1>1, <1>2, <1>3, <1>4, LimitEffects

--------------------------------------------------------------------------------
\* The owner's settings.

RegistryInv ==
    /\ nextId \in 0..MaxTransceivers
    /\ enabled \subseteq Transceivers
    /\ threshold \in Nat
    /\ CheckThreshold(enabled, threshold)

SettingsInv ==
    /\ RegistryInv
    /\ paused \in BOOLEAN
    /\ peers \in [Chains -> Managers \cup {NoPeer}]

LEMMA FiniteIds ==
  ASSUME NEW S \in SUBSET Transceivers
  PROVE  IsFiniteSet(S) /\ Cardinality(S) \in Nat
<1>1. IsFiniteSet(Transceivers)
  BY FS_Interval, SuiAssumption DEF Transceivers
<1> QED
  BY <1>1, FS_Subset, FS_CardinalityType

LEMMA RegisterKeeps ==
  ASSUME RegistryInv, RegisterTransceiver
  PROVE  RegistryInv'
<1>1. /\ nextId' = nextId + 1 /\ nextId < MaxTransceivers
      /\ enabled' = enabled \cup {nextId}
      /\ threshold' = IF threshold = 0 THEN 1 ELSE threshold
      /\ CheckThreshold(enabled', threshold')
  BY DEF RegisterTransceiver
<1>2. nextId' \in 0..MaxTransceivers /\ nextId \in Transceivers
  BY <1>1, SuiAssumption DEF RegistryInv, Transceivers
<1>3. enabled' \subseteq Transceivers /\ threshold' \in Nat
  BY <1>1, <1>2 DEF RegistryInv
<1>4. CheckThreshold(enabled, threshold)'
  BY <1>1 DEF CheckThreshold
<1> QED
  BY <1>2, <1>3, <1>4 DEF RegistryInv

LEMMA EnableKeeps ==
  ASSUME RegistryInv, NEW id \in Transceivers, EnableTransceiver(id)
  PROVE  RegistryInv'
BY DEF RegistryInv, EnableTransceiver, CheckThreshold

LEMMA DisableKeeps ==
  ASSUME RegistryInv, NEW id \in Transceivers, DisableTransceiver(id)
  PROVE  RegistryInv'
<1>1. enabled \ {id} \in SUBSET Transceivers
  BY DEF RegistryInv
<1>2. Cardinality(enabled \ {id}) \in Nat
  BY <1>1, FiniteIds
<1> QED
  BY <1>1, <1>2 DEF RegistryInv, DisableTransceiver, CheckThreshold

LEMMA SettingsStep == SettingsInv /\ [Next]_vars => SettingsInv'
<1> SUFFICES ASSUME SettingsInv, [Next]_vars PROVE SettingsInv'
  OBVIOUS
<1> USE DEF SettingsInv
<1>1. CASE UNCHANGED configVars
  BY <1>1 DEF configVars, RegistryInv, CheckThreshold
<1>2. CASE AdminNext
  <2>1. CASE RegisterTransceiver
    BY <2>1, RegisterKeeps DEF RegisterTransceiver
  <2>2. ASSUME NEW id \in Transceivers, EnableTransceiver(id) \/ DisableTransceiver(id)
        PROVE  SettingsInv'
    BY <2>2, EnableKeeps, DisableKeeps DEF EnableTransceiver, DisableTransceiver
  <2>3. ASSUME NEW n \in 1..MaxTransceivers, SetThreshold(n)
        PROVE  SettingsInv'
    BY <2>3, SuiAssumption DEF SetThreshold, RegistryInv, CheckThreshold
  <2>4. ASSUME NEW value \in BOOLEAN, SetPaused(value)
        PROVE  SettingsInv'
    BY <2>4 DEF SetPaused, RegistryInv, CheckThreshold
  <2>5. ASSUME NEW c \in Chains, NEW manager \in Managers, NEW limit \in Limits,
               SetPeer(c, manager, limit)
        PROVE  SettingsInv'
    BY <2>5 DEF SetPeer, RegistryInv, CheckThreshold
  <2>6. ASSUME NEW limit \in Limits, SetOutboundRateLimit(limit)
        PROVE  UNCHANGED configVars
    BY <2>6 DEF SetOutboundRateLimit
  <2> QED
    BY <1>1, <1>2, <2>1, <2>2, <2>3, <2>4, <2>5, <2>6 DEF AdminNext
<1>3. ASSUME NEW t \in Transceivers, NEW manager \in Managers, NEW m \in Messages,
             Redeem(t, manager, m)
      PROVE  UNCHANGED configVars
  BY <1>3 DEF Redeem
<1>4. ASSUME NEW manager \in Managers, NEW m \in Messages, SdkRedeem(manager, m)
      PROVE  UNCHANGED configVars
  BY <1>4 DEF SdkRedeem
<1>5. ASSUME NEW amount \in Amounts, NEW chain \in Chains, NEW queue \in BOOLEAN,
             NEW posting \in SUBSET Transceivers,
             TransferPosting(amount, chain, queue, posting)
      PROVE  UNCHANGED configVars
  BY <1>5 DEF TransferPosting
<1>6. ASSUME NEW t \in Transceivers, NEW i \in 1..Len(outbox), CreateTransceiverMessage(t, i)
      PROVE  UNCHANGED configVars
  BY <1>6 DEF CreateTransceiverMessage
<1>7. ASSUME NEW m \in Messages, Release(m)
      PROVE  UNCHANGED configVars
  BY <1>7 DEF Release
<1>8. Tick \/ UNCHANGED vars => UNCHANGED configVars
  BY DEF Tick, vars
<1> QED
  BY <1>1, <1>2, <1>3, <1>4, <1>5, <1>6, <1>7, <1>8, NextCases

LEMMA InitSettings == Init => SettingsInv
<1>1. Init => RegistryInv
  BY FS_EmptySet, SuiAssumption DEF Init, RegistryInv, CheckThreshold
<1>2. Init => paused \in BOOLEAN /\ peers \in [Chains -> Managers \cup {NoPeer}]
  BY Zenon DEF Init
<1> QED
  BY <1>1, <1>2 DEF SettingsInv

(* While any transceiver is enabled, the votes of all of them approve a message and no
   message is approved without one of them, whichever ids were enabled and disabled
   (state.move:279-295, 352-364). *)
THEOREM QuorumsAreReal == Spec => []NoItemStranded
<1>1. SettingsInv => NoItemStranded
  <2> SUFFICES ASSUME SettingsInv, NEW m \in Messages, enabled # {}
               PROVE  /\ enabled \subseteq inbox[m].votes => Reached(inbox[m])
                      /\ Reached(inbox[m]) => inbox[m].votes \cap enabled # {}
    BY DEF NoItemStranded
  <2>1. threshold > 0 /\ threshold <= Cardinality(enabled) /\ threshold \in Nat
    BY DEF SettingsInv, RegistryInv, CheckThreshold
  <2>2. Cardinality(enabled) \in Nat
    BY FiniteIds DEF SettingsInv, RegistryInv
  <2>3. ASSUME enabled \subseteq inbox[m].votes
        PROVE  Reached(inbox[m])
    <3>1. inbox[m].votes \cap enabled = enabled
      BY <2>3
    <3> QED
      BY <2>1, <2>2, <3>1 DEF Reached
  <2>4. ASSUME inbox[m].votes \cap enabled = {}
        PROVE  ~Reached(inbox[m])
    BY <2>1, <2>4, FS_EmptySet DEF Reached
  <2> QED
    BY <2>3, <2>4
<1> QED
  BY <1>1, InitSettings, SettingsStep, PTL DEF Spec

--------------------------------------------------------------------------------
\* The outbox.

(* The second half of SettledOnce. *)
PostedOnce ==
    \A i \in DOMAIN outbox, t \in Transceivers :
        /\ posts[i][t] = IF t \in outbox[i].released THEN 1 ELSE 0
        /\ t \in outbox[i].released => outbox[i].releaseTimestamp <= now

OutInv ==
    /\ outbox \in Seq(OutboxItem)
    /\ posts \in Seq([Transceivers -> Nat])
    /\ Len(posts) = Len(outbox)
    /\ PostedOnce

(* Steps that neither touch the outbox nor turn the clock back. *)
LEMMA OutFrame ==
  ASSUME RateInv, OutInv, UNCHANGED outVars, now' \in Nat, now <= now'
  PROVE  OutInv'
<1>1. outbox' = outbox /\ posts' = posts
  BY DEF outVars
<1>2. PostedOnce'
  <2> SUFFICES ASSUME NEW i \in DOMAIN outbox, NEW t \in Transceivers
               PROVE  /\ posts[i][t] = IF t \in outbox[i].released THEN 1 ELSE 0
                      /\ t \in outbox[i].released => outbox[i].releaseTimestamp <= now'
    BY <1>1 DEF PostedOnce
  <2>1. outbox[i] \in OutboxItem
    BY DEF OutInv
  <2>2. outbox[i].releaseTimestamp \in Nat /\ now \in Nat
    BY <2>1 DEF OutboxItem, RateInv
  <2> QED
    BY <2>2 DEF OutInv, PostedOnce
<1> QED
  BY <1>1, <1>2 DEF OutInv

(* A new item, with the posts of the transaction that made it. *)
LEMMA OutAppend ==
  ASSUME RateInv, SettingsInv, OutInv,
         NEW amount \in Amounts, NEW chain \in Chains, NEW queue \in BOOLEAN,
         NEW posting \in SUBSET Transceivers,
         TransferPosting(amount, chain, queue, posting),
         posting # {} => FitsOutbound(amount)
  PROVE  OutInv'
<1> DEFINE item == [amount |-> amount, recipientChain |-> chain,
                    recipientManager |-> peers[chain],
                    releaseTimestamp |-> ReleaseTime(FitsOutbound(amount)),
                    released |-> posting]
           post == [t \in Transceivers |-> IF t \in posting THEN 1 ELSE 0]
<1>1. now \in Nat /\ Duration \in Nat /\ amount \in Nat
  BY SuiAssumption, SolanaRateLimitAssumption DEF RateInv
<1>2. ReleaseTime(FitsOutbound(amount)) \in Nat
  BY <1>1 DEF ReleaseTime
<1>3. peers[chain] \in Managers
  BY DEF TransferPosting, SettingsInv
<1>4. item \in OutboxItem
  BY <1>1, <1>2, <1>3 DEF OutboxItem
<1>5. post \in [Transceivers -> Nat]
  OBVIOUS
<1>6. /\ item.released = posting
      /\ posting # {} => item.releaseTimestamp = now
  BY DEF ReleaseTime
<1>7. outbox' = Append(outbox, item) /\ posts' = Append(posts, post) /\ now' = now
  BY DEF TransferPosting
<1>8. \A t \in Transceivers : post[t] = IF t \in posting THEN 1 ELSE 0
  OBVIOUS
<1> HIDE DEF item, post
<1>9. /\ outbox' \in Seq(OutboxItem) /\ posts' \in Seq([Transceivers -> Nat])
      /\ Len(outbox') = Len(outbox) + 1 /\ Len(posts') = Len(posts) + 1
      /\ Len(outbox) = Len(posts) /\ Len(outbox) \in Nat
      /\ outbox'[Len(outbox) + 1] = item /\ posts'[Len(outbox) + 1] = post
      /\ \A i \in 1..Len(outbox) : outbox'[i] = outbox[i] /\ posts'[i] = posts[i]
  BY <1>4, <1>5, <1>7 DEF OutInv
<1>10. PostedOnce'
  <2> SUFFICES ASSUME NEW i \in DOMAIN outbox', NEW t \in Transceivers
               PROVE  /\ posts'[i][t] = IF t \in outbox'[i].released THEN 1 ELSE 0
                      /\ t \in outbox'[i].released => outbox'[i].releaseTimestamp <= now'
    BY DEF PostedOnce
  <2>1. CASE i \in 1..Len(outbox)
    <3>1. i \in DOMAIN outbox
      BY <2>1 DEF OutInv
    <3>2. /\ posts[i][t] = IF t \in outbox[i].released THEN 1 ELSE 0
          /\ t \in outbox[i].released => outbox[i].releaseTimestamp <= now
      BY <3>1 DEF OutInv, PostedOnce
    <3> QED
      BY <1>7, <1>9, <2>1, <3>2
  <2>2. CASE i = Len(outbox) + 1
    BY <1>1, <1>6, <1>7, <1>8, <1>9, <2>2
  <2> QED
    BY <1>9, <2>1, <2>2
<1> QED
  BY <1>9, <1>10 DEF OutInv

LEMMA OutRelease ==
  ASSUME RateInv, OutInv, NEW t \in Transceivers, NEW i \in 1..Len(outbox),
         CreateTransceiverMessage(t, i)
  PROVE  OutInv'
<1> DEFINE item == MarkReleased(outbox[i], t)
           post == [posts[i] EXCEPT ![t] = @ + 1]
<1>1. /\ outbox[i] \in OutboxItem /\ posts[i] \in [Transceivers -> Nat]
      /\ Len(posts) = Len(outbox)
  BY DEF OutInv
<1>2. item \in OutboxItem /\ post \in [Transceivers -> Nat]
  BY <1>1 DEF MarkReleased, OutboxItem
<1>3. /\ item.released = outbox[i].released \cup {t}
      /\ item.releaseTimestamp = outbox[i].releaseTimestamp
  BY <1>1 DEF MarkReleased, OutboxItem
<1>4. /\ post[t] = posts[i][t] + 1
      /\ \A u \in Transceivers : u # t => post[u] = posts[i][u]
  BY <1>1
<1>5. /\ outbox' = [outbox EXCEPT ![i] = item] /\ posts' = [posts EXCEPT ![i] = post]
      /\ now' = now
  BY <1>1 DEF CreateTransceiverMessage
<1> HIDE DEF item, post
<1>6. /\ outbox' \in Seq(OutboxItem) /\ posts' \in Seq([Transceivers -> Nat])
      /\ Len(outbox') = Len(outbox) /\ Len(posts') = Len(posts)
      /\ DOMAIN outbox' = DOMAIN outbox
      /\ outbox'[i] = item /\ posts'[i] = post
      /\ \A k \in DOMAIN outbox : k # i => outbox'[k] = outbox[k] /\ posts'[k] = posts[k]
  BY <1>1, <1>2, <1>5 DEF OutInv
<1>7. PostedOnce'
  <2> SUFFICES ASSUME NEW k \in DOMAIN outbox, NEW u \in Transceivers
               PROVE  /\ posts'[k][u] = IF u \in outbox'[k].released THEN 1 ELSE 0
                      /\ u \in outbox'[k].released => outbox'[k].releaseTimestamp <= now'
    BY <1>6 DEF PostedOnce
  <2>1. /\ posts[k][u] = IF u \in outbox[k].released THEN 1 ELSE 0
        /\ u \in outbox[k].released => outbox[k].releaseTimestamp <= now
    BY DEF OutInv, PostedOnce
  <2>2. CASE k # i
    BY <1>5, <1>6, <2>1, <2>2
  <2>3. CASE k = i
    <3>1. t \notin outbox[i].released /\ outbox[i].releaseTimestamp <= now
      BY DEF CreateTransceiverMessage
    <3> QED
      BY <1>3, <1>4, <1>5, <1>6, <2>1, <2>3, <3>1
  <2> QED
    BY <2>2, <2>3
<1> QED
  BY <1>6, <1>7 DEF OutInv

LEMMA OutStep == RateInv /\ SettingsInv /\ OutInv /\ [Next]_vars => OutInv'
<1> SUFFICES ASSUME RateInv, SettingsInv, OutInv, [Next]_vars PROVE OutInv'
  OBVIOUS
<1>0. now \in Nat
  BY DEF RateInv
<1>1. CASE UNCHANGED <<outVars, now>>
  BY <1>0, <1>1, OutFrame
<1>2. AdminNext => UNCHANGED <<outVars, now>>
  BY DEF AdminNext, RegisterTransceiver, EnableTransceiver, DisableTransceiver,
         SetThreshold, SetPaused, SetPeer, SetOutboundRateLimit
<1>3. ASSUME NEW t \in Transceivers, NEW manager \in Managers, NEW m \in Messages,
             Redeem(t, manager, m)
      PROVE  UNCHANGED <<outVars, now>>
  BY <1>3 DEF Redeem
<1>4. ASSUME NEW manager \in Managers, NEW m \in Messages,
             SdkRedeem(manager, m) \/ Release(m)
      PROVE  UNCHANGED <<outVars, now>>
  BY <1>4 DEF SdkRedeem, Release
<1>5. ASSUME NEW m \in Messages, Release(m)
      PROVE  UNCHANGED <<outVars, now>>
  BY <1>5 DEF Release
<1>6. CASE Tick
  BY <1>0, <1>6, OutFrame DEF Tick
<1>7. UNCHANGED vars => UNCHANGED <<outVars, now>>
  BY DEF vars
<1> QED
  BY <1>1, <1>2, <1>3, <1>4, <1>5, <1>6, <1>7, OutAppend, OutRelease, NextCases

LEMMA InitOut == Init => OutInv
BY DEF Init, OutInv, PostedOnce

--------------------------------------------------------------------------------
\* The inbox.

(* The first half of SettledOnce. *)
PaidOnce ==
    \A m \in Messages : payouts[m] = IF inbox[m].releaseStatus = "Released" THEN 1 ELSE 0

InTypes ==
    /\ inbox \in [Messages -> InboxItem]
    /\ payouts \in [Messages -> Nat]

InInv == InTypes /\ PaidOnce

LEMMA RedeemedItem ==
  ASSUME RateInv, InTypes, NEW t \in Transceivers, NEW manager, NEW m \in Messages,
         CanRedeem(t, manager, m)
  PROVE  /\ Redeemed(m, t) \in InboxItem
         /\ Redeemed(m, t).votes = inbox[m].votes \cup {t}
         /\ \/ /\ ~Reached(Voted(m, t))
               /\ Redeemed(m, t).releaseStatus = inbox[m].releaseStatus
               /\ Redeemed(m, t).releaseAfter = inbox[m].releaseAfter
            \/ /\ Reached(Voted(m, t))
               /\ inbox[m].releaseStatus = "NotApproved"
               /\ Redeemed(m, t).releaseStatus = "ReleaseAfter"
               /\ Redeemed(m, t).releaseAfter = ReleaseTime(FitsInbound(m))
<1>1. inbox[m] \in InboxItem
  BY DEF InTypes
<1>2. /\ Voted(m, t) \in InboxItem
      /\ Voted(m, t).votes = inbox[m].votes \cup {t}
      /\ Voted(m, t).releaseStatus = inbox[m].releaseStatus
      /\ Voted(m, t).releaseAfter = inbox[m].releaseAfter
  BY <1>1 DEF Voted, InboxItem
<1>3. CASE ~Reached(Voted(m, t))
  BY <1>2, <1>3 DEF Redeemed
<1>4. CASE Reached(Voted(m, t))
  <2> DEFINE time == ReleaseTime(FitsInbound(m))
             item == [Voted(m, t) EXCEPT !.releaseStatus = "ReleaseAfter", !.releaseAfter = time]
  <2>1. time \in Nat
    BY SolanaRateLimitAssumption DEF RateInv, ReleaseTime
  <2>2. Redeemed(m, t) = item
    BY <1>4 DEF Redeemed
  <2> HIDE DEF time
  <2>3. /\ item \in InboxItem
        /\ item.votes = Voted(m, t).votes
        /\ item.releaseStatus = "ReleaseAfter"
        /\ item.releaseAfter = time
    BY <1>2, <2>1 DEF InboxItem
  <2>4. inbox[m].releaseStatus = "NotApproved"
    BY <1>4 DEF CanRedeem
  <2> HIDE DEF item
  <2> QED
    BY <1>2, <1>4, <2>2, <2>3, <2>4 DEF time
<1> QED
  BY <1>3, <1>4

LEMMA TriedItem ==
  ASSUME NEW item \in InboxItem
  PROVE  /\ TryRelease(item) \in InboxItem
         /\ TryRelease(item).votes = item.votes
         /\ TryRelease(item).releaseStatus = "Released"
BY DEF TryRelease, InboxItem

(* A step that writes one item, and pays it exactly when it makes it Released. *)
LEMMA InUpdate ==
  ASSUME InInv, NEW m \in Messages, NEW item \in InboxItem,
         inbox' = [inbox EXCEPT ![m] = item],
         \/ /\ payouts' = payouts
            /\ item.releaseStatus = "Released" <=> inbox[m].releaseStatus = "Released"
         \/ /\ payouts' = [payouts EXCEPT ![m] = @ + 1]
            /\ inbox[m].releaseStatus # "Released"
            /\ item.releaseStatus = "Released"
  PROVE  InInv'
<1>1. inbox \in [Messages -> InboxItem] /\ payouts \in [Messages -> Nat]
  BY DEF InInv, InTypes
<1>2. InTypes'
  BY <1>1 DEF InTypes
<1>3. inbox'[m] = item /\ \A n \in Messages : n # m => inbox'[n] = inbox[n]
  BY <1>1
<1>4. PaidOnce'
  <2> SUFFICES ASSUME NEW n \in Messages
               PROVE  payouts'[n] = IF inbox'[n].releaseStatus = "Released" THEN 1 ELSE 0
    BY DEF PaidOnce
  <2>1. payouts[n] = IF inbox[n].releaseStatus = "Released" THEN 1 ELSE 0
    BY DEF InInv, PaidOnce
  <2>2. CASE n # m
    BY <1>1, <1>3, <2>1, <2>2
  <2>3. CASE n = m
    BY <1>1, <1>3, <2>1, <2>3
  <2> QED
    BY <2>2, <2>3
<1> QED
  BY <1>2, <1>4 DEF InInv

LEMMA RedeemIn ==
  ASSUME RateInv, InInv, NEW t \in Transceivers, NEW manager \in Managers, NEW m \in Messages,
         Redeem(t, manager, m)
  PROVE  InInv'
<1>1. /\ InTypes /\ CanRedeem(t, manager, m)
      /\ inbox' = [inbox EXCEPT ![m] = Redeemed(m, t)] /\ payouts' = payouts
  BY DEF InInv, Redeem
<1>2. /\ Redeemed(m, t) \in InboxItem
      /\ Redeemed(m, t).releaseStatus = "Released" <=> inbox[m].releaseStatus = "Released"
  BY <1>1, RedeemedItem
<1> QED
  BY <1>1, <1>2, InUpdate

(* A bundle that would release a second time aborts as a whole. *)
LEMMA SdkRedeemIn ==
  ASSUME RateInv, InInv, NEW manager \in Managers, NEW m \in Messages, SdkRedeem(manager, m)
  PROVE  InInv'
<1> DEFINE item == Redeemed(m, SdkTransceiver)
<1>1. /\ InTypes /\ CanRedeem(SdkTransceiver, manager, m)
      /\ SdkTransceiver \in Transceivers
      /\ item.releaseStatus = "ReleaseAfter"
      /\ inbox' = [inbox EXCEPT ![m] = TryRelease(item)]
      /\ payouts' = [payouts EXCEPT ![m] = @ + 1]
  BY SuiAssumption DEF InInv, SdkRedeem, CanRelease, MintOrUnlock
<1>2. item \in InboxItem /\ inbox[m].releaseStatus # "Released"
  <2>1. /\ item \in InboxItem
        /\ \/ item.releaseStatus = inbox[m].releaseStatus
           \/ inbox[m].releaseStatus = "NotApproved"
    BY <1>1, RedeemedItem
  <2> HIDE DEF item
  <2> QED
    BY <1>1, <2>1
<1> HIDE DEF item
<1>3. TryRelease(item) \in InboxItem /\ TryRelease(item).releaseStatus = "Released"
  BY <1>2, TriedItem
<1> QED
  BY <1>1, <1>2, <1>3, InUpdate

LEMMA ReleaseIn ==
  ASSUME InInv, NEW m \in Messages, Release(m)
  PROVE  InInv'
<1>1. /\ inbox[m] \in InboxItem
      /\ payouts' = [payouts EXCEPT ![m] = @ + 1]
      /\ inbox[m].releaseStatus = "ReleaseAfter"
      /\ inbox' = [inbox EXCEPT ![m] = TryRelease(inbox[m])]
  BY DEF InInv, InTypes, Release, MintOrUnlock, CanRelease
<1>2. /\ TryRelease(inbox[m]) \in InboxItem
      /\ TryRelease(inbox[m]).releaseStatus = "Released"
  BY <1>1, TriedItem
<1> QED
  BY <1>1, <1>2, InUpdate

LEMMA QuietInbox ==
  ASSUME \/ AdminNext
         \/ Tick
         \/ UNCHANGED vars
         \/ \E amount \in Amounts, chain \in Chains, queue \in BOOLEAN,
               posting \in SUBSET Transceivers :
               TransferPosting(amount, chain, queue, posting)
         \/ \E t \in Transceivers, i \in 1..Len(outbox) : CreateTransceiverMessage(t, i)
  PROVE  UNCHANGED inVars
<1>1. AdminNext => UNCHANGED inVars
  BY DEF AdminNext, RegisterTransceiver, EnableTransceiver, DisableTransceiver,
         SetThreshold, SetPaused, SetPeer, SetOutboundRateLimit
<1>2. ASSUME NEW amount \in Amounts, NEW chain \in Chains, NEW queue \in BOOLEAN,
             NEW posting \in SUBSET Transceivers,
             TransferPosting(amount, chain, queue, posting)
      PROVE  UNCHANGED inVars
  BY <1>2 DEF TransferPosting
<1>3. ASSUME NEW t \in Transceivers, NEW i \in 1..Len(outbox), CreateTransceiverMessage(t, i)
      PROVE  UNCHANGED inVars
  BY <1>3 DEF CreateTransceiverMessage
<1>4. Tick \/ UNCHANGED vars => UNCHANGED inVars
  BY DEF Tick, vars
<1> QED
  BY <1>1, <1>2, <1>3, <1>4

LEMMA InStep == RateInv /\ InInv /\ [Next]_vars => InInv'
<1> SUFFICES ASSUME RateInv, InInv, [Next]_vars PROVE InInv'
  OBVIOUS
<1>1. CASE UNCHANGED inVars
  BY <1>1 DEF inVars, InInv, InTypes, PaidOnce
<1>2. ASSUME NEW amount \in Amounts, NEW chain \in Chains, NEW queue \in BOOLEAN,
             NEW posting \in SUBSET Transceivers,
             TransferPosting(amount, chain, queue, posting)
      PROVE  UNCHANGED inVars
  BY <1>2, QuietInbox
<1>3. AdminNext \/ Tick \/ UNCHANGED vars => UNCHANGED inVars
  BY QuietInbox
<1>4. ASSUME NEW t \in Transceivers, NEW i \in 1..Len(outbox), CreateTransceiverMessage(t, i)
      PROVE  UNCHANGED inVars
  BY <1>4, QuietInbox
<1> QED
  BY <1>1, <1>2, <1>3, <1>4, RedeemIn, SdkRedeemIn, ReleaseIn, NextCases

LEMMA InitIn == Init => InInv
<1> SUFFICES ASSUME Init PROVE InInv
  OBVIOUS
<1>1. NewInboxItem \in InboxItem /\ NewInboxItem.releaseStatus = "NotApproved"
  BY DEF NewInboxItem, InboxItem
<1> QED
  BY <1>1 DEF Init, InInv, InTypes, PaidOnce

--------------------------------------------------------------------------------
\* The balance, and all of it together.

LEMMA BalanceStep == balance \in Int /\ [Next]_vars => balance' \in Int
<1> SUFFICES ASSUME balance \in Int, [Next]_vars PROVE balance' \in Int
  OBVIOUS
<1>1. AdminNext \/ Tick \/ UNCHANGED vars => UNCHANGED balance
  BY DEF AdminNext, RegisterTransceiver, EnableTransceiver, DisableTransceiver,
         SetThreshold, SetPaused, SetPeer, SetOutboundRateLimit, Tick, vars
<1>2. ASSUME NEW amount \in Amounts, NEW chain \in Chains, NEW queue \in BOOLEAN,
             NEW posting \in SUBSET Transceivers,
             TransferPosting(amount, chain, queue, posting)
      PROVE  balance' \in Int
  <2>1. Untrim(amount) \in Nat
    BY SuiAssumption, UntrimNat
  <2> QED
    BY <1>2, <2>1 DEF TransferPosting
<1>3. ASSUME NEW t \in Transceivers, NEW i \in 1..Len(outbox), CreateTransceiverMessage(t, i)
      PROVE  UNCHANGED balance
  BY <1>3 DEF CreateTransceiverMessage
<1>4. ASSUME NEW t \in Transceivers, NEW manager \in Managers, NEW m \in Messages,
             Redeem(t, manager, m)
      PROVE  UNCHANGED balance
  BY <1>4 DEF Redeem
<1>5. ASSUME NEW manager \in Managers, NEW m \in Messages, SdkRedeem(manager, m) \/ Release(m)
      PROVE  balance' \in Int
  <2>1. m.amount \in Nat
    BY SuiAssumption, SolanaRateLimitAssumption
  <2>2. Untrim(m.amount) \in Nat /\ balance' = balance - Untrim(m.amount)
    BY <1>5, <2>1, UntrimNat DEF SdkRedeem, Release, MintOrUnlock
  <2> QED
    BY <2>2
<1>6. ASSUME NEW m \in Messages, Release(m)
      PROVE  balance' \in Int
  <2>1. m.amount \in Nat
    BY SuiAssumption, SolanaRateLimitAssumption
  <2>2. Untrim(m.amount) \in Nat /\ balance' = balance - Untrim(m.amount)
    BY <1>6, <2>1, UntrimNat DEF Release, MintOrUnlock
  <2> QED
    BY <2>2
<1> QED
  BY <1>1, <1>2, <1>3, <1>4, <1>5, <1>6, NextCases

IndInv ==
    /\ RateInv
    /\ SettingsInv
    /\ OutInv
    /\ InInv
    /\ balance \in Int

LEMMA Invariance == Spec => []IndInv
<1>1. Init => balance \in Int
  BY DEF Init
<1>2. Init => IndInv
  BY <1>1, InitRates, InitSettings, InitOut, InitIn DEF IndInv
<1>3. IndInv /\ [Next]_vars => IndInv'
  BY RateStep, SettingsStep, OutStep, InStep, BalanceStep DEF IndInv
<1> QED
  BY <1>2, <1>3, PTL DEF Spec

(* The types of all the state of the shared object. *)
THEOREM TypeCorrect == Spec => []TypeOK
<1>1. IndInv => TypeOK
  BY DEF IndInv, RateInv, InOrder, SettingsInv, RegistryInv, OutInv, InInv, InTypes, TypeOK
<1> QED
  BY <1>1, Invariance, PTL

(* A message is paid exactly when its item is Released, and then once; a transceiver
   posts an item once and never early: whichever of the client's bundle, a stranger's
   call and a repeated vote came first. *)
THEOREM Settlement == Spec => []SettledOnce
<1>1. IndInv => SettledOnce
  BY DEF IndInv, OutInv, PostedOnce, InInv, PaidOnce, SettledOnce
<1> QED
  BY <1>1, Invariance, PTL

--------------------------------------------------------------------------------
\* The books.

(* What the two sums of Conservation range over, in the token's own units. *)
TakenAmounts == [i \in DOMAIN outbox |-> Untrim(outbox[i].amount)]
PaidAmounts == [m \in ReleasedMessages |-> Untrim(m.amount)]

BooksInv ==
    /\ IsFiniteSet(ReleasedMessages)
    /\ balance = SumFunction(TakenAmounts) - SumFunction(PaidAmounts)

LEMMA BookedSums ==
  ASSUME OutInv, BooksInv
  PROVE  /\ IsFiniteSet(DOMAIN TakenAmounts) /\ IsFiniteSet(DOMAIN PaidAmounts)
         /\ \A i \in DOMAIN TakenAmounts : TakenAmounts[i] \in Nat
         /\ \A m \in DOMAIN PaidAmounts : PaidAmounts[m] \in Nat
         /\ SumFunction(TakenAmounts) \in Nat
         /\ SumFunction(PaidAmounts) \in Nat
<1>1. DOMAIN TakenAmounts = 1..Len(outbox) /\ Len(outbox) \in Nat
  BY DEF TakenAmounts, OutInv
<1>2. IsFiniteSet(DOMAIN TakenAmounts) /\ IsFiniteSet(DOMAIN PaidAmounts)
  BY <1>1, FS_Interval DEF PaidAmounts, BooksInv
<1>3. \A i \in DOMAIN TakenAmounts : TakenAmounts[i] \in Nat
  <2> SUFFICES ASSUME NEW i \in DOMAIN outbox PROVE Untrim(outbox[i].amount) \in Nat
    BY DEF TakenAmounts
  <2>1. outbox[i] \in OutboxItem
    BY DEF OutInv
  <2>2. outbox[i].amount \in Nat
    BY <2>1 DEF OutboxItem
  <2> QED
    BY <2>2, UntrimNat
<1>4. \A m \in DOMAIN PaidAmounts : PaidAmounts[m] \in Nat
  <2> SUFFICES ASSUME NEW m \in ReleasedMessages PROVE Untrim(m.amount) \in Nat
    BY DEF PaidAmounts
  <2>1. m.amount \in Nat
    BY SuiAssumption, SolanaRateLimitAssumption DEF ReleasedMessages
  <2> QED
    BY <2>1, UntrimNat
<1> QED
  BY <1>2, <1>3, <1>4, SumType

(* A step that pays m and one that pays nothing. *)
LEMMA PayBooks ==
  ASSUME OutInv, BooksInv, balance \in Int, NEW m \in Messages, outbox' = outbox,
         m \notin ReleasedMessages, ReleasedMessages' = ReleasedMessages \cup {m},
         balance' = balance - Untrim(m.amount)
  PROVE  BooksInv'
<1>1. m.amount \in Nat
  BY SuiAssumption, SolanaRateLimitAssumption
<1>2. Untrim(m.amount) \in Nat
  BY <1>1, UntrimNat
<1>3. IsFiniteSet(ReleasedMessages') /\ TakenAmounts' = TakenAmounts
  BY FS_AddElement DEF BooksInv, TakenAmounts
<1>4. /\ DOMAIN PaidAmounts' = DOMAIN PaidAmounts \cup {m} /\ m \notin DOMAIN PaidAmounts
      /\ PaidAmounts'[m] = Untrim(m.amount)
      /\ \A n \in DOMAIN PaidAmounts : PaidAmounts'[n] = PaidAmounts[n]
  BY DEF PaidAmounts, Untrim
<1>5. IsFiniteSet(DOMAIN PaidAmounts) /\ \A n \in DOMAIN PaidAmounts : PaidAmounts[n] \in Nat
  BY BookedSums
<1>6. \A n \in DOMAIN PaidAmounts' : PaidAmounts'[n] \in Int
  BY <1>2, <1>4, <1>5
<1>7. SumFunction(PaidAmounts') = SumFunction(PaidAmounts) + Untrim(m.amount)
  <2> DEFINE f == PaidAmounts
             g == PaidAmounts'
  <2>1. /\ IsFiniteSet(DOMAIN f) /\ m \notin DOMAIN f /\ DOMAIN g = DOMAIN f \cup {m}
        /\ \A y \in DOMAIN f : g[y] = f[y]
        /\ \A y \in DOMAIN g : g[y] \in Int
    BY <1>4, <1>5, <1>6
  <2> HIDE DEF f, g
  <2>2. SumFunction(g) = SumFunction(f) + g[m]
    BY <2>1, SumExtends
  <2> QED
    BY <1>4, <2>2 DEF f, g
<1>8. SumFunction(TakenAmounts) \in Nat /\ SumFunction(PaidAmounts) \in Nat
  BY BookedSums
<1> QED
  BY <1>2, <1>3, <1>7, <1>8 DEF BooksInv

LEMMA QuietBooks ==
  ASSUME BooksInv, balance' = balance, TakenAmounts' = TakenAmounts,
         ReleasedMessages' = ReleasedMessages
  PROVE  BooksInv'
BY DEF BooksInv, PaidAmounts, Untrim

LEMMA TransferBooks ==
  ASSUME OutInv, BooksInv, balance \in Int,
         NEW amount \in Amounts, NEW chain \in Chains, NEW queue \in BOOLEAN,
         NEW posting \in SUBSET Transceivers, TransferPosting(amount, chain, queue, posting)
  PROVE  BooksInv'
<1> DEFINE k == Len(outbox) + 1
           item == [amount |-> amount, recipientChain |-> chain,
                    recipientManager |-> peers[chain],
                    releaseTimestamp |-> ReleaseTime(FitsOutbound(amount)),
                    released |-> posting]
<1>1. Untrim(amount) \in Nat /\ item.amount = amount
  BY SuiAssumption, UntrimNat
<1>2. outbox' = Append(outbox, item) /\ balance' = balance + Untrim(amount) /\ inbox' = inbox
  BY DEF TransferPosting, inVars
<1> HIDE DEF item
<1>3. /\ DOMAIN outbox = 1..Len(outbox) /\ DOMAIN outbox' = 1..k /\ Len(outbox) \in Nat
      /\ outbox'[k] = item /\ \A i \in 1..Len(outbox) : outbox'[i] = outbox[i]
  BY <1>2 DEF OutInv
<1>4. /\ DOMAIN TakenAmounts = 1..Len(outbox) /\ DOMAIN TakenAmounts' = 1..k
      /\ TakenAmounts'[k] = Untrim(amount)
      /\ \A i \in DOMAIN TakenAmounts : TakenAmounts'[i] = TakenAmounts[i]
  BY <1>1, <1>3 DEF TakenAmounts, Untrim
<1>5. /\ k \notin DOMAIN TakenAmounts /\ DOMAIN TakenAmounts' = DOMAIN TakenAmounts \cup {k}
      /\ \A i \in DOMAIN TakenAmounts' : TakenAmounts'[i] \in Int
  BY <1>1, <1>3, <1>4, BookedSums
<1>6. SumFunction(TakenAmounts') = SumFunction(TakenAmounts) + Untrim(amount)
  <2> DEFINE f == TakenAmounts
             g == TakenAmounts'
  <2> HIDE DEF k
  <2>1. /\ IsFiniteSet(DOMAIN f) /\ k \notin DOMAIN f /\ DOMAIN g = DOMAIN f \cup {k}
        /\ \A y \in DOMAIN f : g[y] = f[y]
        /\ \A y \in DOMAIN g : g[y] \in Int
    BY <1>4, <1>5, BookedSums
  <2> HIDE DEF f, g
  <2>2. SumFunction(g) = SumFunction(f) + g[k]
    BY <2>1, SumExtends
  <2> QED
    BY <1>4, <2>2 DEF f, g
<1>7. ReleasedMessages' = ReleasedMessages /\ PaidAmounts' = PaidAmounts
  BY <1>2 DEF ReleasedMessages, PaidAmounts, Untrim
<1>8. SumFunction(TakenAmounts) \in Nat /\ SumFunction(PaidAmounts) \in Nat
  BY BookedSums
<1> QED
  BY <1>1, <1>2, <1>6, <1>7, <1>8 DEF BooksInv

LEMMA PostBooks ==
  ASSUME OutInv, BooksInv, NEW t \in Transceivers, NEW i \in 1..Len(outbox),
         CreateTransceiverMessage(t, i)
  PROVE  BooksInv'
<1>1. /\ outbox' = [outbox EXCEPT ![i] = MarkReleased(outbox[i], t)]
      /\ balance' = balance /\ inbox' = inbox
  BY DEF CreateTransceiverMessage, inVars
<1>2. \A j \in DOMAIN outbox : outbox'[j].amount = outbox[j].amount
  <2> SUFFICES ASSUME NEW j \in DOMAIN outbox PROVE outbox'[j].amount = outbox[j].amount
    OBVIOUS
  <2>1. outbox[j] \in OutboxItem
    BY DEF OutInv
  <2> QED
    BY <1>1, <2>1 DEF MarkReleased, OutboxItem
<1>3. DOMAIN outbox' = DOMAIN outbox
  BY <1>1
<1>4. TakenAmounts' = TakenAmounts /\ ReleasedMessages' = ReleasedMessages
  BY <1>1, <1>2, <1>3 DEF TakenAmounts, ReleasedMessages, Untrim
<1> QED
  BY <1>1, <1>4, QuietBooks

(* Writing an item releases its message or leaves the released ones alone. *)
LEMMA WriteItem ==
  ASSUME InTypes, NEW m \in Messages, NEW item, inbox' = [inbox EXCEPT ![m] = item]
  PROVE  /\ (item.releaseStatus = "Released" <=> inbox[m].releaseStatus = "Released")
              => ReleasedMessages' = ReleasedMessages
         /\ item.releaseStatus = "Released" => ReleasedMessages' = ReleasedMessages \cup {m}
<1>1. inbox'[m] = item /\ \A n \in Messages : n # m => inbox'[n] = inbox[n]
  BY DEF InTypes
<1> QED
  BY <1>1 DEF ReleasedMessages

LEMMA RedeemBooks ==
  ASSUME RateInv, InTypes, BooksInv, NEW t \in Transceivers, NEW manager \in Managers,
         NEW m \in Messages, Redeem(t, manager, m)
  PROVE  BooksInv'
<1>1. /\ CanRedeem(t, manager, m) /\ inbox' = [inbox EXCEPT ![m] = Redeemed(m, t)]
      /\ balance' = balance /\ outbox' = outbox
  BY DEF Redeem, outVars
<1>2. Redeemed(m, t).releaseStatus = "Released" <=> inbox[m].releaseStatus = "Released"
  BY <1>1, RedeemedItem
<1>3. ReleasedMessages' = ReleasedMessages /\ TakenAmounts' = TakenAmounts
  BY <1>1, <1>2, WriteItem DEF TakenAmounts, Untrim
<1> QED
  BY <1>1, <1>3, QuietBooks

LEMMA SdkRedeemBooks ==
  ASSUME RateInv, OutInv, InTypes, BooksInv, balance \in Int,
         NEW manager \in Managers, NEW m \in Messages, SdkRedeem(manager, m)
  PROVE  BooksInv'
<1> DEFINE item == Redeemed(m, SdkTransceiver)
<1>1. /\ CanRedeem(SdkTransceiver, manager, m) /\ SdkTransceiver \in Transceivers
      /\ item.releaseStatus = "ReleaseAfter" /\ outbox' = outbox
      /\ inbox' = [inbox EXCEPT ![m] = TryRelease(item)]
      /\ balance' = balance - Untrim(m.amount)
  BY SuiAssumption DEF SdkRedeem, CanRelease, MintOrUnlock, outVars
<1>2. item \in InboxItem /\ inbox[m].releaseStatus # "Released"
  <2>1. /\ item \in InboxItem
        /\ \/ item.releaseStatus = inbox[m].releaseStatus
           \/ inbox[m].releaseStatus = "NotApproved"
    BY <1>1, RedeemedItem
  <2> HIDE DEF item
  <2> QED
    BY <1>1, <2>1
<1> HIDE DEF item
<1>3. TryRelease(item).releaseStatus = "Released"
  BY <1>2, TriedItem
<1>4. m \notin ReleasedMessages /\ ReleasedMessages' = ReleasedMessages \cup {m}
  BY <1>1, <1>2, <1>3, WriteItem DEF ReleasedMessages
<1> QED
  BY <1>1, <1>4, PayBooks

LEMMA ReleaseBooks ==
  ASSUME OutInv, InTypes, BooksInv, balance \in Int, NEW m \in Messages, Release(m)
  PROVE  BooksInv'
<1>1. /\ inbox' = [inbox EXCEPT ![m] = TryRelease(inbox[m])]
      /\ balance' = balance - Untrim(m.amount)
      /\ outbox' = outbox /\ inbox[m].releaseStatus = "ReleaseAfter"
  BY DEF Release, MintOrUnlock, CanRelease, outVars
<1>2. TryRelease(inbox[m]).releaseStatus = "Released"
  BY TriedItem DEF InTypes
<1>3. m \notin ReleasedMessages /\ ReleasedMessages' = ReleasedMessages \cup {m}
  BY <1>1, <1>2, WriteItem DEF ReleasedMessages
<1> QED
  BY <1>1, <1>3, PayBooks

LEMMA BooksStep ==
  ASSUME IndInv, BooksInv, [Next]_vars
  PROVE  BooksInv'
<1>0. RateInv /\ OutInv /\ InTypes /\ balance \in Int
  BY DEF IndInv, InInv
<1>1. CASE UNCHANGED <<outbox, inbox, balance>>
  BY <1>1 DEF BooksInv, TakenAmounts, PaidAmounts, ReleasedMessages, Untrim
<1>2. AdminNext => UNCHANGED <<outbox, inbox, balance>>
  BY DEF AdminNext, RegisterTransceiver, EnableTransceiver, DisableTransceiver,
         SetThreshold, SetPaused, SetPeer, SetOutboundRateLimit, outVars, inVars
<1>3. Tick \/ UNCHANGED vars => UNCHANGED <<outbox, inbox, balance>>
  BY DEF Tick, vars, outVars, inVars
<1> QED
  BY <1>0, <1>1, <1>2, <1>3, TransferBooks, PostBooks, RedeemBooks, SdkRedeemBooks,
     ReleaseBooks, NextCases

LEMMA InitBooks == Init => BooksInv
<1> SUFFICES ASSUME Init PROVE BooksInv
  OBVIOUS
<1>1. DOMAIN TakenAmounts = {} /\ ReleasedMessages = {}
  BY DEF Init, TakenAmounts, ReleasedMessages, NewInboxItem
<1>2. DOMAIN PaidAmounts = {} /\ IsFiniteSet(ReleasedMessages)
  BY <1>1, FS_EmptySet DEF PaidAmounts
<1>3. SumFunction(TakenAmounts) = 0 /\ SumFunction(PaidAmounts) = 0
  BY <1>1, <1>2, SumEmpty
<1> QED
  BY <1>2, <1>3 DEF Init, BooksInv

(* The accounts agree: items and messages are settled once, and the balance is what the
   outbox took in less what released items paid, in the token's own units although both
   count in trimmed ones, for any number of each and any mixture of bundles and calls. *)
THEOREM AccountsBalance == Spec => []AccountsAgree
<1> DEFINE Booked == IndInv /\ BooksInv
<1>1. Init => Booked
  <2>1. Init => balance \in Int
    BY DEF Init
  <2> QED
    BY <2>1, InitRates, InitSettings, InitOut, InitIn, InitBooks DEF IndInv
<1>2. Booked /\ [Next]_vars => Booked'
  <2>1. IndInv /\ [Next]_vars => IndInv'
    BY RateStep, SettingsStep, OutStep, InStep, BalanceStep DEF IndInv
  <2> QED
    BY <2>1, BooksStep
<1>3. Booked => AccountsAgree
  <2>1. IndInv => SettledOnce
    BY DEF IndInv, OutInv, PostedOnce, InInv, PaidOnce, SettledOnce
  <2>2. BooksInv => Conservation
    BY DEF BooksInv, TakenAmounts, PaidAmounts, Conservation
  <2> QED
    BY <2>1, <2>2 DEF AccountsAgree
<1> QED
  BY <1>1, <1>2, <1>3, PTL DEF Spec

--------------------------------------------------------------------------------
\* The inbox implements what every manager promises.

(* What the abstract specification sees of the inbox. *)
VotesNow == [m \in Messages |-> inbox[m].votes]
StatusNow == [m \in Messages |-> StatusOf(inbox[m])]

LEMMA ItemStatus ==
  ASSUME NEW item \in InboxItem
  PROVE  /\ StatusOf(item) = "NotApproved" <=> item.releaseStatus = "NotApproved"
         /\ StatusOf(item) = "Queued" <=> item.releaseStatus = "ReleaseAfter"
         /\ StatusOf(item) = "Paid" <=> item.releaseStatus = "Released"
<1>1. item.releaseStatus \in {"NotApproved", "ReleaseAfter", "Released"}
  BY DEF InboxItem
<1> QED
  BY <1>1 DEF StatusOf, StatusName

(* A step that writes one item writes one place of each of the two. *)
LEMMA AbstractUpdate ==
  ASSUME InTypes, NEW m \in Messages, NEW item \in InboxItem,
         inbox' = [inbox EXCEPT ![m] = item]
  PROVE  /\ VotesNow' = [VotesNow EXCEPT ![m] = item.votes]
         /\ StatusNow' = [StatusNow EXCEPT ![m] = StatusOf(item)]
<1>1. inbox \in [Messages -> InboxItem]
  BY DEF InTypes
<1>2. inbox'[m] = item /\ \A n \in Messages : n # m => inbox'[n] = inbox[n]
  BY <1>1
<1>3. /\ VotesNow'[m] = item.votes
      /\ \A n \in Messages : n # m => VotesNow'[n] = VotesNow[n]
  BY <1>2 DEF VotesNow
<1>4. StatusNow' = [n \in Messages |-> IF n = m THEN StatusOf(item) ELSE StatusOf(inbox[n])]
  <2>1. StatusNow' = [n \in Messages |-> StatusName[inbox'[n].releaseStatus]]
    BY DEF StatusNow, StatusOf, StatusName
  <2>2. StatusNow = [n \in Messages |-> StatusName[inbox[n].releaseStatus]]
    BY DEF StatusNow, StatusOf
  <2> QED
    BY <1>2, <2>1, <2>2 DEF StatusOf
<1>5. VotesNow' = [n \in Messages |-> IF n = m THEN item.votes ELSE inbox[n].votes]
  BY <1>2 DEF VotesNow
<1>6. VotesNow' = [VotesNow EXCEPT ![m] = item.votes]
  BY <1>5 DEF VotesNow
<1>7. StatusNow' = [StatusNow EXCEPT ![m] = StatusOf(item)]
  <2> HIDE DEF StatusOf
  <2> QED
    BY <1>4 DEF StatusNow
<1> QED
  BY <1>6, <1>7

LEMMA SameCardinality ==
  ASSUME NEW S
  PROVE  Arrivals!Cardinality(S) = Cardinality(S)
BY DEF Arrivals!Cardinality, Cardinality

LEMMA VoteImplements ==
  ASSUME InTypes, NEW t \in Transceivers, NEW m \in Messages, NEW item \in InboxItem,
         inbox' = [inbox EXCEPT ![m] = item],
         item.votes = inbox[m].votes \cup {t},
         UNCHANGED <<enabled, threshold>>,
         \/ item.releaseStatus = inbox[m].releaseStatus
         \/ /\ inbox[m].releaseStatus = "NotApproved"
            /\ Reached(Voted(m, t))
            /\ item.releaseStatus \in {"ReleaseAfter", "Released"}
         \/ /\ inbox[m].releaseStatus = "ReleaseAfter"
            /\ item.releaseStatus = "Released"
  PROVE  Arrivals!Vote(m, t)
<1>1. inbox[m] \in InboxItem
  BY DEF InTypes
<1>2. /\ VotesNow' = [VotesNow EXCEPT ![m] = VotesNow[m] \cup {t}]
      /\ StatusNow' = [StatusNow EXCEPT ![m] = StatusOf(item)]
      /\ StatusNow[m] = StatusOf(inbox[m])
      /\ VotesNow'[m] = inbox[m].votes \cup {t}
  <2>1. /\ VotesNow' = [VotesNow EXCEPT ![m] = item.votes]
        /\ StatusNow' = [StatusNow EXCEPT ![m] = StatusOf(item)]
    BY AbstractUpdate
  <2>2. VotesNow[m] = inbox[m].votes /\ StatusNow[m] = StatusOf(inbox[m])
    BY DEF VotesNow, StatusNow
  <2>3. m \in DOMAIN VotesNow
    BY DEF VotesNow
  <2> QED
    BY <2>1, <2>2, <2>3
<1>3. CASE item.releaseStatus = inbox[m].releaseStatus
  <2>1. StatusOf(item) = StatusNow[m]
    BY <1>2, <1>3 DEF StatusOf
  <2>2. StatusNow' = StatusNow
    BY <1>2, <2>1 DEF StatusNow
  <2> QED
    BY <1>2, <2>2 DEF Arrivals!Vote, VotesNow, StatusNow
<1>4. CASE /\ inbox[m].releaseStatus = "NotApproved"
           /\ Reached(Voted(m, t))
           /\ item.releaseStatus \in {"ReleaseAfter", "Released"}
  <2>1. StatusNow[m] = "NotApproved" /\ StatusOf(item) \in {"Queued", "Paid"}
    BY <1>1, <1>2, <1>4, ItemStatus
  <2>0. \E s \in {"Queued", "Paid"} : StatusNow' = [StatusNow EXCEPT ![m] = s]
    BY <1>2, <2>1
  <2>2. Voted(m, t).votes = inbox[m].votes \cup {t}
    BY <1>1 DEF Voted, InboxItem
  <2>3. Cardinality(VotesNow'[m] \cap enabled) >= threshold
    BY <1>2, <1>4, <2>2 DEF Reached
  <2>4. Arrivals!Quorum(VotesNow'[m])
    BY <2>3, SameCardinality DEF Arrivals!Quorum
  <2> QED
    BY <1>2, <2>0, <2>1, <2>4 DEF Arrivals!Vote, Arrivals!Executed, VotesNow, StatusNow
<1>5. CASE inbox[m].releaseStatus = "ReleaseAfter" /\ item.releaseStatus = "Released"
  <2>1. StatusNow[m] = "Queued" /\ StatusOf(item) = "Paid"
    BY <1>1, <1>2, <1>5, ItemStatus
  <2> QED
    BY <1>2, <2>1 DEF Arrivals!Vote, VotesNow, StatusNow
<1> QED
  BY <1>3, <1>4, <1>5

LEMMA RedeemImplements ==
  ASSUME RateInv, InTypes, NEW t \in Transceivers, NEW manager, NEW m \in Messages,
         Redeem(t, manager, m)
  PROVE  Arrivals!Vote(m, t)
<1>1. /\ CanRedeem(t, manager, m) /\ inbox' = [inbox EXCEPT ![m] = Redeemed(m, t)]
      /\ UNCHANGED <<enabled, threshold>>
  BY DEF Redeem, configVars
<1>2. /\ Redeemed(m, t) \in InboxItem
      /\ Redeemed(m, t).votes = inbox[m].votes \cup {t}
      /\ \/ Redeemed(m, t).releaseStatus = inbox[m].releaseStatus
         \/ /\ inbox[m].releaseStatus = "NotApproved"
            /\ Reached(Voted(m, t))
            /\ Redeemed(m, t).releaseStatus = "ReleaseAfter"
  BY <1>1, RedeemedItem
<1> QED
  BY <1>1, <1>2, VoteImplements

LEMMA SdkRedeemImplements ==
  ASSUME RateInv, InTypes, NEW manager, NEW m \in Messages, SdkRedeem(manager, m)
  PROVE  Arrivals!Vote(m, SdkTransceiver)
<1> DEFINE item == Redeemed(m, SdkTransceiver)
<1>1. /\ CanRedeem(SdkTransceiver, manager, m) /\ UNCHANGED <<enabled, threshold>>
      /\ item.releaseStatus = "ReleaseAfter"
      /\ inbox' = [inbox EXCEPT ![m] = TryRelease(item)]
      /\ SdkTransceiver \in Transceivers
  BY SuiAssumption DEF SdkRedeem, CanRelease, configVars
<1>2. /\ item \in InboxItem
      /\ item.votes = inbox[m].votes \cup {SdkTransceiver}
      /\ \/ item.releaseStatus = inbox[m].releaseStatus
         \/ /\ inbox[m].releaseStatus = "NotApproved"
            /\ Reached(Voted(m, SdkTransceiver))
  BY <1>1, RedeemedItem
<1> HIDE DEF item
<1>3. /\ TryRelease(item) \in InboxItem
      /\ TryRelease(item).votes = inbox[m].votes \cup {SdkTransceiver}
      /\ TryRelease(item).releaseStatus = "Released"
  BY <1>2, TriedItem
<1> QED
  BY <1>1, <1>2, <1>3, VoteImplements

LEMMA ReleaseImplements ==
  ASSUME InTypes, NEW m \in Messages, Release(m)
  PROVE  Arrivals!Complete(m)
<1>1. /\ inbox[m] \in InboxItem
      /\ inbox[m].releaseStatus = "ReleaseAfter"
      /\ inbox' = [inbox EXCEPT ![m] = TryRelease(inbox[m])]
      /\ UNCHANGED <<enabled, threshold>>
  BY DEF InTypes, Release, CanRelease, configVars
<1>2. /\ TryRelease(inbox[m]) \in InboxItem
      /\ TryRelease(inbox[m]).votes = inbox[m].votes
      /\ TryRelease(inbox[m]).releaseStatus = "Released"
  BY <1>1, TriedItem
<1>3. StatusOf(inbox[m]) = "Queued" /\ StatusOf(TryRelease(inbox[m])) = "Paid"
  BY <1>1, <1>2, ItemStatus
<1>4. /\ VotesNow' = [VotesNow EXCEPT ![m] = inbox[m].votes]
      /\ StatusNow' = [StatusNow EXCEPT ![m] = "Paid"]
  BY <1>1, <1>2, <1>3, AbstractUpdate
<1>5. StatusNow[m] = "Queued" /\ VotesNow' = VotesNow
  BY <1>3, <1>4 DEF StatusNow, VotesNow
<1> QED
  BY <1>1, <1>4, <1>5 DEF Arrivals!Complete, VotesNow, StatusNow

(* Steps that leave the inbox alone are the administrator's or no step at all. *)
LEMMA QuietImplements ==
  ASSUME RegistryInv', inbox' = inbox
  PROVE  Arrivals!Administer
BY DEF RegistryInv, Arrivals!Administer

(* The package's inbox items live the life every manager promises of a message; votes
   of transceivers that are not enabled are taken, and do not count. *)
THEOREM InboxRefinement == Spec => ImplementsInboundTransfers
<1>1. Init => Arrivals!Init
  <2> SUFFICES ASSUME Init PROVE Arrivals!Init
    OBVIOUS
  <2>1. NewInboxItem \in InboxItem /\ NewInboxItem.votes = {}
        /\ NewInboxItem.releaseStatus = "NotApproved"
    BY DEF NewInboxItem, InboxItem
  <2>2. StatusOf(NewInboxItem) = "NotApproved"
    BY <2>1, ItemStatus
  <2> QED
    BY <2>1, <2>2 DEF Init, Arrivals!Init
<1>2. IndInv /\ IndInv' /\ [Next]_vars => [Arrivals!Next]_(Arrivals!vars)
  <2> SUFFICES ASSUME IndInv, IndInv', [Next]_vars PROVE Arrivals!Next
    OBVIOUS
  <2>0. RateInv /\ InTypes /\ RegistryInv'
    BY DEF IndInv, InInv, SettingsInv
  <2>1. CASE UNCHANGED inVars
    BY <2>0, <2>1, QuietImplements DEF Arrivals!Next, inVars
  <2>2. AdminNext \/ Tick \/ UNCHANGED vars => UNCHANGED inVars
    BY QuietInbox
  <2>3. ASSUME NEW amount \in Amounts, NEW chain \in Chains, NEW queue \in BOOLEAN,
               NEW posting \in SUBSET Transceivers,
               TransferPosting(amount, chain, queue, posting)
        PROVE  UNCHANGED inVars
    BY <2>3, QuietInbox
  <2>4. ASSUME NEW t \in Transceivers, NEW i \in 1..Len(outbox), CreateTransceiverMessage(t, i)
        PROVE  UNCHANGED inVars
    BY <2>4, QuietInbox
  <2>5. ASSUME NEW t \in Transceivers, NEW manager \in Managers, NEW m \in Messages,
               Redeem(t, manager, m)
        PROVE  Arrivals!Next
    BY <2>0, <2>5, RedeemImplements DEF Arrivals!Next
  <2>6. ASSUME NEW manager \in Managers, NEW m \in Messages, SdkRedeem(manager, m)
        PROVE  Arrivals!Next
    BY <2>0, <2>6, SdkRedeemImplements, SuiAssumption DEF Arrivals!Next
  <2>7. ASSUME NEW m \in Messages, Release(m)
        PROVE  Arrivals!Next
    BY <2>0, <2>7, ReleaseImplements DEF Arrivals!Next
  <2> QED
    BY <2>1, <2>2, <2>3, <2>4, <2>5, <2>6, <2>7, NextCases
<1> QED
  BY <1>1, <1>2, Invariance, PTL DEF Spec, ImplementsInboundTransfers, Arrivals!Spec

--------------------------------------------------------------------------------
\* Flows and limits.

(* What an approval of a message that fits does to the limits. *)
ChargedInbound(m) ==
    /\ inboxRateLimit' = [inboxRateLimit EXCEPT ![m.source] = Consumed(@, Untrim(m.amount), now)]
    /\ GetsBack(outboxRateLimit, outboxRateLimit', Untrim(m.amount))

(* A vote that approves charges the limit or puts the release a Duration off. *)
LEMMA VoteCharges ==
  ASSUME RateInv, InTypes, NEW t \in Transceivers, NEW m \in Messages, NEW manager,
         CanRedeem(t, manager, m), ChargeRedeem(m, t), Reached(Voted(m, t))
  PROVE  \/ ChargedInbound(m)
         \/ /\ Redeemed(m, t).releaseStatus = "ReleaseAfter"
            /\ Redeemed(m, t).releaseAfter = now + Duration
<1>1. CASE FitsInbound(m)
  <2>1. Untrim(m.amount) \in Nat
    BY SuiAssumption, SolanaRateLimitAssumption, UntrimNat
  <2>2. GetsBack(outboxRateLimit, GivenBack(outboxRateLimit, Untrim(m.amount), now),
                 Untrim(m.amount))
    BY <2>1, GivenBackIsThere DEF RateInv
  <2> QED
    BY <1>1, <2>2 DEF ChargeRedeem, ChargedInbound
<1>2. CASE ~FitsInbound(m)
  BY <1>2, RedeemedItem DEF ReleaseTime
<1> QED
  BY <1>1, <1>2

LEMMA RedeemFollows ==
  ASSUME RateInv, InTypes, NEW t \in Transceivers, NEW manager, NEW n \in Messages,
         Redeem(t, manager, n), NEW m \in Messages
  PROVE  ApprovalCharged(m) /\ PaidInTime(m)
<1>1. /\ CanRedeem(t, manager, n) /\ ChargeRedeem(n, t) /\ payouts' = payouts
      /\ inbox' = [inbox EXCEPT ![n] = Redeemed(n, t)]
      /\ inbox \in [Messages -> InboxItem]
      /\ now + Duration \in Nat
  BY SolanaRateLimitAssumption DEF Redeem, InTypes, RateInv
<1>2. ApprovalCharged(m)
  <2> SUFFICES ASSUME inbox[m].releaseStatus = "NotApproved",
                      inbox'[m].releaseStatus # "NotApproved"
               PROVE  \/ ChargedInbound(m)
                      \/ /\ inbox'[m].releaseStatus = "ReleaseAfter"
                         /\ inbox'[m].releaseAfter >= now + Duration
    BY DEF ApprovalCharged, ChargedInbound
  <2>1. n = m /\ inbox'[m] = Redeemed(m, t)
    BY <1>1
  <2>2. Reached(Voted(m, t))
    BY <1>1, <2>1, RedeemedItem
  <2>3. \/ ChargedInbound(m)
        \/ /\ Redeemed(m, t).releaseStatus = "ReleaseAfter"
           /\ Redeemed(m, t).releaseAfter = now + Duration
    BY <1>1, <2>1, <2>2, VoteCharges
  <2> QED
    BY <1>1, <2>1, <2>3
<1> QED
  BY <1>1, <1>2 DEF PaidInTime

LEMMA SdkRedeemFollows ==
  ASSUME RateInv, InTypes, NEW manager, NEW n \in Messages, SdkRedeem(manager, n),
         NEW m \in Messages
  PROVE  ApprovalCharged(m) /\ PaidInTime(m)
<1> DEFINE item == Redeemed(n, SdkTransceiver)
<1>1. /\ CanRedeem(SdkTransceiver, manager, n) /\ ChargeRedeem(n, SdkTransceiver)
      /\ SdkTransceiver \in Transceivers
      /\ inbox \in [Messages -> InboxItem] /\ payouts \in [Messages -> Nat]
      /\ now \in Nat /\ Duration \in Nat \ {0}
  BY SuiAssumption, SolanaRateLimitAssumption DEF SdkRedeem, InTypes, RateInv
<1>2. /\ item.releaseStatus = "ReleaseAfter" /\ item.releaseAfter <= now
      /\ inbox' = [inbox EXCEPT ![n] = TryRelease(item)]
      /\ payouts' = [payouts EXCEPT ![n] = @ + 1]
  BY DEF SdkRedeem, CanRelease, MintOrUnlock
<1>3. CASE n = m /\ Reached(Voted(m, SdkTransceiver))
  <2>1. inbox[m].releaseStatus = "NotApproved"
    BY <1>1, <1>3, RedeemedItem
  <2>2. \/ ChargedInbound(m)
        \/ item.releaseAfter = now + Duration
    BY <1>1, <1>3, VoteCharges
  <2>3. ChargedInbound(m)
    <3> HIDE DEF item
    <3> QED
      BY <1>1, <1>2, <2>2
  <2> QED
    BY <2>1, <2>3 DEF ApprovalCharged, PaidInTime, ChargedInbound
<1>4. CASE n = m /\ ~Reached(Voted(m, SdkTransceiver))
  <2>1. /\ item.releaseStatus = inbox[m].releaseStatus
        /\ item.releaseAfter = inbox[m].releaseAfter
    BY <1>1, <1>4, RedeemedItem
  <2> HIDE DEF item
  <2> QED
    BY <1>2, <2>1 DEF ApprovalCharged, PaidInTime
<1>5. CASE n # m
  <2>1. inbox'[m] = inbox[m] /\ payouts'[m] = payouts[m]
    BY <1>1, <1>2, <1>5
  <2> QED
    BY <2>1 DEF ApprovalCharged, PaidInTime
<1> QED
  BY <1>3, <1>4, <1>5

LEMMA ReleaseFollows ==
  ASSUME InTypes, NEW n \in Messages, Release(n), NEW m \in Messages
  PROVE  ApprovalCharged(m) /\ PaidInTime(m)
<1>1. /\ inbox' = [inbox EXCEPT ![n] = TryRelease(inbox[n])]
      /\ inbox[n].releaseStatus = "ReleaseAfter" /\ inbox[n].releaseAfter <= now
      /\ payouts' = [payouts EXCEPT ![n] = @ + 1]
      /\ inbox \in [Messages -> InboxItem] /\ payouts \in [Messages -> Nat]
  BY DEF Release, CanRelease, MintOrUnlock, InTypes
<1>2. CASE n = m
  BY <1>1, <1>2 DEF ApprovalCharged, PaidInTime
<1>3. CASE n # m
  <2>1. inbox'[m] = inbox[m] /\ payouts'[m] = payouts[m]
    BY <1>1, <1>3
  <2> QED
    BY <2>1 DEF ApprovalCharged, PaidInTime
<1> QED
  BY <1>2, <1>3

(* The inbound limit gets the trimmed amount back, at least. *)
LEMMA TransferFollows ==
  ASSUME RateInv, OutInv,
         NEW amount \in Amounts, NEW chain \in Chains, NEW queue \in BOOLEAN,
         NEW posting \in SUBSET Transceivers,
         TransferPosting(amount, chain, queue, posting),
         NEW i \in DOMAIN outbox' \ DOMAIN outbox
  PROVE  ItemCharged(outbox'[i])
<1>1. PICK item :
        /\ outbox' = Append(outbox, item)
        /\ item.amount = amount /\ item.recipientChain = chain
        /\ item.releaseTimestamp = ReleaseTime(FitsOutbound(amount))
  <2> DEFINE item == [amount |-> amount, recipientChain |-> chain,
                      recipientManager |-> peers[chain],
                      releaseTimestamp |-> ReleaseTime(FitsOutbound(amount)),
                      released |-> posting]
  <2>1. outbox' = Append(outbox, item)
    BY DEF TransferPosting
  <2>2. /\ item.amount = amount /\ item.recipientChain = chain
        /\ item.releaseTimestamp = ReleaseTime(FitsOutbound(amount))
    OBVIOUS
  <2> HIDE DEF item
  <2> QED
    BY <2>1, <2>2
<1>2. outbox'[i] = item
  BY <1>1 DEF OutInv
<1>3. CASE FitsOutbound(amount)
  <2>1. /\ outboxRateLimit' = Consumed(outboxRateLimit, Untrim(amount), now)
        /\ inboxRateLimit' = [inboxRateLimit EXCEPT ![chain] = GivenBack(@, amount, now)]
    BY <1>3 DEF TransferPosting, ChargeTransfer
  <2>2. inboxRateLimit'[chain] = GivenBack(inboxRateLimit[chain], amount, now)
    BY <2>1 DEF RateInv
  <2>3. amount \in Nat
    BY SuiAssumption
  <2>4. GetsBack(inboxRateLimit[chain], inboxRateLimit'[chain], amount)
    BY <2>2, <2>3, GivenBackIsThere DEF RateInv
  <2> QED
    BY <1>1, <1>2, <2>1, <2>4 DEF ItemCharged
<1>4. CASE ~FitsOutbound(amount)
  <2>1. outbox'[i].releaseTimestamp = now + Duration
    BY <1>1, <1>2, <1>4 DEF ReleaseTime
  <2> QED
    BY <2>1, SolanaRateLimitAssumption DEF ItemCharged, RateInv
<1> QED
  BY <1>3, <1>4

(* Everything approved or taken into the outbox is charged to its limit, or waits a full
   Duration and is not paid early; what the other limit gets back is never less than the
   amount, which a transfer counts in trimmed units. *)
THEOREM LimitsHold == Spec => FlowsAreCharged
<1>1. IndInv /\ [Next]_vars => FlowsCharged
  <2> SUFFICES ASSUME IndInv, [Next]_vars PROVE FlowsCharged
    OBVIOUS
  <2> USE DEF FlowsCharged
  <2>0. RateInv /\ InTypes /\ OutInv
    BY DEF IndInv, InInv
  <2>1. UNCHANGED inVars => \A m \in Messages : ApprovalCharged(m) /\ PaidInTime(m)
    BY DEF ApprovalCharged, PaidInTime, inVars
  <2>2. DOMAIN outbox' = DOMAIN outbox
          => \A i \in DOMAIN outbox' \ DOMAIN outbox : ItemCharged(outbox'[i])
    OBVIOUS
  <2>3. AdminNext \/ Tick \/ UNCHANGED vars => UNCHANGED inVars /\ UNCHANGED outbox
    <3>1. AdminNext \/ Tick \/ UNCHANGED vars => UNCHANGED inVars
      BY QuietInbox
    <3>2. AdminNext \/ Tick \/ UNCHANGED vars => UNCHANGED outbox
      BY DEF AdminNext, RegisterTransceiver, EnableTransceiver, DisableTransceiver,
             SetThreshold, SetPaused, SetPeer, SetOutboundRateLimit, Tick, vars, outVars
    <3> QED
      BY <3>1, <3>2
  <2>4. ASSUME NEW amount \in Amounts, NEW chain \in Chains, NEW queue \in BOOLEAN,
               NEW posting \in SUBSET Transceivers,
               TransferPosting(amount, chain, queue, posting)
        PROVE  FlowsCharged
    <3>1. UNCHANGED inVars
      BY <2>4, QuietInbox
    <3> QED
      BY <2>0, <2>1, <2>4, <3>1, TransferFollows
  <2>5. ASSUME NEW t \in Transceivers, NEW i \in 1..Len(outbox), CreateTransceiverMessage(t, i)
        PROVE  FlowsCharged
    <3>1. UNCHANGED inVars
      BY <2>5, QuietInbox
    <3>2. DOMAIN outbox' = DOMAIN outbox
      BY <2>5 DEF CreateTransceiverMessage
    <3> QED
      BY <2>1, <2>2, <3>1, <3>2
  <2>6. ASSUME NEW t \in Transceivers, NEW manager \in Managers, NEW n \in Messages,
               Redeem(t, manager, n)
        PROVE  FlowsCharged
    <3>1. UNCHANGED outbox
      BY <2>6 DEF Redeem, outVars
    <3> QED
      BY <2>0, <2>2, <2>6, <3>1, RedeemFollows
  <2>7. ASSUME NEW manager \in Managers, NEW n \in Messages, SdkRedeem(manager, n)
        PROVE  FlowsCharged
    <3>1. UNCHANGED outbox
      BY <2>7 DEF SdkRedeem, outVars
    <3> QED
      BY <2>0, <2>2, <2>7, <3>1, SdkRedeemFollows
  <2>8. ASSUME NEW n \in Messages, Release(n)
        PROVE  FlowsCharged
    <3>1. UNCHANGED outbox
      BY <2>8 DEF Release, outVars
    <3> QED
      BY <2>0, <2>2, <2>8, <3>1, ReleaseFollows
  <2> QED
    BY <2>1, <2>2, <2>3, <2>4, <2>5, <2>6, <2>7, <2>8, NextCases
<1>2. IndInv /\ [Next]_vars => [FlowsCharged]_vars
  BY <1>1
<1>3. Spec => [][Next]_vars
  BY DEF Spec
<1> QED
  BY <1>2, <1>3, Invariance, PTL DEF FlowsAreCharged
================================================================================
