---------------------------- MODULE NttManagerProofs ----------------------------
(***************************************************************************)
(* What one manager guarantees for any number of transceivers, chains,     *)
(* users and messages.  The invariant is proved in four groups that touch  *)
(* different variables: the registry, the limits, what goes out and what   *)
(* comes in.  Each group needs the registry and the types of the others    *)
(* only where its own actions read them.                                   *)
(***************************************************************************)
EXTENDS NttManager, FiniteSetTheorems, SumTheorems, TLAPS

--------------------------------------------------------------------------------
\* The limits.

(* A limit whose books are in order at time t. *)
InOrder(p, t) ==
    /\ p \in RateLimitParams
    /\ p.limit <= MaxAmount
    /\ p.currentCapacity <= p.limit
    /\ p.lastTxTimestamp <= t

LEMMA CapacityInRange ==
  ASSUME NEW t \in Nat, NEW p, InOrder(p, t)
  PROVE  /\ CurrentCapacity(p, t) \in Nat
         /\ RateLimitDuration # 0 => CurrentCapacity(p, t) <= p.limit
<1>1. /\ p.limit \in Nat /\ p.currentCapacity \in Nat /\ t - p.lastTxTimestamp \in Nat
      /\ MaxAmount \in Nat /\ RateLimitDuration \in Nat
  BY RateLimiterAssumption DEF InOrder, RateLimitParams
<1>2. CASE RateLimitDuration = 0
  BY <1>1, <1>2 DEF CurrentCapacity
<1>3. CASE RateLimitDuration # 0
  <2> DEFINE fill == (p.limit * (t - p.lastTxTimestamp)) \div RateLimitDuration
  <2>1. p.limit * (t - p.lastTxTimestamp) \in Nat
    BY <1>1
  <2>2. fill \in Nat
    BY <1>1, <1>3, <2>1
  <2>3. CurrentCapacity(p, t) = Min2(p.currentCapacity + fill, p.limit)
    BY <1>3 DEF CurrentCapacity
  <2> HIDE DEF fill
  <2>. QED
    BY <1>1, <2>2, <2>3 DEF Min2
<1>. QED
  BY <1>2, <1>3

LEMMA SetLimitInOrder ==
  ASSUME NEW t \in Nat, NEW p, InOrder(p, t), NEW limit \in 0..MaxAmount,
         SetLimitAllowed(p, limit, t)
  PROVE  InOrder(SetLimit(p, limit, t), t)
<1> DEFINE cap == CurrentCapacity(p, t)
<1>1. cap \in Nat /\ p.limit \in Nat /\ limit \in Nat /\ limit <= MaxAmount
  BY CapacityInRange, RateLimiterAssumption DEF InOrder, RateLimitParams
<1>2. CapacityAfterSet(p, limit, t) \in Nat
  <2> HIDE DEF cap
  <2>1. NewCapacity(limit, p.limit, cap) \in Nat
    BY <1>1 DEF NewCapacity
  <2>. QED
    BY <1>1, <2>1 DEF CapacityAfterSet, cap
<1>3. CapacityAfterSet(p, limit, t) <= limit
  BY DEF SetLimitAllowed
<1>. QED
  BY <1>1, <1>2, <1>3 DEF SetLimit, InOrder, RateLimitParams

(* Both transfers write the capacity and the time and nothing else. *)
LEMMA UpdateInOrder ==
  ASSUME NEW t \in Nat, NEW p, InOrder(p, t), NEW capacity \in Nat, capacity <= p.limit
  PROVE  InOrder([p EXCEPT !.currentCapacity = capacity, !.lastTxTimestamp = t], t)
<1> DEFINE q == [p EXCEPT !.currentCapacity = capacity, !.lastTxTimestamp = t]
<1>1. p \in RateLimitParams
  BY DEF InOrder
<1>2. q \in RateLimitParams
  BY <1>1 DEF RateLimitParams
<1>3. q.limit = p.limit /\ q.currentCapacity = capacity /\ q.lastTxTimestamp = t
  BY <1>1 DEF RateLimitParams
<1> HIDE DEF q
<1>4. p.limit <= MaxAmount
  BY DEF InOrder
<1>5. InOrder(q, t)
  BY <1>2, <1>3, <1>4 DEF InOrder
<1>. QED
  BY <1>5 DEF q

LEMMA ConsumeInOrder ==
  ASSUME NEW t \in Nat, NEW p, InOrder(p, t), NEW amount \in Nat,
         ~IsRateLimited(p, amount, t)
  PROVE  InOrder(Consume(p, amount, t), t)
<1>1. CASE RateLimitDuration = 0
  BY <1>1 DEF Consume
<1>2. CASE RateLimitDuration # 0
  <2> DEFINE cap == CurrentCapacity(p, t)
  <2>1. cap \in Nat /\ cap <= p.limit
    BY <1>2, CapacityInRange
  <2>2. amount <= cap
    BY <1>2, <2>1 DEF IsRateLimited
  <2>3. Consume(p, amount, t) = [p EXCEPT !.currentCapacity = cap - amount,
                                          !.lastTxTimestamp = t]
    BY <1>2 DEF Consume
  <2> HIDE DEF cap
  <2>4. cap - amount \in Nat /\ cap - amount <= p.limit
    BY <2>1, <2>2 DEF InOrder, RateLimitParams
  <2>5. InOrder([p EXCEPT !.currentCapacity = cap - amount, !.lastTxTimestamp = t], t)
    BY <2>4, UpdateInOrder
  <2>. QED
    BY <2>3, <2>5
<1>. QED
  BY <1>1, <1>2

LEMMA BackfillInOrder ==
  ASSUME NEW t \in Nat, NEW p, InOrder(p, t), NEW amount \in Nat
  PROVE  InOrder(Backfill(p, amount, t), t)
<1>1. CASE RateLimitDuration = 0
  BY <1>1 DEF Backfill
<1>2. CASE RateLimitDuration # 0
  <2> DEFINE cap == CurrentCapacity(p, t)
             new == Min2(Min2(cap + amount, MaxAmount), p.limit)
  <2>1. cap \in Nat /\ cap <= p.limit /\ p.limit \in Nat /\ MaxAmount \in Nat
    BY <1>2, CapacityInRange, RateLimiterAssumption DEF InOrder, RateLimitParams
  <2>2. new \in Nat /\ new <= p.limit
    <3> HIDE DEF cap
    <3>. QED
      BY <2>1 DEF Min2
  <2>3. Backfill(p, amount, t) = [p EXCEPT !.currentCapacity = new, !.lastTxTimestamp = t]
    BY <1>2 DEF Backfill
  <2> HIDE DEF cap, new
  <2>4. InOrder([p EXCEPT !.currentCapacity = new, !.lastTxTimestamp = t], t)
    BY <2>2, UpdateInOrder
  <2>. QED
    BY <2>3, <2>4
<1>. QED
  BY <1>1, <1>2

--------------------------------------------------------------------------------
\* The invariant.

RegistryInv ==
    /\ registered \subseteq Transceivers
    /\ IsFiniteSet(registered)
    /\ enabled \subseteq registered
    /\ threshold \in 0..Cardinality(enabled)
    /\ enabled # {} => threshold # 0

ConfigInv ==
    /\ peers \in [Chains -> Managers \cup {NoPeer}]
    /\ paused \in BOOLEAN

LimitInv ==
    /\ now \in Nat
    /\ InOrder(outbound, now)
    /\ inbound \in [Chains -> RateLimitParams]
    /\ \A chain \in Chains : InOrder(inbound[chain], now)

OutboundTypes ==
    /\ nextMessageSequence \in Nat
    /\ outboundQueue \subseteq QueuedTransfers
    /\ published \subseteq [transceiver : Transceivers, destManager : Managers,
                            message : SentMessages]
    /\ refunded \subseteq Nat

InboundTypes ==
    /\ inboundQueue \subseteq [message : Messages, txTimestamp : Nat]
    /\ attestations \subseteq Messages \X Transceivers
    /\ executed \subseteq Messages
    /\ paid \subseteq Messages

TokenTypes ==
    /\ balances \in [Users -> Nat]
    /\ held \in Int

BooksInv ==
    /\ IsFiniteSet(outboundQueue)
    /\ IsFiniteSet(PublishedMessages)
    /\ IsFiniteSet(paid)
    /\ Conservation

IInv ==
    /\ RegistryInv
    /\ ConfigInv
    /\ LimitInv
    /\ OutboundTypes
    /\ InboundTypes
    /\ TokenTypes
    /\ OutboundSettledOnce
    /\ InboundSettledOnce
    /\ BooksInv

LEMMA IInvTypes == IInv => TypeOK
<1> SUFFICES ASSUME IInv PROVE TypeOK
  OBVIOUS
<1>1. threshold \in Nat
  BY FS_Subset, FS_CardinalityType DEF IInv, RegistryInv
<1>. QED
  BY <1>1 DEF IInv, RegistryInv, ConfigInv, LimitInv, InOrder, OutboundTypes, InboundTypes,
       TokenTypes, TypeOK

LEMMA InitEstablishes ==
  ASSUME Init
  PROVE  IInv
<1>1. RegistryInv
  BY FS_EmptySet DEF Init, Registry!Init, RegistryInv
<1>2. ConfigInv
  BY DEF Init, ConfigInv
<1>3. LimitInv
  <2>1. MaxAmount \in Nat
    BY RateLimiterAssumption
  <2>2. NullParams \in RateLimitParams /\ InOrder(NullParams, 1)
    BY <2>1 DEF NullParams, RateLimitParams, InOrder
  <2>3. CapacityAfterSet(NullParams, MaxAmount, 1) = MaxAmount
    BY DEF CapacityAfterSet, NullParams
  <2>4. InOrder(SetLimit(NullParams, MaxAmount, 1), 1)
    BY <2>1, <2>3 DEF SetLimit, InOrder, RateLimitParams
  <2>. QED
    BY <2>2, <2>4 DEF Init, LimitInv
<1>4. OutboundTypes /\ InboundTypes
  BY DEF Init, OutboundTypes, InboundTypes
<1>5. TokenTypes
  BY ManagerAssumption DEF Init, TokenTypes
<1>6. OutboundSettledOnce
  BY DEF Init, OutboundSettledOnce, QueuedSequences, SentSequences
<1>7. InboundSettledOnce
  BY DEF Init, InboundSettledOnce, QueuedMessages
<1>8. BooksInv
  BY FS_EmptySet, AmountsEmpty DEF Init, BooksInv, Conservation, PublishedMessages
<1>. QED
  BY <1>1, <1>2, <1>3, <1>4, <1>5, <1>6, <1>7, <1>8 DEF IInv

--------------------------------------------------------------------------------
\* The registry.

LEMMA RegistryEffect ==
  ASSUME [Next]_vars
  PROVE  \/ \E t \in Transceivers : Registry!SetTransceiver(t) \/ Registry!RemoveTransceiver(t)
         \/ \E n \in 1..MaxTransceivers : Registry!SetThreshold(n)
         \/ UNCHANGED registryVars
<1>1. CASE AdminNext
  BY <1>1 DEF AdminNext, SetTransceiver, RemoveTransceiver, SetThreshold, SetPeer,
              SetOutboundLimit, SetInboundLimit, Pause, Unpause
<1>2. CASE OutboundNext
  BY <1>2 DEF OutboundNext, TransferNow, TransferQueued, CompleteOutboundQueued,
              CancelOutboundQueued
<1>3. CASE InboundNext
  BY <1>3 DEF InboundNext, AttestationReceived, ExecuteMsg, CompleteInboundQueued
<1>4. CASE Tick
  BY <1>4 DEF Tick
<1>5. CASE UNCHANGED vars
  BY <1>5 DEF vars
<1>. QED
  BY <1>1, <1>2, <1>3, <1>4, <1>5 DEF Next

(* The counting of the instance is the counting of this module. *)
LEMMA SameCardinality ==
  \A S : Registry!Cardinality(S) = Cardinality(S)
BY DEF Cardinality, Registry!Cardinality

LEMMA RegistryStep ==
  ASSUME RegistryInv, [Next]_vars
  PROVE  RegistryInv'
<1>1. ASSUME NEW t \in Transceivers, Registry!SetTransceiver(t)
      PROVE  RegistryInv'
  <2>1. registered' = registered \cup {t} /\ enabled' = enabled \cup {t}
    BY <1>1 DEF Registry!SetTransceiver
  <2>2. IsFiniteSet(registered') /\ registered' \subseteq Transceivers
          /\ enabled' \subseteq registered'
    BY <2>1, FS_AddElement DEF RegistryInv
  <2>3. IsFiniteSet(enabled) /\ t \notin enabled
    BY <1>1, FS_Subset DEF RegistryInv, Registry!SetTransceiver
  <2>4. Cardinality(enabled') = Cardinality(enabled) + 1 /\ Cardinality(enabled) \in Nat
    BY <2>1, <2>3, FS_AddElement, FS_CardinalityType
  <2>5. threshold' \in Nat /\ threshold' \in 1..Cardinality(enabled')
    <3>1. CASE threshold = 0
      BY <1>1, <2>4, <3>1 DEF Registry!SetTransceiver
    <3>2. CASE threshold # 0
      <4>1. threshold' = threshold
        BY <1>1, <3>2 DEF Registry!SetTransceiver
      <4>2. threshold \in 0..Cardinality(enabled)
        BY DEF RegistryInv
      <4>. QED
        BY <2>4, <3>2, <4>1, <4>2
    <3>. QED
      BY <3>1, <3>2
  <2>. QED
    BY <2>2, <2>5 DEF RegistryInv
<1>2. ASSUME NEW t \in Transceivers, Registry!RemoveTransceiver(t)
      PROVE  RegistryInv'
  <2>1. registered' = registered /\ enabled' = enabled \ {t} /\ enabled' # {} /\ t \in enabled
    BY <1>2 DEF Registry!RemoveTransceiver
  <2>2. IsFiniteSet(enabled) /\ IsFiniteSet(enabled')
    BY <2>1, FS_Subset DEF RegistryInv
  <2>3. Cardinality(enabled') \in Nat /\ Cardinality(enabled') # 0
    BY <2>1, <2>2, FS_CardinalityType, FS_EmptySet
  <2>4. threshold' = IF Cardinality(enabled') < threshold THEN Cardinality(enabled')
                     ELSE threshold
    BY <1>2, <2>1, SameCardinality DEF Registry!RemoveTransceiver
  <2>5. threshold \in Nat /\ threshold >= 1
    <3>1. Cardinality(enabled) \in Nat
      BY <2>2, FS_CardinalityType
    <3>. QED
      BY <2>1, <3>1 DEF RegistryInv
  <2>6. threshold' \in Nat /\ threshold' \in 1..Cardinality(enabled')
    BY <2>3, <2>4, <2>5
  <2>. QED
    BY <2>1, <2>6 DEF RegistryInv
<1>3. ASSUME NEW n \in 1..MaxTransceivers, Registry!SetThreshold(n)
      PROVE  RegistryInv'
  <2>1. IsFiniteSet(enabled)
    BY FS_Subset DEF RegistryInv
  <2>2. Cardinality(enabled) \in Nat
    BY <2>1, FS_CardinalityType
  <2>3. threshold' \in 1..Cardinality(enabled) /\ registered' = registered
          /\ enabled' = enabled
    BY <1>3, SameCardinality DEF Registry!SetThreshold
  <2>. QED
    BY <2>2, <2>3 DEF RegistryInv
<1>4. CASE UNCHANGED registryVars
  BY <1>4 DEF registryVars, RegistryInv
<1>. QED
  BY <1>1, <1>2, <1>3, <1>4, RegistryEffect

(* A message that every enabled transceiver attested to is approved. *)
LEMMA RegistryServesAll == RegistryInv => NoMessageStranded
<1> SUFFICES ASSUME RegistryInv, NEW m \in Messages, enabled # {},
                    enabled \subseteq Attesters(m)
             PROVE  Approved(m, attestations, enabled, threshold)
  BY DEF NoMessageStranded
<1> DEFINE attesting == {t \in enabled : <<m, t>> \in attestations}
<1>1. attesting = enabled
  BY DEF Attesters
<1>2. Cardinality(enabled) \in Nat
  BY FS_Subset, FS_CardinalityType DEF RegistryInv
<1>3. threshold \in 1..Cardinality(enabled)
  BY <1>2 DEF RegistryInv
<1>4. Cardinality(attesting) >= threshold /\ threshold > 0
  <2> HIDE DEF attesting
  <2>. QED
    BY <1>1, <1>2, <1>3
<1>. QED
  BY <1>4 DEF Approved

--------------------------------------------------------------------------------
\* The limits: every step of the manager is, on the limits, a flow in one direction
\* with its backflow in the other, a move of a limit, or time.

OutboundFlow(chain, amount) ==
    /\ ~IsRateLimited(outbound, amount, now)
    /\ outbound' = Consume(outbound, amount, now)
    /\ inbound' = [inbound EXCEPT ![chain] = Backfill(@, amount, now)]
    /\ now' = now

InboundFlow(chain, amount) ==
    /\ ~IsRateLimited(inbound[chain], amount, now)
    /\ inbound' = [inbound EXCEPT ![chain] = Consume(@, amount, now)]
    /\ outbound' = Backfill(outbound, amount, now)
    /\ now' = now

OutboundLimitMove(limit) ==
    /\ SetLimitAllowed(outbound, limit, now)
    /\ outbound' = SetLimit(outbound, limit, now)
    /\ UNCHANGED <<inbound, now>>

InboundLimitMove(chain, limit) ==
    /\ SetLimitAllowed(inbound[chain], limit, now)
    /\ inbound' = [inbound EXCEPT ![chain] = SetLimit(@, limit, now)]
    /\ UNCHANGED <<outbound, now>>

LimitEffect ==
    \/ \E chain \in Chains, amount \in Nat :
         OutboundFlow(chain, amount) \/ InboundFlow(chain, amount)
    \/ \E limit \in Limits : OutboundLimitMove(limit)
    \/ \E chain \in Chains, limit \in Limits : InboundLimitMove(chain, limit)
    \/ UNCHANGED limitVars /\ now' \in {now, now + 1}

LEMMA HandleTransferLimits ==
  ASSUME NEW m \in Messages, HandleTransfer(m), now' = now
  PROVE  LimitEffect
<1>1. m.source \in Chains /\ m.amount \in Nat
  BY ManagerAssumption
<1>2. CASE UNCHANGED limitVars
  BY <1>2 DEF LimitEffect
<1>3. CASE InboundFlow(m.source, m.amount)
  BY <1>1, <1>3 DEF LimitEffect
<1>. QED
  BY <1>2, <1>3 DEF HandleTransfer, InboundFlow, limitVars

LEMMA LimitEffects ==
  ASSUME [Next]_vars
  PROVE  LimitEffect
<1>1. CASE AdminNext
  BY <1>1 DEF AdminNext, SetTransceiver, RemoveTransceiver, SetThreshold, SetPeer,
              SetOutboundLimit, SetInboundLimit, Pause, Unpause, limitVars,
              LimitEffect, OutboundLimitMove, InboundLimitMove
<1>2. CASE OutboundNext
  <2>1. ASSUME NEW user \in Users, NEW amount \in Amounts, NEW chain \in Chains,
               NEW recipient \in Users, TransferNow(user, amount, chain, recipient)
        PROVE  LimitEffect
    BY <2>1, ManagerAssumption DEF TransferNow, LimitEffect, OutboundFlow
  <2>2. ASSUME NEW user \in Users, NEW amount \in Amounts, NEW chain \in Chains,
               NEW recipient \in Users, TransferQueued(user, amount, chain, recipient)
        PROVE  LimitEffect
    BY <2>2 DEF TransferQueued, LimitEffect
  <2>3. ASSUME NEW entry \in outboundQueue, CompleteOutboundQueued(entry)
        PROVE  LimitEffect
    BY <2>3 DEF CompleteOutboundQueued, LimitEffect
  <2>4. ASSUME NEW entry \in outboundQueue, NEW user \in Users,
               CancelOutboundQueued(user, entry)
        PROVE  LimitEffect
    BY <2>4 DEF CancelOutboundQueued, LimitEffect
  <2>. QED
    BY <1>2, <2>1, <2>2, <2>3, <2>4 DEF OutboundNext
<1>3. CASE InboundNext
  <2>1. ASSUME NEW t \in Transceivers, NEW manager \in Managers, NEW m \in Messages,
               AttestationReceived(t, manager, m)
        PROVE  LimitEffect
    <3>1. CASE HandleTransfer(m)
      BY <2>1, <3>1, HandleTransferLimits DEF AttestationReceived
    <3>2. CASE UNCHANGED limitVars
      BY <2>1, <3>2 DEF AttestationReceived, LimitEffect
    <3>. QED
      BY <2>1, <3>1, <3>2 DEF AttestationReceived
  <2>2. ASSUME NEW m \in Messages, ExecuteMsg(m)
        PROVE  LimitEffect
    BY <2>2, HandleTransferLimits DEF ExecuteMsg
  <2>3. ASSUME NEW entry \in inboundQueue, CompleteInboundQueued(entry)
        PROVE  LimitEffect
    BY <2>3 DEF CompleteInboundQueued, LimitEffect
  <2>. QED
    BY <1>3, <2>1, <2>2, <2>3 DEF InboundNext
<1>4. CASE Tick
  BY <1>4 DEF Tick, LimitEffect
<1>5. CASE UNCHANGED vars
  BY <1>5 DEF vars, LimitEffect, limitVars
<1>. QED
  BY <1>1, <1>2, <1>3, <1>4, <1>5 DEF Next

LEMMA LimitStep ==
  ASSUME LimitInv, [Next]_vars
  PROVE  LimitInv'
<1>1. now \in Nat /\ InOrder(outbound, now)
  BY DEF LimitInv
<1>2. inbound \in [Chains -> RateLimitParams]
  BY DEF LimitInv
<1>3. \A chain \in Chains : InOrder(inbound[chain], now)
  BY DEF LimitInv
\* Writing an ordered limit for one chain keeps every chain's in order.
<1>4. ASSUME NEW chain \in Chains, NEW p, InOrder(p, now),
             inbound' = [inbound EXCEPT ![chain] = p]
      PROVE  inbound' \in [Chains -> RateLimitParams]
               /\ \A c \in Chains : InOrder(inbound'[c], now)
  <2>1. p \in RateLimitParams
    BY <1>4 DEF InOrder
  <2>2. \A c \in Chains : inbound'[c] = IF c = chain THEN p ELSE inbound[c]
    BY <1>2, <1>4
  <2>. QED
    BY <1>2, <1>3, <1>4, <2>1, <2>2
<1>5. ASSUME NEW chain \in Chains, NEW amount \in Nat, OutboundFlow(chain, amount)
      PROVE  LimitInv'
  <2>1. InOrder(Consume(outbound, amount, now), now)
    BY <1>1, <1>5, ConsumeInOrder DEF OutboundFlow
  <2>2. InOrder(Backfill(inbound[chain], amount, now), now)
    BY <1>1, <1>3, BackfillInOrder
  <2>. QED
    BY <1>1, <1>4, <1>5, <2>1, <2>2 DEF OutboundFlow, LimitInv
<1>6. ASSUME NEW chain \in Chains, NEW amount \in Nat, InboundFlow(chain, amount)
      PROVE  LimitInv'
  <2>1. InOrder(Consume(inbound[chain], amount, now), now)
    BY <1>1, <1>3, <1>6, ConsumeInOrder DEF InboundFlow
  <2>2. InOrder(Backfill(outbound, amount, now), now)
    BY <1>1, BackfillInOrder
  <2>. QED
    BY <1>1, <1>4, <1>6, <2>1, <2>2 DEF InboundFlow, LimitInv
<1>7. ASSUME NEW limit \in Limits, OutboundLimitMove(limit)
      PROVE  LimitInv'
  <2>1. InOrder(SetLimit(outbound, limit, now), now)
    BY <1>1, <1>7, SetLimitInOrder, ManagerAssumption DEF OutboundLimitMove
  <2>. QED
    BY <1>1, <1>2, <1>3, <1>7, <2>1 DEF OutboundLimitMove, LimitInv
<1>8. ASSUME NEW chain \in Chains, NEW limit \in Limits, InboundLimitMove(chain, limit)
      PROVE  LimitInv'
  <2>1. InOrder(SetLimit(inbound[chain], limit, now), now)
    BY <1>1, <1>3, <1>8, SetLimitInOrder, ManagerAssumption DEF InboundLimitMove
  <2>. QED
    BY <1>1, <1>4, <1>8, <2>1 DEF InboundLimitMove, LimitInv
<1>9. CASE UNCHANGED limitVars /\ now' \in {now, now + 1}
  <2>1. now' \in Nat /\ now <= now'
    BY <1>1, <1>9
  <2>2. \A p : InOrder(p, now) => InOrder(p, now')
    BY <1>1, <2>1 DEF InOrder, RateLimitParams
  <2>. QED
    BY <1>1, <1>2, <1>3, <1>9, <2>1, <2>2 DEF limitVars, LimitInv
<1>. QED
  BY <1>5, <1>6, <1>7, <1>8, <1>9, LimitEffects DEF LimitEffect

--------------------------------------------------------------------------------
\* What goes out.

LEMMA ConfigStep ==
  ASSUME ConfigInv, [Next]_vars
  PROVE  ConfigInv'
<1>1. CASE AdminNext
  <2>1. CASE UNCHANGED configVars
    BY <2>1 DEF configVars, ConfigInv
  <2>2. ASSUME NEW chain \in Chains, NEW manager \in Managers, NEW limit \in Limits,
               SetPeer(chain, manager, limit)
        PROVE  ConfigInv'
    BY <2>2 DEF SetPeer, ConfigInv
  <2>3. CASE Pause \/ Unpause
    BY <2>3 DEF Pause, Unpause, ConfigInv
  <2>. QED
    BY <1>1, <2>1, <2>2, <2>3 DEF AdminNext, SetTransceiver, RemoveTransceiver, SetThreshold,
                                  SetOutboundLimit, SetInboundLimit
<1>2. CASE OutboundNext
  BY <1>2 DEF OutboundNext, TransferNow, TransferQueued, CompleteOutboundQueued,
              CancelOutboundQueued, configVars, ConfigInv
<1>3. CASE InboundNext
  BY <1>3 DEF InboundNext, AttestationReceived, ExecuteMsg, CompleteInboundQueued,
              configVars, ConfigInv
<1>4. CASE Tick
  BY <1>4 DEF Tick, configVars, ConfigInv
<1>5. CASE UNCHANGED vars
  BY <1>5 DEF vars, configVars, ConfigInv
<1>. QED
  BY <1>1, <1>2, <1>3, <1>4, <1>5 DEF Next

(* The messages SendToTransceivers hands out for m. *)
LEMMA SendPublishes ==
  ASSUME ConfigInv, RegistryInv, OutboundTypes, NEW m \in SentMessages, SendToTransceivers(m)
  PROVE  /\ published' \subseteq [transceiver : Transceivers, destManager : Managers,
                                  message : SentMessages]
         /\ SentSequences' = SentSequences \cup {m.sequence}
         /\ \A p \in published' : p \in published \/ p.message = m
<1> DEFINE new == {[transceiver |-> t, destManager |-> peers[m.toChain], message |-> m] :
                     t \in enabled}
<1>1. published' = published \cup new /\ enabled # {} /\ peers[m.toChain] # NoPeer
  BY DEF SendToTransceivers
<1>2. m.toChain \in Chains
  BY DEF SentMessages
<1>3. peers[m.toChain] \in Managers
  BY <1>1, <1>2 DEF ConfigInv
<1>4. new \subseteq [transceiver : Transceivers, destManager : Managers, message : SentMessages]
  BY <1>3 DEF RegistryInv
<1>5. (\A p \in new : p.message = m) /\ new # {}
  <2>1. \A p \in new : p.message = m
    OBVIOUS
  <2>2. PICK t \in enabled : TRUE
    BY <1>1
  <2>3. [transceiver |-> t, destManager |-> peers[m.toChain], message |-> m] \in new
    OBVIOUS
  <2>. QED
    BY <2>1, <2>3
<1> HIDE DEF new
<1>6. SentSequences' = SentSequences \cup {m.sequence}
  BY <1>1, <1>5 DEF SentSequences
<1>. QED
  BY <1>1, <1>4, <1>5, <1>6 DEF OutboundTypes

OutboundInv == OutboundTypes /\ OutboundSettledOnce

LEMMA TransferNowStep ==
  ASSUME ConfigInv, RegistryInv, OutboundInv,
         NEW user \in Users, NEW amount \in Amounts, NEW chain \in Chains,
         NEW recipient \in Users, TransferNow(user, amount, chain, recipient)
  PROVE  OutboundInv'
<1> DEFINE s == nextMessageSequence
           m == Message(s, user, amount, chain, recipient)
<1>1. s \in Nat /\ nextMessageSequence' = s + 1
  BY DEF TransferNow, TakeTransfer, OutboundInv, OutboundTypes
<1>2. outboundQueue' = outboundQueue /\ refunded' = refunded
  BY DEF TransferNow
<1>3. m \in SentMessages /\ m.sequence = s
  BY <1>1, ManagerAssumption DEF Message, SentMessages
<1>4. /\ published' \subseteq [transceiver : Transceivers, destManager : Managers,
                               message : SentMessages]
      /\ SentSequences' = SentSequences \cup {s}
      /\ \A p \in published' : p \in published \/ p.message = m
  <2>1. SendToTransceivers(m)
    BY DEF TransferNow
  <2> HIDE DEF m, s
  <2>. QED
    BY <1>3, <2>1, SendPublishes DEF OutboundInv
<1>5. OutboundTypes'
  BY <1>1, <1>2, <1>4 DEF OutboundInv, OutboundTypes
<1>6. QueuedSequences' = QueuedSequences
  BY <1>2 DEF QueuedSequences
<1>7. s \notin QueuedSequences /\ s \notin SentSequences /\ s \notin refunded
  BY <1>1 DEF OutboundInv, OutboundSettledOnce
<1>8. 0..(nextMessageSequence' - 1) = 0..(s - 1) \cup {s}
  BY <1>1
<1>9. QueuedSequences' \cup SentSequences' \cup refunded' = 0..(nextMessageSequence' - 1)
  BY <1>2, <1>4, <1>6, <1>8 DEF OutboundInv, OutboundSettledOnce
<1>10. \A p, q \in published' : p.message.sequence = q.message.sequence => p.message = q.message
  <2>1. \A p \in published : p.message.sequence # s
    BY <1>7 DEF SentSequences
  <2> HIDE DEF m, s
  <2>. QED
    BY <1>3, <1>4, <2>1 DEF OutboundInv, OutboundSettledOnce
<1> HIDE DEF m, s
<1>. QED
  BY <1>2, <1>4, <1>5, <1>6, <1>7, <1>9, <1>10 DEF OutboundInv, OutboundSettledOnce

LEMMA TransferQueuedStep ==
  ASSUME OutboundInv,
         NEW user \in Users, NEW amount \in Amounts, NEW chain \in Chains,
         NEW recipient \in Users, TransferQueued(user, amount, chain, recipient), now \in Nat
  PROVE  OutboundInv'
<1> DEFINE s == nextMessageSequence
           e == [sequence |-> s, amount |-> amount, recipientChain |-> chain,
                 recipient |-> recipient, sender |-> user, txTimestamp |-> now]
<1>1. s \in Nat /\ nextMessageSequence' = s + 1
  BY DEF TransferQueued, TakeTransfer, OutboundInv, OutboundTypes
<1>2. outboundQueue' = outboundQueue \cup {e} /\ published' = published /\ refunded' = refunded
  BY DEF TransferQueued
<1>3. e \in QueuedTransfers /\ e.sequence = s
  BY <1>1, ManagerAssumption DEF QueuedTransfers
<1> HIDE DEF e
<1>4. OutboundTypes'
  BY <1>1, <1>2, <1>3 DEF OutboundInv, OutboundTypes
<1>5. QueuedSequences' = QueuedSequences \cup {s} /\ SentSequences' = SentSequences
  BY <1>2, <1>3 DEF QueuedSequences, SentSequences
<1>6. s \notin QueuedSequences /\ s \notin SentSequences /\ s \notin refunded
  BY <1>1 DEF OutboundInv, OutboundSettledOnce
<1>7. 0..(nextMessageSequence' - 1) = 0..(s - 1) \cup {s}
  BY <1>1
<1>8. QueuedSequences' \cup SentSequences' \cup refunded' = 0..(nextMessageSequence' - 1)
  BY <1>2, <1>5, <1>7 DEF OutboundInv, OutboundSettledOnce
<1>9. \A x, y \in outboundQueue' : x.sequence = y.sequence => x = y
  <2>1. \A x \in outboundQueue : x.sequence # s
    BY <1>6 DEF QueuedSequences
  <2> HIDE DEF s
  <2>. QED
    BY <1>2, <1>3, <2>1 DEF OutboundInv, OutboundSettledOnce
<1> HIDE DEF s
<1>. QED
  BY <1>2, <1>4, <1>5, <1>6, <1>8, <1>9 DEF OutboundInv, OutboundSettledOnce

(* Taking an entry from the queue takes its sequence number and no other. *)
LEMMA UnqueueSequences ==
  ASSUME OutboundInv, NEW entry \in outboundQueue,
         outboundQueue' = Unqueue(outboundQueue, entry)
  PROVE  /\ QueuedSequences' = QueuedSequences \ {entry.sequence}
         /\ entry.sequence \in QueuedSequences
         /\ outboundQueue' \subseteq outboundQueue
BY DEF OutboundInv, OutboundSettledOnce, QueuedSequences, Unqueue

LEMMA CompleteOutboundStep ==
  ASSUME ConfigInv, RegistryInv, OutboundInv,
         NEW entry \in outboundQueue, CompleteOutboundQueued(entry)
  PROVE  OutboundInv'
<1> DEFINE s == entry.sequence
           m == Message(s, entry.sender, entry.amount, entry.recipientChain, entry.recipient)
<1>1. entry \in QueuedTransfers
  BY DEF OutboundInv, OutboundTypes
<1>2. m \in SentMessages /\ m.sequence = s /\ s \in Nat
  BY <1>1 DEF QueuedTransfers, Message, SentMessages
<1>3. refunded' = refunded /\ nextMessageSequence' = nextMessageSequence
  BY DEF CompleteOutboundQueued
<1>4. /\ QueuedSequences' = QueuedSequences \ {s}
      /\ s \in QueuedSequences
      /\ outboundQueue' \subseteq outboundQueue
  BY UnqueueSequences DEF CompleteOutboundQueued
<1>5. /\ published' \subseteq [transceiver : Transceivers, destManager : Managers,
                               message : SentMessages]
      /\ SentSequences' = SentSequences \cup {s}
      /\ \A p \in published' : p \in published \/ p.message = m
  <2>1. SendToTransceivers(m)
    BY DEF CompleteOutboundQueued
  <2> HIDE DEF m, s
  <2>. QED
    BY <1>2, <2>1, SendPublishes DEF OutboundInv
<1>6. OutboundTypes'
  BY <1>3, <1>4, <1>5 DEF OutboundInv, OutboundTypes
<1> HIDE DEF m, s
<1>7. s \notin SentSequences /\ s \notin refunded
  BY <1>4 DEF OutboundInv, OutboundSettledOnce
<1>8. QueuedSequences' \cup SentSequences' \cup refunded'
        = QueuedSequences \cup SentSequences \cup refunded
  BY <1>3, <1>4, <1>5
<1>9. \A p, q \in published' : p.message.sequence = q.message.sequence => p.message = q.message
  <2>1. \A p \in published : p.message.sequence # s
    BY <1>7 DEF SentSequences
  <2>. QED
    BY <1>2, <1>5, <2>1 DEF OutboundInv, OutboundSettledOnce
<1>. QED
  BY <1>3, <1>4, <1>5, <1>6, <1>7, <1>8, <1>9 DEF OutboundInv, OutboundSettledOnce

LEMMA CancelOutboundStep ==
  ASSUME OutboundInv, NEW user \in Users, NEW entry \in outboundQueue,
         CancelOutboundQueued(user, entry)
  PROVE  OutboundInv'
<1> DEFINE s == entry.sequence
<1>1. entry \in QueuedTransfers
  BY DEF OutboundInv, OutboundTypes
<1>2. s \in Nat
  BY <1>1 DEF QueuedTransfers
<1>3. /\ refunded' = refunded \cup {s}
      /\ nextMessageSequence' = nextMessageSequence
      /\ published' = published
  BY DEF CancelOutboundQueued
<1>4. /\ QueuedSequences' = QueuedSequences \ {s}
      /\ s \in QueuedSequences
      /\ outboundQueue' \subseteq outboundQueue
  BY UnqueueSequences DEF CancelOutboundQueued
<1> HIDE DEF s
<1>5. OutboundTypes'
  BY <1>2, <1>3, <1>4 DEF OutboundInv, OutboundTypes
<1>6. SentSequences' = SentSequences
  BY <1>3 DEF SentSequences
<1>7. s \notin SentSequences
  BY <1>4 DEF OutboundInv, OutboundSettledOnce
<1>8. QueuedSequences' \cup SentSequences' \cup refunded'
        = QueuedSequences \cup SentSequences \cup refunded
  BY <1>3, <1>4, <1>6
<1>. QED
  BY <1>3, <1>4, <1>5, <1>6, <1>7, <1>8 DEF OutboundInv, OutboundSettledOnce

LEMMA OutboundStep ==
  ASSUME ConfigInv, RegistryInv, LimitInv, OutboundInv, [Next]_vars
  PROVE  OutboundInv'
<1>1. CASE UNCHANGED outVars
  BY <1>1 DEF outVars, OutboundInv, OutboundTypes, OutboundSettledOnce, QueuedSequences,
              SentSequences
<1>2. CASE AdminNext
  BY <1>1, <1>2 DEF AdminNext, SetTransceiver, RemoveTransceiver, SetThreshold, SetPeer,
              SetOutboundLimit, SetInboundLimit, Pause, Unpause
<1>3. CASE OutboundNext
  BY <1>3, TransferNowStep, TransferQueuedStep, CompleteOutboundStep, CancelOutboundStep
     DEF OutboundNext, LimitInv
<1>4. CASE InboundNext
  BY <1>1, <1>4 DEF InboundNext, AttestationReceived, ExecuteMsg, CompleteInboundQueued
<1>5. CASE Tick
  BY <1>1, <1>5 DEF Tick
<1>6. CASE UNCHANGED vars
  BY <1>1, <1>6 DEF vars
<1>. QED
  BY <1>2, <1>3, <1>4, <1>5, <1>6 DEF Next

--------------------------------------------------------------------------------
\* What comes in.

InboundInv == InboundTypes /\ InboundSettledOnce

LEMMA HandleTransferStep ==
  ASSUME InboundInv, now \in Nat, NEW m \in Messages, ~ReplayProtect(m), HandleTransfer(m),
         attestations' \subseteq Messages \X Transceivers
  PROVE  InboundInv'
<1>1. m \notin executed /\ executed' = executed \cup {m}
  BY DEF ReplayProtect, HandleTransfer
<1>2. m \notin paid /\ m \notin QueuedMessages
  BY <1>1 DEF InboundInv, InboundSettledOnce
<1>3. CASE paid' = paid \cup {m} /\ inboundQueue' = inboundQueue
  <2>1. QueuedMessages' = QueuedMessages
    BY <1>3 DEF QueuedMessages
  <2>. QED
    BY <1>1, <1>2, <1>3, <2>1 DEF InboundInv, InboundTypes, InboundSettledOnce
<1>4. CASE /\ paid' = paid
           /\ inboundQueue' = inboundQueue \cup {[message |-> m, txTimestamp |-> now]}
  <2> DEFINE entry == [message |-> m, txTimestamp |-> now]
  <2>1. entry \in [message : Messages, txTimestamp : Nat] /\ entry.message = m
    OBVIOUS
  <2>2. inboundQueue' = inboundQueue \cup {entry}
    BY <1>4
  <2> HIDE DEF entry
  <2>3. QueuedMessages' = QueuedMessages \cup {m}
    BY <2>1, <2>2 DEF QueuedMessages
  <2>4. \A e \in inboundQueue : e.message # m
    BY <1>2 DEF QueuedMessages
  <2>5. \A e, f \in inboundQueue' : e.message = f.message => e = f
    BY <2>1, <2>2, <2>4 DEF InboundInv, InboundSettledOnce
  <2>. QED
    BY <1>1, <1>2, <1>4, <2>1, <2>2, <2>3, <2>5 DEF InboundInv, InboundTypes, InboundSettledOnce
<1>. QED
  BY <1>3, <1>4 DEF HandleTransfer

LEMMA CompleteInboundStep ==
  ASSUME InboundInv, NEW entry \in inboundQueue, CompleteInboundQueued(entry)
  PROVE  InboundInv'
<1> DEFINE m == entry.message
<1>1. /\ inboundQueue' = inboundQueue \ {entry}
      /\ paid' = paid \cup {m}
      /\ executed' = executed /\ attestations' = attestations
  BY DEF CompleteInboundQueued, Unqueue
<1>2. QueuedMessages' = QueuedMessages \ {m} /\ m \in QueuedMessages /\ m \in Messages
  BY <1>1 DEF InboundInv, InboundTypes, InboundSettledOnce, QueuedMessages
<1> HIDE DEF m
<1>. QED
  BY <1>1, <1>2 DEF InboundInv, InboundTypes, InboundSettledOnce

LEMMA InboundStep ==
  ASSUME LimitInv, InboundInv, [Next]_vars
  PROVE  InboundInv'
<1>0. now \in Nat
  BY DEF LimitInv
<1>1. CASE UNCHANGED inVars
  BY <1>1 DEF inVars, InboundInv, InboundTypes, InboundSettledOnce, QueuedMessages
<1>2. CASE AdminNext
  BY <1>1, <1>2 DEF AdminNext, SetTransceiver, RemoveTransceiver, SetThreshold, SetPeer,
              SetOutboundLimit, SetInboundLimit, Pause, Unpause
<1>3. CASE OutboundNext
  BY <1>1, <1>3 DEF OutboundNext, TransferNow, TransferQueued, CompleteOutboundQueued,
              CancelOutboundQueued
<1>4. CASE InboundNext
  <2>1. ASSUME NEW t \in Transceivers, NEW manager \in Managers, NEW m \in Messages,
               AttestationReceived(t, manager, m)
        PROVE  InboundInv'
    <3>1. attestations' \subseteq Messages \X Transceivers
      BY <2>1 DEF AttestationReceived, InboundInv, InboundTypes
    <3>2. CASE ~ReplayProtect(m) /\ HandleTransfer(m)
      BY <1>0, <3>1, <3>2, HandleTransferStep
    <3>3. CASE UNCHANGED <<inboundQueue, executed, paid>>
      BY <3>1, <3>3 DEF InboundInv, InboundTypes, InboundSettledOnce, QueuedMessages
    <3>. QED
      BY <2>1, <3>2, <3>3 DEF AttestationReceived
  <2>2. ASSUME NEW m \in Messages, ExecuteMsg(m)
        PROVE  InboundInv'
    <3>1. attestations' \subseteq Messages \X Transceivers
      BY <2>2 DEF ExecuteMsg, InboundInv, InboundTypes
    <3>. QED
      BY <1>0, <2>2, <3>1, HandleTransferStep DEF ExecuteMsg
  <2>. QED
    BY <1>4, <2>1, <2>2, CompleteInboundStep DEF InboundNext
<1>5. CASE Tick
  BY <1>1, <1>5 DEF Tick
<1>6. CASE UNCHANGED vars
  BY <1>1, <1>6 DEF vars
<1>. QED
  BY <1>2, <1>3, <1>4, <1>5, <1>6 DEF Next

--------------------------------------------------------------------------------
\* The tokens.

TokenEffect ==
    \/ \E user \in Users, amount \in Nat : TakeTokens(user, amount) \/ MintOrUnlock(user, amount)
    \/ UNCHANGED tokenVars

LEMMA HandleTransferTokens ==
  ASSUME NEW m \in Messages, HandleTransfer(m)
  PROVE  TokenEffect
<1>1. m.recipient \in Users /\ m.amount \in Nat
  BY ManagerAssumption
<1>. QED
  BY <1>1 DEF HandleTransfer, TokenEffect

LEMMA TokenEffects ==
  ASSUME OutboundTypes, InboundTypes, [Next]_vars
  PROVE  TokenEffect
<1>1. CASE AdminNext
  BY <1>1 DEF AdminNext, SetTransceiver, RemoveTransceiver, SetThreshold, SetPeer,
              SetOutboundLimit, SetInboundLimit, Pause, Unpause, TokenEffect
<1>2. CASE OutboundNext
  <2>1. ASSUME NEW user \in Users, NEW amount \in Amounts, TakeTokens(user, amount)
        PROVE  TokenEffect
    BY <2>1, ManagerAssumption DEF TokenEffect
  <2>2. ASSUME NEW entry \in outboundQueue, CompleteOutboundQueued(entry)
        PROVE  TokenEffect
    BY <2>2 DEF CompleteOutboundQueued, TokenEffect
  <2>3. ASSUME NEW entry \in outboundQueue, NEW user \in Users,
               CancelOutboundQueued(user, entry)
        PROVE  TokenEffect
    <3>1. entry.amount \in Nat
      BY DEF OutboundTypes, QueuedTransfers
    <3>. QED
      BY <2>3, <3>1 DEF CancelOutboundQueued, TokenEffect
  <2>. QED
    BY <1>2, <2>1, <2>2, <2>3 DEF OutboundNext, TransferNow, TransferQueued, TakeTransfer
<1>3. CASE InboundNext
  <2>1. ASSUME NEW t \in Transceivers, NEW manager \in Managers, NEW m \in Messages,
               AttestationReceived(t, manager, m)
        PROVE  TokenEffect
    <3>1. CASE HandleTransfer(m)
      BY <3>1, HandleTransferTokens
    <3>2. CASE UNCHANGED tokenVars
      BY <3>2 DEF TokenEffect
    <3>. QED
      BY <2>1, <3>1, <3>2 DEF AttestationReceived
  <2>2. ASSUME NEW m \in Messages, ExecuteMsg(m)
        PROVE  TokenEffect
    BY <2>2, HandleTransferTokens DEF ExecuteMsg
  <2>3. ASSUME NEW entry \in inboundQueue, CompleteInboundQueued(entry)
        PROVE  TokenEffect
    <3>1. entry.message \in Messages
      BY DEF InboundTypes
    <3>2. entry.message.recipient \in Users /\ entry.message.amount \in Nat
      BY <3>1, ManagerAssumption
    <3>. QED
      BY <2>3, <3>2 DEF CompleteInboundQueued, TokenEffect
  <2>. QED
    BY <1>3, <2>1, <2>2, <2>3 DEF InboundNext
<1>4. CASE Tick
  BY <1>4 DEF Tick, TokenEffect
<1>5. CASE UNCHANGED vars
  BY <1>5 DEF vars, TokenEffect, tokenVars
<1>. QED
  BY <1>1, <1>2, <1>3, <1>4, <1>5 DEF Next

LEMMA TokenStep ==
  ASSUME TokenTypes, TokenEffect
  PROVE  TokenTypes'
<1>1. ASSUME NEW user \in Users, NEW amount \in Nat, TakeTokens(user, amount)
      PROVE  TokenTypes'
  <2>1. balances[user] - amount \in Nat
    BY <1>1 DEF TakeTokens, TokenTypes
  <2>. QED
    BY <1>1, <2>1 DEF TakeTokens, TokenTypes
<1>2. ASSUME NEW user \in Users, NEW amount \in Nat, MintOrUnlock(user, amount)
      PROVE  TokenTypes'
  <2>1. balances[user] + amount \in Nat
    BY DEF TokenTypes
  <2>. QED
    BY <1>2, <2>1 DEF MintOrUnlock, TokenTypes
<1>3. CASE UNCHANGED tokenVars
  BY <1>3 DEF tokenVars, TokenTypes
<1>. QED
  BY <1>1, <1>2, <1>3 DEF TokenEffect

--------------------------------------------------------------------------------
\* The books.  Conservation needs that what is added to a set of the books was not
\* in it: the settlement of both directions says so.

(* The amounts the books add up. *)
LEMMA BookedAmounts ==
  ASSUME OutboundTypes, InboundTypes
  PROVE  /\ \A e \in outboundQueue : e.amount \in Nat
         /\ \A m \in PublishedMessages : m.amount \in Nat
         /\ \A m \in paid : m.amount \in Nat
<1>1. \A e \in outboundQueue : e.amount \in Nat
  BY DEF OutboundTypes, QueuedTransfers
<1>2. \A m \in PublishedMessages : m.amount \in Nat
  BY DEF OutboundTypes, PublishedMessages, SentMessages
<1>3. \A m \in paid : m.amount \in Nat
  BY ManagerAssumption DEF InboundTypes
<1>. QED
  BY <1>1, <1>2, <1>3

LEMMA BookedSums ==
  ASSUME OutboundTypes, InboundTypes, BooksInv
  PROVE  /\ SumOfAmounts(outboundQueue) \in Nat
         /\ SumOfAmounts(PublishedMessages) \in Nat
         /\ SumOfAmounts(paid) \in Nat
BY BookedAmounts, AmountsType DEF BooksInv

(* Sending adds one message to what is published. *)
LEMMA SendBooks ==
  ASSUME NEW m, SendToTransceivers(m)
  PROVE  PublishedMessages' = PublishedMessages \cup {m}
<1>1. PICK t \in enabled : TRUE
  BY DEF SendToTransceivers
<1> DEFINE p1 == [transceiver |-> t, destManager |-> peers[m.toChain], message |-> m]
<1>2. p1 \in published' /\ p1.message = m
  BY DEF SendToTransceivers
<1> HIDE DEF p1
<1>3. published \subseteq published' /\ \A p \in published' : p \in published \/ p.message = m
  BY DEF SendToTransceivers
<1>. QED
  BY <1>2, <1>3 DEF PublishedMessages

LEMMA TransferNowBooks ==
  ASSUME OutboundInv, InboundTypes, TokenTypes, BooksInv,
         NEW user \in Users, NEW amount \in Amounts, NEW chain \in Chains,
         NEW recipient \in Users, TransferNow(user, amount, chain, recipient)
  PROVE  BooksInv'
<1> DEFINE m == Message(nextMessageSequence, user, amount, chain, recipient)
<1>1. /\ PublishedMessages' = PublishedMessages \cup {m}
      /\ outboundQueue' = outboundQueue /\ paid' = paid /\ held' = held + amount
  BY SendBooks DEF TransferNow, TakeTransfer, TakeTokens, inVars
<1>2. m.amount = amount /\ m.sequence = nextMessageSequence /\ amount \in Nat
  BY ManagerAssumption DEF Message
<1> HIDE DEF m
<1>3. m \notin PublishedMessages
  <2>1. nextMessageSequence \notin SentSequences
    BY DEF OutboundInv, OutboundTypes, OutboundSettledOnce
  <2>. QED
    BY <1>2, <2>1 DEF PublishedMessages, SentSequences
<1>4. IsFiniteSet(PublishedMessages')
  BY <1>1, FS_AddElement DEF BooksInv
<1>5. SumOfAmounts(PublishedMessages') = SumOfAmounts(PublishedMessages) + amount
  BY <1>1, <1>2, <1>3, BookedAmounts, AmountsAdd DEF OutboundInv, BooksInv
<1>6. /\ SumOfAmounts(outboundQueue) \in Nat /\ SumOfAmounts(PublishedMessages) \in Nat
      /\ SumOfAmounts(paid) \in Nat /\ held \in Int
  BY BookedSums DEF OutboundInv, TokenTypes
<1>. QED
  BY <1>1, <1>2, <1>4, <1>5, <1>6 DEF BooksInv, Conservation

LEMMA TransferQueuedBooks ==
  ASSUME OutboundInv, InboundTypes, TokenTypes, BooksInv,
         NEW user \in Users, NEW amount \in Amounts, NEW chain \in Chains,
         NEW recipient \in Users, TransferQueued(user, amount, chain, recipient)
  PROVE  BooksInv'
<1> DEFINE e == [sequence |-> nextMessageSequence, amount |-> amount, recipientChain |-> chain,
                 recipient |-> recipient, sender |-> user, txTimestamp |-> now]
<1>1. /\ outboundQueue' = outboundQueue \cup {e}
      /\ published' = published /\ paid' = paid /\ held' = held + amount
  BY DEF TransferQueued, TakeTransfer, TakeTokens, inVars
<1>2. e.amount = amount /\ e.sequence = nextMessageSequence /\ amount \in Nat
  BY ManagerAssumption
<1> HIDE DEF e
<1>3. e \notin outboundQueue
  <2>1. nextMessageSequence \notin QueuedSequences
    BY DEF OutboundInv, OutboundTypes, OutboundSettledOnce
  <2>. QED
    BY <1>2, <2>1 DEF QueuedSequences
<1>4. IsFiniteSet(outboundQueue') /\ PublishedMessages' = PublishedMessages
  BY <1>1, FS_AddElement DEF BooksInv, PublishedMessages
<1>5. SumOfAmounts(outboundQueue') = SumOfAmounts(outboundQueue) + amount
  BY <1>1, <1>2, <1>3, BookedAmounts, AmountsAdd DEF OutboundInv, BooksInv
<1>6. /\ SumOfAmounts(outboundQueue) \in Nat /\ SumOfAmounts(PublishedMessages) \in Nat
      /\ SumOfAmounts(paid) \in Nat /\ held \in Int
  BY BookedSums DEF OutboundInv, TokenTypes
<1>. QED
  BY <1>1, <1>2, <1>4, <1>5, <1>6 DEF BooksInv, Conservation

(* What leaves the queue was in its sum. *)
LEMMA UnqueueBooks ==
  ASSUME OutboundInv, InboundTypes, BooksInv, NEW entry \in outboundQueue,
         outboundQueue' = Unqueue(outboundQueue, entry)
  PROVE  /\ IsFiniteSet(outboundQueue')
         /\ SumOfAmounts(outboundQueue') = SumOfAmounts(outboundQueue) - entry.amount
         /\ entry.amount \in Nat
BY BookedAmounts, AmountsRemove, FS_Subset DEF OutboundInv, BooksInv, Unqueue

LEMMA CompleteOutboundBooks ==
  ASSUME OutboundInv, InboundTypes, TokenTypes, BooksInv,
         NEW entry \in outboundQueue, CompleteOutboundQueued(entry)
  PROVE  BooksInv'
<1> DEFINE m == Message(entry.sequence, entry.sender, entry.amount, entry.recipientChain,
                        entry.recipient)
<1>1. /\ PublishedMessages' = PublishedMessages \cup {m}
      /\ outboundQueue' = Unqueue(outboundQueue, entry) /\ paid' = paid /\ held' = held
  BY SendBooks DEF CompleteOutboundQueued, inVars, tokenVars
<1>2. m.amount = entry.amount /\ m.sequence = entry.sequence
  BY DEF Message
<1> HIDE DEF m
<1>3. /\ IsFiniteSet(outboundQueue') /\ entry.amount \in Nat
      /\ SumOfAmounts(outboundQueue') = SumOfAmounts(outboundQueue) - entry.amount
  BY <1>1, UnqueueBooks
<1>4. m \notin PublishedMessages
  <2>1. entry.sequence \notin SentSequences
    BY DEF OutboundInv, OutboundSettledOnce, QueuedSequences
  <2>. QED
    BY <1>2, <2>1 DEF PublishedMessages, SentSequences
<1>5. IsFiniteSet(PublishedMessages')
  BY <1>1, FS_AddElement DEF BooksInv
<1>6. SumOfAmounts(PublishedMessages') = SumOfAmounts(PublishedMessages) + entry.amount
  BY <1>1, <1>2, <1>3, <1>4, BookedAmounts, AmountsAdd DEF OutboundInv, BooksInv
<1>7. /\ SumOfAmounts(outboundQueue) \in Nat /\ SumOfAmounts(PublishedMessages) \in Nat
      /\ SumOfAmounts(paid) \in Nat /\ held \in Int
  BY BookedSums DEF OutboundInv, TokenTypes
<1>. QED
  BY <1>1, <1>3, <1>5, <1>6, <1>7 DEF BooksInv, Conservation

LEMMA CancelOutboundBooks ==
  ASSUME OutboundInv, InboundTypes, TokenTypes, BooksInv,
         NEW user \in Users, NEW entry \in outboundQueue, CancelOutboundQueued(user, entry)
  PROVE  BooksInv'
<1>1. /\ outboundQueue' = Unqueue(outboundQueue, entry)
      /\ published' = published /\ paid' = paid /\ held' = held - entry.amount
  BY DEF CancelOutboundQueued, MintOrUnlock, inVars
<1>2. /\ IsFiniteSet(outboundQueue') /\ entry.amount \in Nat
      /\ SumOfAmounts(outboundQueue') = SumOfAmounts(outboundQueue) - entry.amount
  BY <1>1, UnqueueBooks
<1>3. PublishedMessages' = PublishedMessages
  BY <1>1 DEF PublishedMessages
<1>4. /\ SumOfAmounts(outboundQueue) \in Nat /\ SumOfAmounts(PublishedMessages) \in Nat
      /\ SumOfAmounts(paid) \in Nat /\ held \in Int
  BY BookedSums DEF OutboundInv, TokenTypes
<1>. QED
  BY <1>1, <1>2, <1>3, <1>4 DEF BooksInv, Conservation

(* Paying a message that was not paid before. *)
LEMMA PayBooks ==
  ASSUME OutboundTypes, InboundTypes, TokenTypes, BooksInv,
         NEW m \in Messages, m \notin paid, paid' = paid \cup {m}, held' = held - m.amount,
         outboundQueue' = outboundQueue, published' = published
  PROVE  BooksInv'
<1>1. m.amount \in Nat
  BY ManagerAssumption
<1>2. IsFiniteSet(paid') /\ PublishedMessages' = PublishedMessages
  BY FS_AddElement DEF BooksInv, PublishedMessages
<1>3. SumOfAmounts(paid') = SumOfAmounts(paid) + m.amount
  BY <1>1, BookedAmounts, AmountsAdd DEF BooksInv
<1>4. /\ SumOfAmounts(outboundQueue) \in Nat /\ SumOfAmounts(PublishedMessages) \in Nat
      /\ SumOfAmounts(paid) \in Nat /\ held \in Int
  BY BookedSums DEF TokenTypes
<1>. QED
  BY <1>1, <1>2, <1>3, <1>4 DEF BooksInv, Conservation

LEMMA HandleTransferBooks ==
  ASSUME OutboundTypes, InboundInv, TokenTypes, BooksInv, NEW m \in Messages,
         ~ReplayProtect(m), HandleTransfer(m), UNCHANGED outVars
  PROVE  BooksInv'
<1>1. m \notin paid
  BY DEF InboundInv, InboundSettledOnce, ReplayProtect
<1>2. outboundQueue' = outboundQueue /\ published' = published
  BY DEF outVars
<1>3. CASE paid' = paid \cup {m} /\ held' = held - m.amount
  BY <1>1, <1>2, <1>3, PayBooks DEF InboundInv
<1>4. CASE paid' = paid /\ held' = held
  BY <1>2, <1>4 DEF BooksInv, Conservation, PublishedMessages
<1>. QED
  BY <1>3, <1>4 DEF HandleTransfer, MintOrUnlock, tokenVars

LEMMA BooksStep ==
  ASSUME OutboundInv, InboundInv, TokenTypes, BooksInv, [Next]_vars
  PROVE  BooksInv'
<1>0. OutboundTypes /\ InboundTypes
  BY DEF OutboundInv, InboundInv
<1>1. CASE UNCHANGED <<outboundQueue, published, paid, held>>
  BY <1>1 DEF BooksInv, Conservation, PublishedMessages
<1>2. CASE AdminNext
  BY <1>1, <1>2 DEF AdminNext, SetTransceiver, RemoveTransceiver, SetThreshold, SetPeer,
              SetOutboundLimit, SetInboundLimit, Pause, Unpause, outVars, inVars, tokenVars
<1>3. CASE OutboundNext
  BY <1>0, <1>3, TransferNowBooks, TransferQueuedBooks, CompleteOutboundBooks,
     CancelOutboundBooks DEF OutboundNext
<1>4. CASE InboundNext
  <2>1. ASSUME NEW t \in Transceivers, NEW manager \in Managers, NEW m \in Messages,
               AttestationReceived(t, manager, m)
        PROVE  BooksInv'
    <3>1. UNCHANGED outVars
      BY <2>1 DEF AttestationReceived
    <3>2. CASE ~ReplayProtect(m) /\ HandleTransfer(m)
      BY <1>0, <3>1, <3>2, HandleTransferBooks
    <3>3. CASE UNCHANGED <<paid, tokenVars>>
      BY <1>1, <3>1, <3>3 DEF outVars, tokenVars
    <3>. QED
      BY <2>1, <3>2, <3>3 DEF AttestationReceived
  <2>2. ASSUME NEW m \in Messages, ExecuteMsg(m)
        PROVE  BooksInv'
    BY <1>0, <2>2, HandleTransferBooks DEF ExecuteMsg
  <2>3. ASSUME NEW entry \in inboundQueue, CompleteInboundQueued(entry)
        PROVE  BooksInv'
    <3>1. entry.message \in Messages /\ entry.message \notin paid
      BY DEF InboundInv, InboundTypes, InboundSettledOnce, QueuedMessages
    <3>. QED
      BY <1>0, <2>3, <3>1, PayBooks DEF CompleteInboundQueued, MintOrUnlock, outVars
  <2>. QED
    BY <1>4, <2>1, <2>2, <2>3 DEF InboundNext
<1>5. CASE Tick
  BY <1>1, <1>5 DEF Tick, outVars, inVars, tokenVars
<1>6. CASE UNCHANGED vars
  BY <1>1, <1>6 DEF vars, outVars, inVars, tokenVars
<1>. QED
  BY <1>2, <1>3, <1>4, <1>5, <1>6 DEF Next

--------------------------------------------------------------------------------

LEMMA NextPreserves ==
  ASSUME IInv, [Next]_vars
  PROVE  IInv'
<1>1. RegistryInv' /\ ConfigInv' /\ LimitInv'
  BY RegistryStep, ConfigStep, LimitStep DEF IInv
<1>2. OutboundInv'
  BY OutboundStep DEF IInv, OutboundInv
<1>3. InboundInv'
  BY InboundStep DEF IInv, InboundInv
<1>4. TokenTypes'
  BY TokenEffects, TokenStep DEF IInv
<1>5. BooksInv'
  BY BooksStep DEF IInv, OutboundInv, InboundInv
<1>. QED
  BY <1>1, <1>2, <1>3, <1>4, <1>5 DEF IInv, OutboundInv, InboundInv

LEMMA SpecInvariant == Spec => []IInv
BY InitEstablishes, NextPreserves, PTL DEF Spec

(* Every variable keeps its type: in particular a capacity, a balance and a sequence
   number never leave the naturals, whatever the calls (NttManager.sol,
   ManagerBase.sol, RateLimiter.sol). *)
THEOREM ManagerTypes == Spec => []TypeOK
BY SpecInvariant, IInvTypes, PTL

(* A transfer is queued, sent or refunded, never two of them
   (NttManager.sol:327-378, 421-522). *)
THEOREM OutboundSettlement == Spec => []OutboundSettledOnce
<1>1. IInv => OutboundSettledOnce
  BY DEF IInv
<1>. QED
  BY <1>1, SpecInvariant, PTL

(* A message is executed once, and paid or queued once (NttManager.sol:188-324). *)
THEOREM InboundSettlement == Spec => []InboundSettledOnce
<1>1. IInv => InboundSettledOnce
  BY DEF IInv
<1>. QED
  BY <1>1, SpecInvariant, PTL

(* The books balance: whatever is queued, sent, cancelled, completed and paid, in any
   order and with any amounts, the tokens the manager holds (or burned less minted) are
   those of the transfers queued or sent less those paid out
   (NttManager.sol:327-378, 421-522, 661-667, 691-706). *)
THEOREM BooksBalance == Spec => []Conservation
<1>1. IInv => Conservation
  BY DEF IInv, BooksInv
<1>. QED
  BY <1>1, SpecInvariant, PTL

(* No sequence of removals, registrations and thresholds strands a message all the
   enabled transceivers attested to (ManagerBase.sol:390-405). *)
THEOREM AttestedByAllIsApproved == Spec => []NoMessageStranded
<1>1. IInv => NoMessageStranded
  BY RegistryServesAll DEF IInv
<1>. QED
  BY <1>1, SpecInvariant, PTL

--------------------------------------------------------------------------------
\* Action properties.

LEMMA ApprovedQuorum ==
  ASSUME NEW m, NEW atts, Approved(m, atts, enabled, threshold)
  PROVE  \E quorum \in SUBSET enabled :
            /\ threshold > 0
            /\ Cardinality(quorum) >= threshold
            /\ \A t \in quorum : <<m, t>> \in atts
<1> DEFINE attesting == {t \in enabled : <<m, t>> \in atts}
<1>1. attesting \in SUBSET enabled /\ \A t \in attesting : <<m, t>> \in atts
  OBVIOUS
<1>2. threshold > 0 /\ Cardinality(attesting) >= threshold
  BY DEF Approved
<1> HIDE DEF attesting
<1>. QED
  BY <1>1, <1>2

QuorumOnExecution ==
    \A m \in executed' \ executed :
        \E quorum \in SUBSET enabled :
            /\ threshold > 0
            /\ Cardinality(quorum) >= threshold
            /\ \A t \in quorum : <<m, t>> \in attestations'

LEMMA QuorumStep ==
  ASSUME [Next]_vars
  PROVE  QuorumOnExecution
<1>1. CASE UNCHANGED executed
  BY <1>1 DEF QuorumOnExecution
<1>2. CASE InboundNext
  <2>1. ASSUME NEW t \in Transceivers, NEW manager \in Managers, NEW m \in Messages,
               AttestationReceived(t, manager, m)
        PROVE  QuorumOnExecution
    <3>1. CASE Approved(m, attestations', enabled, threshold) /\ HandleTransfer(m)
      <4>1. executed' \ executed \subseteq {m}
        BY <3>1 DEF HandleTransfer
      <4>. QED
        BY <3>1, <4>1, ApprovedQuorum DEF QuorumOnExecution
    <3>. QED
      BY <1>1, <2>1, <3>1 DEF AttestationReceived
  <2>2. ASSUME NEW m \in Messages, ExecuteMsg(m)
        PROVE  QuorumOnExecution
    <3>1. executed' \ executed \subseteq {m} /\ attestations' = attestations
      BY <2>2 DEF ExecuteMsg, HandleTransfer
    <3>2. Approved(m, attestations', enabled, threshold)
      BY <2>2, <3>1 DEF ExecuteMsg
    <3>. QED
      BY <3>1, <3>2, ApprovedQuorum DEF QuorumOnExecution
  <2>. QED
    BY <1>1, <1>2, <2>1, <2>2 DEF InboundNext, CompleteInboundQueued
<1>3. CASE AdminNext
  BY <1>1, <1>3 DEF AdminNext, SetTransceiver, RemoveTransceiver, SetThreshold, SetPeer,
              SetOutboundLimit, SetInboundLimit, Pause, Unpause, inVars
<1>4. CASE OutboundNext
  BY <1>1, <1>4 DEF OutboundNext, TransferNow, TransferQueued, CompleteOutboundQueued,
              CancelOutboundQueued, inVars
<1>5. CASE Tick
  BY <1>1, <1>5 DEF Tick, inVars
<1>6. CASE UNCHANGED vars
  BY <1>1, <1>6 DEF vars, inVars
<1>. QED
  BY <1>2, <1>3, <1>4, <1>5, <1>6 DEF Next

(* Whatever the registry does between the attestations, a message is executed only
   by a quorum of the transceivers enabled at that moment (ManagerBase.sol:163-184,
   isMessageApproved). *)
THEOREM QuorumAtExecution == Spec => ExecutedByQuorum
<1>1. [Next]_vars => [QuorumOnExecution]_vars
  BY QuorumStep
<1>. QED
  BY <1>1, PTL DEF Spec, ExecutedByQuorum, QuorumOnExecution

(* Sending publishes messages of the one transfer. *)
LEMMA SentOf ==
  ASSUME NEW m, SendToTransceivers(m), NEW p \in published' \ published
  PROVE  p.message = m
BY DEF SendToTransceivers

LEMMA TransferCharged ==
  ASSUME NEW user \in Users, NEW amount \in Amounts, NEW chain \in Chains,
         NEW recipient \in Users, TransferNow(user, amount, chain, recipient)
  PROVE  FlowsCharged
<1> DEFINE m == Message(nextMessageSequence, user, amount, chain, recipient)
<1>1. SendToTransceivers(m) /\ ChargedOutbound(chain, amount) /\ paid' = paid
  BY DEF TransferNow, ChargedOutbound, inVars
<1>2. m.toChain = chain /\ m.amount = amount
  BY DEF Message
<1> HIDE DEF m
<1>. QED
  BY <1>1, <1>2, SentOf DEF FlowsCharged

LEMMA CompletionWaited ==
  ASSUME NEW entry \in outboundQueue, CompleteOutboundQueued(entry)
  PROVE  FlowsCharged
<1> DEFINE m == Message(entry.sequence, entry.sender, entry.amount, entry.recipientChain,
                        entry.recipient)
<1>1. SendToTransceivers(m) /\ now - entry.txTimestamp >= RateLimitDuration /\ paid' = paid
  BY DEF CompleteOutboundQueued, Waited, inVars
<1>2. m.sequence = entry.sequence
  BY DEF Message
<1> HIDE DEF m
<1>. QED
  BY <1>1, <1>2, SentOf DEF FlowsCharged

LEMMA HandlingCharged ==
  ASSUME NEW m \in Messages, HandleTransfer(m), published' = published
  PROVE  FlowsCharged
BY DEF HandleTransfer, FlowsCharged, ChargedInbound

LEMMA FlowStep ==
  ASSUME [Next]_vars
  PROVE  FlowsCharged
<1>1. CASE UNCHANGED <<published, paid>>
  BY <1>1 DEF FlowsCharged
<1>2. CASE AdminNext
  BY <1>1, <1>2 DEF AdminNext, SetTransceiver, RemoveTransceiver, SetThreshold, SetPeer,
              SetOutboundLimit, SetInboundLimit, Pause, Unpause, inVars, outVars
<1>3. CASE OutboundNext
  BY <1>1, <1>3, TransferCharged, CompletionWaited DEF OutboundNext, TransferQueued,
              CancelOutboundQueued, inVars
<1>4. CASE InboundNext
  <2>1. ASSUME NEW t \in Transceivers, NEW manager \in Managers, NEW m \in Messages,
               AttestationReceived(t, manager, m)
        PROVE  FlowsCharged
    BY <1>1, <2>1, HandlingCharged DEF AttestationReceived, outVars
  <2>2. ASSUME NEW m \in Messages, ExecuteMsg(m)
        PROVE  FlowsCharged
    BY <2>2, HandlingCharged DEF ExecuteMsg, outVars
  <2>3. ASSUME NEW entry \in inboundQueue, CompleteInboundQueued(entry)
        PROVE  FlowsCharged
    BY <2>3 DEF CompleteInboundQueued, Waited, FlowsCharged, outVars
  <2>. QED
    BY <1>4, <2>1, <2>2, <2>3 DEF InboundNext
<1>5. CASE Tick \/ UNCHANGED vars
  BY <1>1, <1>5 DEF Tick, vars, inVars, outVars
<1>. QED
  BY <1>2, <1>3, <1>4, <1>5 DEF Next

(* Nothing is sent or paid that was not charged to its limit in the same call, or had
   waited in a queue for the whole duration (NttManager.sol:188-378, 421-522). *)
THEOREM FlowsCharge == Spec => FlowsAreCharged
<1>1. [Next]_vars => [FlowsCharged]_vars
  BY FlowStep
<1>. QED
  BY <1>1, PTL DEF Spec, FlowsAreCharged

--------------------------------------------------------------------------------
\* The manager implements what every manager promises of arriving messages.

VotesNow == [m \in Messages |-> Attesters(m)]
StatusNow == [m \in Messages |-> StatusOf(m)]

LEMMA SameCounting ==
  \A S : Arrivals!Cardinality(S) = Cardinality(S)
BY DEF Cardinality, Arrivals!Cardinality

(* Approval is the abstract quorum of those who attested. *)
LEMMA ApprovedIsQuorum ==
  ASSUME RegistryInv, NEW m \in Messages, NEW atts, Approved(m, atts, enabled, threshold)
  PROVE  Arrivals!Quorum({t \in Transceivers : <<m, t>> \in atts})
<1>1. {t \in Transceivers : <<m, t>> \in atts} \cap enabled = {t \in enabled : <<m, t>> \in atts}
  BY DEF RegistryInv
<1>. QED
  BY <1>1, SameCounting DEF Arrivals!Quorum, Approved

LEMMA HandlingStatus ==
  ASSUME InboundInv, NEW m \in Messages, ~ReplayProtect(m), HandleTransfer(m)
  PROVE  /\ StatusNow[m] = "NotApproved"
         /\ \E s \in {"Queued", "Paid"} : StatusNow' = [StatusNow EXCEPT ![m] = s]
<1>1. m \notin executed /\ m \notin paid /\ executed' = executed \cup {m}
  BY DEF InboundInv, InboundSettledOnce, ReplayProtect, HandleTransfer
<1>2. StatusNow[m] = "NotApproved"
  BY <1>1 DEF StatusNow, StatusOf
<1>3. CASE paid' = paid \cup {m}
  <2>1. StatusNow' = [StatusNow EXCEPT ![m] = "Paid"]
    BY <1>1, <1>3 DEF StatusNow, StatusOf
  <2>. QED
    BY <1>2, <2>1
<1>4. CASE paid' = paid
  <2>1. StatusNow' = [StatusNow EXCEPT ![m] = "Queued"]
    BY <1>1, <1>4 DEF StatusNow, StatusOf
  <2>. QED
    BY <1>2, <2>1
<1>. QED
  BY <1>3, <1>4 DEF HandleTransfer

LEMMA AttestationImplements ==
  ASSUME RegistryInv, InboundInv, NEW t \in Transceivers, NEW manager, NEW m \in Messages,
         AttestationReceived(t, manager, m)
  PROVE  Arrivals!Vote(m, t)
<1>1. t \in enabled /\ UNCHANGED <<enabled, threshold>>
      /\ attestations' = attestations \cup {<<m, t>>}
  BY DEF AttestationReceived, registryVars
<1>2. VotesNow' = [VotesNow EXCEPT ![m] = VotesNow[m] \cup {t}]
  <2>1. \A n \in Messages : Attesters(n)' = IF n = m THEN Attesters(n) \cup {t} ELSE Attesters(n)
    BY <1>1 DEF Attesters
  <2> HIDE DEF Attesters
  <2>. QED
    BY <2>1 DEF VotesNow
<1>3. VotesNow'[m] = {u \in Transceivers : <<m, u>> \in attestations'}
  BY DEF VotesNow, Attesters
<1>4. CASE ~ReplayProtect(m) /\ HandleTransfer(m)
            /\ Approved(m, attestations', enabled, threshold)
  <2>1. /\ StatusNow[m] = "NotApproved"
        /\ \E s \in {"Queued", "Paid"} : StatusNow' = [StatusNow EXCEPT ![m] = s]
    BY <1>4, HandlingStatus
  <2>2. Arrivals!Quorum(VotesNow'[m])
    BY <1>3, <1>4, ApprovedIsQuorum
  <2>. QED
    BY <1>1, <1>2, <2>1, <2>2 DEF Arrivals!Vote, Arrivals!Executed, VotesNow, StatusNow
<1>5. CASE UNCHANGED <<executed, paid>>
  <2>1. StatusNow' = StatusNow
    BY <1>5 DEF StatusNow, StatusOf
  <2>. QED
    BY <1>1, <1>2, <2>1 DEF Arrivals!Vote, VotesNow, StatusNow
<1>. QED
  BY <1>4, <1>5 DEF AttestationReceived

LEMMA ExecuteImplements ==
  ASSUME RegistryInv, InboundInv, NEW m \in Messages, ExecuteMsg(m)
  PROVE  Arrivals!Execute(m)
<1>1. /\ UNCHANGED <<enabled, threshold>> /\ attestations' = attestations
      /\ ~ReplayProtect(m) /\ HandleTransfer(m)
      /\ Approved(m, attestations, enabled, threshold)
  BY DEF ExecuteMsg, registryVars
<1>2. VotesNow' = VotesNow /\ VotesNow[m] = {u \in Transceivers : <<m, u>> \in attestations}
  BY <1>1 DEF VotesNow, Attesters
<1>3. Arrivals!Quorum(VotesNow[m])
  BY <1>1, <1>2, ApprovedIsQuorum
<1>4. /\ StatusNow[m] = "NotApproved"
      /\ \E s \in {"Queued", "Paid"} : StatusNow' = [StatusNow EXCEPT ![m] = s]
  BY <1>1, HandlingStatus
<1>. QED
  BY <1>1, <1>2, <1>3, <1>4 DEF Arrivals!Execute, Arrivals!Executed, VotesNow, StatusNow

LEMMA CompletionImplements ==
  ASSUME InboundInv, NEW entry \in inboundQueue, CompleteInboundQueued(entry)
  PROVE  entry.message \in Messages /\ Arrivals!Complete(entry.message)
<1> DEFINE m == entry.message
<1>1. /\ m \in Messages /\ m \in executed /\ m \notin paid
      /\ paid' = paid \cup {m} /\ executed' = executed /\ attestations' = attestations
      /\ UNCHANGED <<enabled, threshold>>
  BY DEF InboundInv, InboundTypes, InboundSettledOnce, QueuedMessages, CompleteInboundQueued,
         registryVars
<1> HIDE DEF m
<1>2. StatusNow[m] = "Queued" /\ StatusNow' = [StatusNow EXCEPT ![m] = "Paid"]
  BY <1>1 DEF StatusNow, StatusOf
<1>3. VotesNow' = VotesNow
  BY <1>1 DEF VotesNow, Attesters
<1>4. Arrivals!Complete(m)
  BY <1>1, <1>2, <1>3 DEF Arrivals!Complete, VotesNow, StatusNow
<1>. QED
  BY <1>1, <1>4 DEF m

LEMMA QuietImplements ==
  ASSUME RegistryInv', UNCHANGED inVars
  PROVE  Arrivals!Next
<1>1. enabled' \subseteq Transceivers /\ threshold' \in Nat
  BY FS_Subset, FS_CardinalityType DEF RegistryInv
<1>2. VotesNow' = VotesNow /\ StatusNow' = StatusNow
  BY DEF VotesNow, StatusNow, Attesters, StatusOf, inVars
<1>3. Arrivals!Administer
  BY <1>1, <1>2 DEF Arrivals!Administer, VotesNow, StatusNow
<1>. QED
  BY <1>3 DEF Arrivals!Next

(* Messages on this manager live the life every manager promises, for any number of
   transceivers and whatever the owner does meanwhile (ManagerBase.sol:130-184,
   NttManager.sol:188-324). *)
THEOREM ArrivalsRefinement == Spec => ImplementsInboundTransfers
<1>1. Init => Arrivals!Init
  <2> SUFFICES ASSUME Init PROVE Arrivals!Init
    OBVIOUS
  <2>1. /\ VotesNow = [m \in Messages |-> {}]
        /\ StatusNow = [m \in Messages |-> "NotApproved"]
    BY DEF Init, VotesNow, StatusNow, Attesters, StatusOf
  <2>2. enabled = {} /\ threshold = 0
    BY DEF Init, Registry!Init
  <2>. QED
    BY <2>1, <2>2 DEF Arrivals!Init, VotesNow, StatusNow
<1>2. IInv /\ IInv' /\ [Next]_vars => [Arrivals!Next]_(Arrivals!vars)
  <2> SUFFICES ASSUME IInv, IInv', [Next]_vars PROVE Arrivals!Next
    OBVIOUS
  <2>0. RegistryInv /\ RegistryInv' /\ InboundInv
    BY DEF IInv, InboundInv
  <2>1. CASE UNCHANGED inVars
    BY <2>0, <2>1, QuietImplements
  <2>2. CASE AdminNext
    BY <2>1, <2>2 DEF AdminNext, SetTransceiver, RemoveTransceiver, SetThreshold, SetPeer,
                SetOutboundLimit, SetInboundLimit, Pause, Unpause
  <2>3. CASE OutboundNext
    BY <2>1, <2>3 DEF OutboundNext, TransferNow, TransferQueued, CompleteOutboundQueued,
                CancelOutboundQueued
  <2>4. CASE InboundNext
    BY <2>0, <2>4, AttestationImplements, ExecuteImplements, CompletionImplements
       DEF InboundNext, Arrivals!Next
  <2>5. CASE Tick \/ UNCHANGED vars
    BY <2>1, <2>5 DEF Tick, vars
  <2>. QED
    BY <2>2, <2>3, <2>4, <2>5 DEF Next
<1>. QED
  BY <1>1, <1>2, SpecInvariant, PTL DEF Spec, ImplementsInboundTransfers, Arrivals!Spec

================================================================================
