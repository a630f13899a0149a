---------------------------- MODULE NttBridgeProofs ----------------------------
(***************************************************************************)
(* What the two managers of a bridge guarantee each other for any number   *)
(* of transceivers, users, amounts and VAAs: nothing is executed that the  *)
(* other side did not publish, a VAA is consumed with its attestation or   *)
(* not at all, users see a ledger of transfers, and what is locked on one  *)
(* side backs what is on the other and on its way.  The argument is made   *)
(* once for each side; the sides touch only through what the other one     *)
(* published, which only grows.                                            *)
(***************************************************************************)
EXTENDS NttBridge, SumTheorems

--------------------------------------------------------------------------------
\* The side of chain A.

(* What the manager of chain A and its transceivers have on record. *)
InvA ==
    /\ aEnabled \subseteq Transceivers
    /\ aThreshold \in Nat
    /\ aWormholePeers \in [Transceivers -> [{ChainB} -> Transceivers \cup {NoPeer}]]
    /\ \A t \in Transceivers : aWormholePeers[t][ChainB] \in {t, NoPeer}
    /\ aConsumed = [t \in Transceivers |-> aConsumed[t]]
    /\ \A pair \in aAttestations : pair[1] \in MessagesIn(bPublished)
    /\ \A t \in Transceivers, m \in MessagesOfB :
         <<m, t>> \in aAttestations <=> \E vaa \in aConsumed[t] : vaa.message = m
    /\ aExecuted \subseteq MessagesIn(bPublished)

(* The steps that concern these records, or do not touch them. *)
KeepA ==
    /\ UNCHANGED <<aEnabled, aThreshold, aAttestations, aExecuted, aWormholePeers, aConsumed>>
    /\ aPublished \subseteq aPublished'

RegistryA ==
    /\ UNCHANGED <<aAttestations, aExecuted, aWormholePeers, aConsumed, aPublished>>
    /\ aEnabled' \subseteq Transceivers
    /\ aThreshold' \in Nat

ExecuteA(m) ==
    /\ UNCHANGED <<aEnabled, aThreshold, aAttestations, aWormholePeers, aConsumed, aPublished>>
    /\ A!Approved(m, aAttestations, aEnabled, aThreshold)
    /\ aExecuted' = aExecuted \cup {m}

PeerA(t) ==
    /\ UNCHANGED <<aEnabled, aThreshold, aAttestations, aExecuted, aConsumed, aPublished>>
    /\ aWormholePeers' = [aWormholePeers EXCEPT ![t][ChainB] = t]

DeliverA(t, vaa) ==
    /\ UNCHANGED <<aEnabled, aThreshold, aWormholePeers, aPublished>>
    /\ vaa \in AvailableVAAs
    /\ vaa.emitterChain = ChainB
    /\ aWormholePeers[t][ChainB] = vaa.emitter
    /\ aConsumed' = [aConsumed EXCEPT ![t] = @ \cup {vaa}]
    /\ aAttestations' = aAttestations \cup {<<vaa.message, t>>}
    /\ \/ aExecuted' = aExecuted
       \/ /\ A!Approved(vaa.message, aAttestations', aEnabled, aThreshold)
          /\ aExecuted' = aExecuted \cup {vaa.message}

StepA ==
    \/ KeepA
    \/ RegistryA
    \/ \E m : ExecuteA(m)
    \/ \E t \in Transceivers : PeerA(t)
    \/ \E t \in Transceivers, vaa \in AvailableVAAs : DeliverA(t, vaa)

LEMMA SameCardinalityA == \A S : A!Cardinality(S) = Cardinality(S)
BY DEF Cardinality, A!Cardinality

(* An approved message has an attestation. *)
LEMMA ApprovedAttestedA ==
  ASSUME NEW m, NEW atts, aThreshold \in Nat, A!Approved(m, atts, aEnabled, aThreshold)
  PROVE  \E t \in aEnabled : <<m, t>> \in atts
<1> DEFINE attesting == {t \in aEnabled : <<m, t>> \in atts}
<1>1. Cardinality(attesting) >= aThreshold /\ aThreshold > 0
  BY SameCardinalityA DEF A!Approved
<1>2. Cardinality({}) = 0
  BY FS_EmptySet
<1>3. attesting # {}
  <2> HIDE DEF attesting
  <2>. QED
    BY <1>1, <1>2
<1>. QED
  BY <1>3

(* A VAA a transceiver accepts was signed for a message the other side published. *)
LEMMA AcceptedPublishedA ==
  ASSUME InvA, NEW t \in Transceivers, NEW vaa, DeliverA(t, vaa)
  PROVE  vaa.message \in MessagesIn(bPublished)
<1>1. vaa.emitter \in {t, NoPeer}
  BY DEF InvA, DeliverA
<1>2. vaa \notin ForeignVAAs
  BY <1>1, BridgeAssumption
<1>3. vaa \notin SignedFrom(ChainA, ManagerA, aPublished)
  BY BridgeAssumption DEF SignedFrom, DeliverA
<1>4. vaa \in SignedFrom(ChainB, ManagerB, bPublished)
  BY <1>2, <1>3 DEF DeliverA, AvailableVAAs
<1>. QED
  BY <1>4 DEF SignedFrom, MessagesIn

LEMMA DeliveredA ==
  ASSUME InvA, NEW t \in Transceivers, NEW vaa, DeliverA(t, vaa),
         bPublished \subseteq bPublished'
  PROVE  InvA'
<1> DEFINE m == vaa.message
<1>1. m \in MessagesIn(bPublished)
  BY AcceptedPublishedA
<1>2. \A pair \in aAttestations' : pair[1] \in MessagesIn(bPublished)
  BY <1>1 DEF InvA, DeliverA
<1>3. /\ aConsumed' = [u \in Transceivers |-> aConsumed'[u]]
      /\ aConsumed'[t] = aConsumed[t] \cup {vaa}
      /\ \A u \in Transceivers : u # t => aConsumed'[u] = aConsumed[u]
  BY DEF InvA, DeliverA
<1>4. ASSUME NEW u \in Transceivers, NEW n \in MessagesOfB
      PROVE  <<n, u>> \in aAttestations' <=> \E v \in aConsumed'[u] : v.message = n
  <2>1. <<n, u>> \in aAttestations <=> \E v \in aConsumed[u] : v.message = n
    BY DEF InvA
  <2>2. <<n, u>> \in aAttestations' <=> <<n, u>> \in aAttestations \/ (n = m /\ u = t)
    BY DEF DeliverA
  <2>3. CASE u # t
    BY <1>3, <2>1, <2>2, <2>3
  <2>4. CASE u = t
    BY <1>3, <2>1, <2>2, <2>4
  <2>. QED
    BY <2>3, <2>4
<1>5. aExecuted' \subseteq MessagesIn(bPublished)
  BY <1>1 DEF InvA, DeliverA
<1>6. /\ MessagesIn(bPublished) \subseteq MessagesIn(bPublished)'
      /\ UNCHANGED <<aEnabled, aThreshold, aWormholePeers>>
  BY DEF DeliverA, MessagesIn
<1>. QED
  BY <1>2, <1>3, <1>4, <1>5, <1>6 DEF InvA

LEMMA KeepsA ==
  ASSUME InvA, StepA, bPublished \subseteq bPublished'
  PROVE  InvA'
<1>1. MessagesIn(bPublished) \subseteq MessagesIn(bPublished')
  BY DEF MessagesIn
<1>2. CASE KeepA
  BY <1>1, <1>2 DEF InvA, KeepA, MessagesIn
<1>3. CASE RegistryA
  BY <1>1, <1>3 DEF InvA, RegistryA, MessagesIn
<1>4. ASSUME NEW m, ExecuteA(m)
      PROVE  InvA'
  <2>1. PICK t \in aEnabled : <<m, t>> \in aAttestations
    BY <1>4, ApprovedAttestedA DEF ExecuteA, InvA
  <2>2. m \in MessagesIn(bPublished)
    BY <2>1 DEF InvA
  <2>3. aExecuted' \subseteq MessagesIn(bPublished')
    BY <1>1, <1>4, <2>2 DEF ExecuteA, InvA
  <2>. QED
    BY <1>1, <1>4, <2>3 DEF InvA, ExecuteA, MessagesIn
<1>5. ASSUME NEW t \in Transceivers, PeerA(t)
      PROVE  InvA'
  <2>1. /\ aWormholePeers' \in [Transceivers -> [{ChainB} -> Transceivers \cup {NoPeer}]]
        /\ \A u \in Transceivers : aWormholePeers'[u][ChainB] \in {u, NoPeer}
    BY <1>5 DEF PeerA, InvA
  <2>. QED
    BY <1>1, <1>5, <2>1 DEF InvA, PeerA, MessagesIn
<1>6. ASSUME NEW t \in Transceivers, NEW vaa \in AvailableVAAs, DeliverA(t, vaa)
      PROVE  InvA'
  BY <1>6, DeliveredA
<1>. QED
  BY <1>2, <1>3, <1>4, <1>5, <1>6 DEF StepA

(* Each operation of the manager of chain A is one of these steps. *)
LEMMA SendA ==
  ASSUME NEW m, A!SendToTransceivers(m)
  PROVE  aPublished \subseteq aPublished'
BY DEF A!SendToTransceivers

LEMMA UserStepA ==
  ASSUME NEW user, NEW amount, NEW recipient, NEW entry, OnlyA,
         \/ A!TransferNow(user, amount, ChainB, recipient)
         \/ A!TransferQueued(user, amount, ChainB, recipient)
         \/ A!CancelOutboundQueued(user, entry)
         \/ A!CompleteOutboundQueued(entry)
         \/ A!CompleteInboundQueued(entry)
  PROVE  KeepA
BY SendA DEF OnlyA, KeepA, A!TransferNow, A!TransferQueued, A!CancelOutboundQueued,
   A!CompleteOutboundQueued, A!CompleteInboundQueued, A!TakeTransfer, A!registryVars,
   A!inVars, A!outVars

LEMMA ExecuteStepA ==
  ASSUME NEW m, OnlyA, A!ExecuteMsg(m)
  PROVE  ExecuteA(m)
BY DEF OnlyA, A!ExecuteMsg, A!HandleTransfer, ExecuteA, A!registryVars, A!outVars

LEMMA DeliverStepA ==
  ASSUME NEW t, NEW vaa \in AvailableVAAs, DeliverToA(t, vaa)
  PROVE  DeliverA(t, vaa)
BY DEF DeliverToA, WA!ReceiveMessage, WA!IsPeer, WA!ConsumeVAA, A!AttestationReceived,
       A!HandleTransfer, DeliverA, A!registryVars, A!outVars

LEMMA AdminStepA ==
  ASSUME InvA, OnlyA, A!AdminNext
  PROVE  KeepA \/ RegistryA
<1>1. UNCHANGED <<aAttestations, aExecuted, aWormholePeers, aConsumed, aPublished>>
  BY DEF OnlyA, A!AdminNext, A!SetTransceiver, A!RemoveTransceiver, A!SetThreshold, A!SetPeer,
         A!SetOutboundLimit, A!SetInboundLimit, A!Pause, A!Unpause, A!inVars, A!outVars
<1>2. ASSUME NEW t \in Transceivers, A!SetTransceiver(t)
      PROVE  aEnabled' \subseteq Transceivers /\ aThreshold' \in Nat
  BY <1>2 DEF A!SetTransceiver, A!Registry!SetTransceiver, InvA
<1>3. ASSUME NEW t \in Transceivers, A!RemoveTransceiver(t)
      PROVE  aEnabled' \subseteq Transceivers /\ aThreshold' \in Nat
  <2>1. Cardinality(aEnabled \ {t}) \in Nat
    BY BridgeAssumption, FS_Subset, FS_CardinalityType DEF InvA
  <2>2. A!Registry!Cardinality(aEnabled \ {t}) = Cardinality(aEnabled \ {t})
    BY DEF A!Registry!Cardinality, Cardinality
  <2>. QED
    BY <1>3, <2>1, <2>2 DEF A!RemoveTransceiver, A!Registry!RemoveTransceiver, InvA
<1>4. ASSUME NEW n \in 1..MaxTransceivers, A!SetThreshold(n)
      PROVE  aEnabled' \subseteq Transceivers /\ aThreshold' \in Nat
  BY <1>4 DEF A!SetThreshold, A!Registry!SetThreshold, InvA
<1>5. CASE UNCHANGED A!registryVars
  BY <1>1, <1>5 DEF KeepA, A!registryVars
<1>. QED
  BY <1>1, <1>2, <1>3, <1>4, <1>5 DEF RegistryA, A!AdminNext, A!SetPeer, A!SetOutboundLimit,
     A!SetInboundLimit, A!Pause, A!Unpause

LEMMA PeerStepA ==
  ASSUME NEW t \in Transceivers, WA!SetWormholePeer(t, ChainB, t), UNCHANGED aManagerVars
  PROVE  PeerA(t)
BY DEF WA!SetWormholePeer, PeerA, aManagerVars

LEMMA InitA == Init => InvA
BY BridgeAssumption DEF Init, InvA, StartWormholePeers

--------------------------------------------------------------------------------
\* The side of chain B.

(* What the manager of chain B and its transceivers have on record. *)
InvB ==
    /\ bEnabled \subseteq Transceivers
    /\ bThreshold \in Nat
    /\ bWormholePeers \in [Transceivers -> [{ChainA} -> Transceivers \cup {NoPeer}]]
    /\ \A t \in Transceivers : bWormholePeers[t][ChainA] \in {t, NoPeer}
    /\ bConsumed = [t \in Transceivers |-> bConsumed[t]]
    /\ \A pair \in bAttestations : pair[1] \in MessagesIn(aPublished)
    /\ \A t \in Transceivers, m \in MessagesOfA :
         <<m, t>> \in bAttestations <=> \E vaa \in bConsumed[t] : vaa.message = m
    /\ bExecuted \subseteq MessagesIn(aPublished)

(* The steps that concern these records, or do not touch them. *)
KeepB ==
    /\ UNCHANGED <<bEnabled, bThreshold, bAttestations, bExecuted, bWormholePeers, bConsumed>>
    /\ bPublished \subseteq bPublished'

RegistryB ==
    /\ UNCHANGED <<bAttestations, bExecuted, bWormholePeers, bConsumed, bPublished>>
    /\ bEnabled' \subseteq Transceivers
    /\ bThreshold' \in Nat

ExecuteB(m) ==
    /\ UNCHANGED <<bEnabled, bThreshold, bAttestations, bWormholePeers, bConsumed, bPublished>>
    /\ B!Approved(m, bAttestations, bEnabled, bThreshold)
    /\ bExecuted' = bExecuted \cup {m}

PeerB(t) ==
    /\ UNCHANGED <<bEnabled, bThreshold, bAttestations, bExecuted, bConsumed, bPublished>>
    /\ bWormholePeers' = [bWormholePeers EXCEPT ![t][ChainA] = t]

DeliverB(t, vaa) ==
    /\ UNCHANGED <<bEnabled, bThreshold, bWormholePeers, bPublished>>
    /\ vaa \in AvailableVAAs
    /\ vaa.emitterChain = ChainA
    /\ bWormholePeers[t][ChainA] = vaa.emitter
    /\ bConsumed' = [bConsumed EXCEPT ![t] = @ \cup {vaa}]
    /\ bAttestations' = bAttestations \cup {<<vaa.message, t>>}
    /\ \/ bExecuted' = bExecuted
       \/ /\ B!Approved(vaa.message, bAttestations', bEnabled, bThreshold)
          /\ bExecuted' = bExecuted \cup {vaa.message}

StepB ==
    \/ KeepB
    \/ RegistryB
    \/ \E m : ExecuteB(m)
    \/ \E t \in Transceivers : PeerB(t)
    \/ \E t \in Transceivers, vaa \in AvailableVAAs : DeliverB(t, vaa)

LEMMA SameCardinalityB == \A S : B!Cardinality(S) = Cardinality(S)
BY DEF Cardinality, B!Cardinality

(* An approved message has an attestation. *)
LEMMA ApprovedAttestedB ==
  ASSUME NEW m, NEW atts, bThreshold \in Nat, B!Approved(m, atts, bEnabled, bThreshold)
  PROVE  \E t \in bEnabled : <<m, t>> \in atts
<1> DEFINE attesting == {t \in bEnabled : <<m, t>> \in atts}
<1>1. Cardinality(attesting) >= bThreshold /\ bThreshold > 0
  BY SameCardinalityB DEF B!Approved
<1>2. Cardinality({}) = 0
  BY FS_EmptySet
<1>3. attesting # {}
  <2> HIDE DEF attesting
  <2>. QED
    BY <1>1, <1>2
<1>. QED
  BY <1>3

(* A VAA a transceiver accepts was signed for a message the other side published. *)
LEMMA AcceptedPublishedB ==
  ASSUME InvB, NEW t \in Transceivers, NEW vaa, DeliverB(t, vaa)
  PROVE  vaa.message \in MessagesIn(aPublished)
<1>1. vaa.emitter \in {t, NoPeer}
  BY DEF InvB, DeliverB
<1>2. vaa \notin ForeignVAAs
  BY <1>1, BridgeAssumption
<1>3. vaa \notin SignedFrom(ChainB, ManagerB, bPublished)
  BY BridgeAssumption DEF SignedFrom, DeliverB
<1>4. vaa \in SignedFrom(ChainA, ManagerA, aPublished)
  BY <1>2, <1>3 DEF DeliverB, AvailableVAAs
<1>. QED
  BY <1>4 DEF SignedFrom, MessagesIn

LEMMA DeliveredB ==
  ASSUME InvB, NEW t \in Transceivers, NEW vaa, DeliverB(t, vaa),
         aPublished \subseteq aPublished'
  PROVE  InvB'
<1> DEFINE m == vaa.message
<1>1. m \in MessagesIn(aPublished)
  BY AcceptedPublishedB
<1>2. \A pair \in bAttestations' : pair[1] \in MessagesIn(aPublished)
  BY <1>1 DEF InvB, DeliverB
<1>3. /\ bConsumed' = [u \in Transceivers |-> bConsumed'[u]]
      /\ bConsumed'[t] = bConsumed[t] \cup {vaa}
      /\ \A u \in Transceivers : u # t => bConsumed'[u] = bConsumed[u]
  BY DEF InvB, DeliverB
<1>4. ASSUME NEW u \in Transceivers, NEW n \in MessagesOfA
      PROVE  <<n, u>> \in bAttestations' <=> \E v \in bConsumed'[u] : v.message = n
  <2>1. <<n, u>> \in bAttestations <=> \E v \in bConsumed[u] : v.message = n
    BY DEF InvB
  <2>2. <<n, u>> \in bAttestations' <=> <<n, u>> \in bAttestations \/ (n = m /\ u = t)
    BY DEF DeliverB
  <2>3. CASE u # t
    BY <1>3, <2>1, <2>2, <2>3
  <2>4. CASE u = t
    BY <1>3, <2>1, <2>2, <2>4
  <2>. QED
    BY <2>3, <2>4
<1>5. bExecuted' \subseteq MessagesIn(aPublished)
  BY <1>1 DEF InvB, DeliverB
<1>6. /\ MessagesIn(aPublished) \subseteq MessagesIn(aPublished)'
      /\ UNCHANGED <<bEnabled, bThreshold, bWormholePeers>>
  BY DEF DeliverB, MessagesIn
<1>. QED
  BY <1>2, <1>3, <1>4, <1>5, <1>6 DEF InvB

LEMMA KeepsB ==
  ASSUME InvB, StepB, aPublished \subseteq aPublished'
  PROVE  InvB'
<1>1. MessagesIn(aPublished) \subseteq MessagesIn(aPublished')
  BY DEF MessagesIn
<1>2. CASE KeepB
  BY <1>1, <1>2 DEF InvB, KeepB, MessagesIn
<1>3. CASE RegistryB
  BY <1>1, <1>3 DEF InvB, RegistryB, MessagesIn
<1>4. ASSUME NEW m, ExecuteB(m)
      PROVE  InvB'
  <2>1. PICK t \in bEnabled : <<m, t>> \in bAttestations
    BY <1>4, ApprovedAttestedB DEF ExecuteB, InvB
  <2>2. m \in MessagesIn(aPublished)
    BY <2>1 DEF InvB
  <2>3. bExecuted' \subseteq MessagesIn(aPublished')
    BY <1>1, <1>4, <2>2 DEF ExecuteB, InvB
  <2>. QED
    BY <1>1, <1>4, <2>3 DEF InvB, ExecuteB, MessagesIn
<1>5. ASSUME NEW t \in Transceivers, PeerB(t)
      PROVE  InvB'
  <2>1. /\ bWormholePeers' \in [Transceivers -> [{ChainA} -> Transceivers \cup {NoPeer}]]
        /\ \A u \in Transceivers : bWormholePeers'[u][ChainA] \in {u, NoPeer}
    BY <1>5 DEF PeerB, InvB
  <2>. QED
    BY <1>1, <1>5, <2>1 DEF InvB, PeerB, MessagesIn
<1>6. ASSUME NEW t \in Transceivers, NEW vaa \in AvailableVAAs, DeliverB(t, vaa)
      PROVE  InvB'
  BY <1>6, DeliveredB
<1>. QED
  BY <1>2, <1>3, <1>4, <1>5, <1>6 DEF StepB

(* Each operation of the manager of chain B is one of these steps. *)
LEMMA SendB ==
  ASSUME NEW m, B!SendToTransceivers(m)
  PROVE  bPublished \subseteq bPublished'
BY DEF B!SendToTransceivers

LEMMA UserStepB ==
  ASSUME NEW user, NEW amount, NEW recipient, NEW entry, OnlyB,
         \/ B!TransferNow(user, amount, ChainA, recipient)
         \/ B!TransferQueued(user, amount, ChainA, recipient)
         \/ B!CancelOutboundQueued(user, entry)
         \/ B!CompleteOutboundQueued(entry)
         \/ B!CompleteInboundQueued(entry)
  PROVE  KeepB
BY SendB DEF OnlyB, KeepB, B!TransferNow, B!TransferQueued, B!CancelOutboundQueued,
   B!CompleteOutboundQueued, B!CompleteInboundQueued, B!TakeTransfer, B!registryVars,
   B!inVars, B!outVars

LEMMA ExecuteStepB ==
  ASSUME NEW m, OnlyB, B!ExecuteMsg(m)
  PROVE  ExecuteB(m)
BY DEF OnlyB, B!ExecuteMsg, B!HandleTransfer, ExecuteB, B!registryVars, B!outVars

LEMMA DeliverStepB ==
  ASSUME NEW t, NEW vaa \in AvailableVAAs, DeliverToB(t, vaa)
  PROVE  DeliverB(t, vaa)
BY DEF DeliverToB, WB!ReceiveMessage, WB!IsPeer, WB!ConsumeVAA, B!AttestationReceived,
       B!HandleTransfer, DeliverB, B!registryVars, B!outVars

LEMMA AdminStepB ==
  ASSUME InvB, OnlyB, B!AdminNext
  PROVE  KeepB \/ RegistryB
<1>1. UNCHANGED <<bAttestations, bExecuted, bWormholePeers, bConsumed, bPublished>>
  BY DEF OnlyB, B!AdminNext, B!SetTransceiver, B!RemoveTransceiver, B!SetThreshold, B!SetPeer,
         B!SetOutboundLimit, B!SetInboundLimit, B!Pause, B!Unpause, B!inVars, B!outVars
<1>2. ASSUME NEW t \in Transceivers, B!SetTransceiver(t)
      PROVE  bEnabled' \subseteq Transceivers /\ bThreshold' \in Nat
  BY <1>2 DEF B!SetTransceiver, B!Registry!SetTransceiver, InvB
<1>3. ASSUME NEW t \in Transceivers, B!RemoveTransceiver(t)
      PROVE  bEnabled' \subseteq Transceivers /\ bThreshold' \in Nat
  <2>1. Cardinality(bEnabled \ {t}) \in Nat
    BY BridgeAssumption, FS_Subset, FS_CardinalityType DEF InvB
  <2>2. B!Registry!Cardinality(bEnabled \ {t}) = Cardinality(bEnabled \ {t})
    BY DEF B!Registry!Cardinality, Cardinality
  <2>. QED
    BY <1>3, <2>1, <2>2 DEF B!RemoveTransceiver, B!Registry!RemoveTransceiver, InvB
<1>4. ASSUME NEW n \in 1..MaxTransceivers, B!SetThreshold(n)
      PROVE  bEnabled' \subseteq Transceivers /\ bThreshold' \in Nat
  BY <1>4 DEF B!SetThreshold, B!Registry!SetThreshold, InvB
<1>5. CASE UNCHANGED B!registryVars
  BY <1>1, <1>5 DEF KeepB, B!registryVars
<1>. QED
  BY <1>1, <1>2, <1>3, <1>4, <1>5 DEF RegistryB, B!AdminNext, B!SetPeer, B!SetOutboundLimit,
     B!SetInboundLimit, B!Pause, B!Unpause

LEMMA PeerStepB ==
  ASSUME NEW t \in Transceivers, WB!SetWormholePeer(t, ChainA, t), UNCHANGED bManagerVars
  PROVE  PeerB(t)
BY DEF WB!SetWormholePeer, PeerB, bManagerVars

LEMMA InitB == Init => InvB
BY BridgeAssumption DEF Init, InvB, StartWormholePeers

--------------------------------------------------------------------------------
\* The bridge.

LEMMA BridgeStep ==
  ASSUME InvA, InvB, [Next]_vars
  PROVE  (StepA /\ KeepB) \/ (KeepA /\ StepB)
<1>1. UNCHANGED aVars => KeepA
  BY DEF aVars, aManagerVars, KeepA
<1>2. UNCHANGED bVars => KeepB
  BY DEF bVars, bManagerVars, KeepB
<1>3. (OnlyA => KeepB) /\ (OnlyB => KeepA)
  BY <1>1, <1>2 DEF OnlyA, OnlyB
<1>4. CASE Transfer
  BY <1>3, <1>4, UserStepA, UserStepB DEF Transfer, StepA, StepB
<1>5. CASE Cancel
  BY <1>3, <1>5, UserStepA, UserStepB DEF Cancel, StepA, StepB
<1>6. CASE Complete
  BY <1>3, <1>6, UserStepA, UserStepB DEF Complete, StepA, StepB
<1>7. CASE Execute
  BY <1>3, <1>7, ExecuteStepA, ExecuteStepB DEF Execute, StepA, StepB
<1>8. ASSUME NEW t \in Transceivers, Deliver(t)
      PROVE  (StepA /\ KeepB) \/ (KeepA /\ StepB)
  <2>1. ASSUME NEW vaa \in AvailableVAAs, DeliverToA(t, vaa)
        PROVE  StepA /\ KeepB
    BY <1>2, <2>1, DeliverStepA DEF StepA, DeliverToA
  <2>2. ASSUME NEW vaa \in AvailableVAAs, DeliverToB(t, vaa)
        PROVE  KeepA /\ StepB
    BY <1>1, <2>2, DeliverStepB DEF StepB, DeliverToB
  <2>. QED
    BY <1>8, <2>1, <2>2 DEF Deliver
<1>9. CASE Owner
  <2>1. ASSUME NEW t \in Transceivers, WA!SetWormholePeer(t, ChainB, t),
               UNCHANGED <<now, aManagerVars, bVars>>
        PROVE  StepA /\ KeepB
    BY <1>2, <2>1, PeerStepA DEF StepA
  <2>2. ASSUME NEW t \in Transceivers, WB!SetWormholePeer(t, ChainA, t),
               UNCHANGED <<now, bManagerVars, aVars>>
        PROVE  KeepA /\ StepB
    BY <1>1, <2>2, PeerStepB DEF StepB
  <2>3. OnlyA /\ A!AdminNext => StepA /\ KeepB
    BY <1>3, AdminStepA DEF StepA
  <2>4. OnlyB /\ B!AdminNext => KeepA /\ StepB
    BY <1>3, AdminStepB DEF StepB
  <2>. QED
    BY <1>9, <2>1, <2>2, <2>3, <2>4 DEF Owner
<1>10. CASE Tick \/ UNCHANGED vars
  BY <1>1, <1>2, <1>10 DEF Tick, vars, StepA
<1>. QED
  BY <1>4, <1>5, <1>6, <1>7, <1>8, <1>9, <1>10 DEF Next, QuietNext, UserNext

LEMMA BridgeInvStep ==
  ASSUME InvA, InvB, [Next]_vars
  PROVE  (InvA /\ InvB)'
<1>1. CASE StepA /\ KeepB
  <2>1. bPublished \subseteq bPublished'
    BY <1>1 DEF KeepB
  <2>2. aPublished \subseteq aPublished'
    BY <1>1 DEF StepA, KeepA, RegistryA, ExecuteA, PeerA, DeliverA
  <2>. QED
    BY <1>1, <2>1, <2>2, KeepsA, KeepsB DEF StepB
<1>2. CASE KeepA /\ StepB
  <2>1. aPublished \subseteq aPublished'
    BY <1>2 DEF KeepA
  <2>2. bPublished \subseteq bPublished'
    BY <1>2 DEF StepB, KeepB, RegistryB, ExecuteB, PeerB, DeliverB
  <2>. QED
    BY <1>2, <2>1, <2>2, KeepsA, KeepsB DEF StepA
<1>. QED
  BY <1>1, <1>2, BridgeStep

LEMMA BridgeInvariant == Spec => [](InvA /\ InvB)
<1>1. Init => InvA /\ InvB
  BY InitA, InitB
<1>2. (InvA /\ InvB) /\ [Next]_vars => (InvA /\ InvB)'
  BY BridgeInvStep
<1>. QED
  BY <1>1, <1>2, PTL DEF Spec

(* Whatever is published on Wormhole by whomever, and whatever the owners do to
   transceivers, thresholds, limits and peers in between, a manager executes only what
   the other one gave its transceivers to send (INV-003). *)
THEOREM AuthenticExecution == Spec => []Authentic
<1>1. InvA /\ InvB => Authentic
  BY DEF InvA, InvB, Authentic
<1>. QED
  BY <1>1, BridgeInvariant, PTL

(* No order of deliveries, repeated or late, makes a transceiver lose a VAA that its
   manager does not have, or attest twice to one (INV-002). *)
THEOREM ConsumedWithAttestation == Spec => []ConsumedIffAttested
<1>1. InvA /\ InvB => ConsumedIffAttested
  BY DEF InvA, InvB, ConsumedIffAttested
<1>. QED
  BY <1>1, BridgeInvariant, PTL

(* The transfers of each side that wait in its outbound queue, and those it sent. *)
WaitingA == {AsMessage(ChainA, e) : e \in aOutboundQueue}
WaitingB == {AsMessage(ChainB, e) : e \in bOutboundQueue}
SentByA == MessagesIn(aPublished)
SentByB == MessagesIn(bPublished)

--------------------------------------------------------------------------------
\* The books of chain A.

(* Every transfer has a sequence number of its own, and waits or was sent, not both. *)
OutBooksA ==
    /\ aSequence \in Nat
    /\ IsFiniteSet(WaitingA) /\ IsFiniteSet(SentByA)
    /\ WaitingA \cup SentByA \subseteq MessagesOfA
    /\ \A m \in WaitingA \cup SentByA : m.sequence < aSequence
    /\ \A e, f \in aOutboundQueue : e.sequence = f.sequence => e = f
    /\ \A m \in WaitingA, n \in SentByA : m.sequence # n.sequence

(* A message is executed when it is paid or waits to be, once and not both. *)
InBooksA ==
    /\ aExecuted = aPaid \cup {e.message : e \in aInboundQueue}
    /\ \A e \in aInboundQueue : e.message \notin aPaid
    /\ \A e, f \in aInboundQueue : e.message = f.message => e = f

PurseTypesA == aBalances \in [Users -> Nat] /\ aHeld \in Int

BooksA == OutBooksA /\ InBooksA /\ PurseTypesA

OutboxStillA == UNCHANGED <<aSequence, aOutboundQueue, SentByA>>
InboxStillA == UNCHANGED <<aInboundQueue, aExecuted, aPaid>>
PurseStillA == UNCHANGED <<aBalances, aHeld>>
StillA == OutboxStillA /\ InboxStillA /\ PurseStillA

(* How a step can write in them. *)
TakesA(user, amount) ==
    /\ aBalances[user] >= amount
    /\ aBalances' = [aBalances EXCEPT ![user] = @ - amount]
    /\ aHeld' = aHeld + amount

GivesA(user, amount) ==
    /\ aBalances' = [aBalances EXCEPT ![user] = @ + amount]
    /\ aHeld' = aHeld - amount

TakesTransferA(m) ==
    /\ m \in MessagesOfA /\ m.sequence = aSequence
    /\ aSequence' = aSequence + 1
    /\ \/ SentByA' = SentByA \cup {m} /\ UNCHANGED aOutboundQueue
       \/ /\ \E e : aOutboundQueue' = aOutboundQueue \cup {e} /\ AsMessage(ChainA, e) = m
          /\ UNCHANGED SentByA
    /\ TakesA(m.sender, m.amount)
    /\ InboxStillA

SendsA(e) ==
    /\ e \in aOutboundQueue
    /\ aOutboundQueue' = aOutboundQueue \ {e}
    /\ SentByA' = SentByA \cup {AsMessage(ChainA, e)}
    /\ UNCHANGED aSequence
    /\ InboxStillA /\ PurseStillA

CancelsA(e) ==
    /\ e \in aOutboundQueue
    /\ aOutboundQueue' = aOutboundQueue \ {e}
    /\ UNCHANGED <<aSequence, SentByA>>
    /\ GivesA(e.sender, e.amount)
    /\ InboxStillA

ArrivesA(m) ==
    /\ m \in SentByB /\ m \notin aExecuted
    /\ aExecuted' = aExecuted \cup {m}
    /\ \/ GivesA(m.recipient, m.amount) /\ aPaid' = aPaid \cup {m} /\ UNCHANGED aInboundQueue
       \/ /\ \E e : aInboundQueue' = aInboundQueue \cup {e} /\ e.message = m
          /\ UNCHANGED aPaid
          /\ PurseStillA
    /\ OutboxStillA

DequeuesA(e) ==
    /\ e \in aInboundQueue
    /\ aInboundQueue' = aInboundQueue \ {e}
    /\ aPaid' = aPaid \cup {e.message}
    /\ GivesA(e.message.recipient, e.message.amount)
    /\ UNCHANGED aExecuted
    /\ OutboxStillA

EntersA ==
    \/ StillA
    \/ \E m : TakesTransferA(m)
    \/ \E e : SendsA(e)
    \/ \E e : CancelsA(e)
    \/ \E m : ArrivesA(m)
    \/ \E e : DequeuesA(e)

(* Every operation of the manager of chain A is one of these. *)
LEMMA SendEntryA ==
  ASSUME NEW m, A!SendToTransceivers(m)
  PROVE  SentByA' = SentByA \cup {m}
<1> DEFINE sent == {[transceiver |-> t, destManager |-> aPeers[m.toChain], message |-> m] :
                      t \in aEnabled}
<1>1. aEnabled # {} /\ aPublished' = aPublished \cup sent
  BY DEF A!SendToTransceivers
<1>2. \A p \in sent : p.message = m
  OBVIOUS
<1>3. sent # {}
  BY <1>1
<1> HIDE DEF sent
<1> QED
  BY <1>1, <1>2, <1>3 DEF SentByA, MessagesIn

LEMMA TransferEntryA ==
  ASSUME BooksA, OnlyA, NEW user \in Users, NEW amount \in Amounts, NEW recipient \in Users,
         \/ A!TransferNow(user, amount, ChainB, recipient)
         \/ A!TransferQueued(user, amount, ChainB, recipient)
  PROVE  \E m : TakesTransferA(m)
<1> DEFINE m == A!Message(aSequence, user, amount, ChainB, recipient)
<1>1. /\ A!TakeTransfer(user, amount, ChainB)
      /\ UNCHANGED <<aInboundQueue, aExecuted, aPaid>>
  BY DEF A!TransferNow, A!TransferQueued, A!inVars
<1>2. /\ aSequence < MaxSequenceA /\ aSequence' = aSequence + 1 /\ TakesA(user, amount)
  BY <1>1 DEF A!TakeTransfer, A!TakeTokens, TakesA
<1>3. aSequence \in 0..(MaxSequenceA - 1)
  BY <1>2, BridgeAssumption DEF BooksA, OutBooksA
<1>4. /\ m \in MessagesOfA /\ m.sequence = aSequence /\ m.sender = user /\ m.amount = amount
  BY <1>3 DEF A!Message, MessagesOfA, MessagesFrom
<1>5. CASE A!TransferNow(user, amount, ChainB, recipient)
  <2>1. UNCHANGED aOutboundQueue /\ A!SendToTransceivers(m)
    BY <1>5 DEF A!TransferNow
  <2>2. SentByA' = SentByA \cup {m}
    BY <2>1, SendEntryA
  <2> HIDE DEF m
  <2> QED
    BY <1>1, <1>2, <1>4, <2>1, <2>2 DEF TakesTransferA, InboxStillA
<1>6. CASE A!TransferQueued(user, amount, ChainB, recipient)
  <2> DEFINE e == [sequence |-> aSequence, amount |-> amount, recipientChain |-> ChainB,
                   recipient |-> recipient, sender |-> user, txTimestamp |-> now]
  <2>1. aOutboundQueue' = aOutboundQueue \cup {e} /\ aPublished' = aPublished
    BY <1>6 DEF A!TransferQueued
  <2>2. AsMessage(ChainA, e) = m /\ UNCHANGED SentByA
    BY <2>1 DEF AsMessage, A!Message, SentByA, MessagesIn
  <2> HIDE DEF m, e
  <2> QED
    BY <1>1, <1>2, <1>4, <2>1, <2>2 DEF TakesTransferA, InboxStillA
<1> QED
  BY <1>5, <1>6

LEMMA QueueEntryA ==
  ASSUME OnlyA, NEW e
  PROVE  /\ A!CompleteOutboundQueued(e) => SendsA(e)
         /\ \A user : A!CancelOutboundQueued(user, e) => CancelsA(e)
         /\ A!CompleteInboundQueued(e) => DequeuesA(e)
<1>1. ASSUME A!CompleteOutboundQueued(e)
      PROVE  SendsA(e)
  <2>1. /\ A!SendToTransceivers(A!Message(e.sequence, e.sender, e.amount, e.recipientChain,
                                         e.recipient))
        /\ e \in aOutboundQueue /\ aOutboundQueue' = aOutboundQueue \ {e}
        /\ UNCHANGED <<aSequence, aInboundQueue, aExecuted, aPaid, aBalances, aHeld>>
    BY <1>1 DEF A!CompleteOutboundQueued, A!Unqueue, A!inVars, A!tokenVars
  <2>2. A!Message(e.sequence, e.sender, e.amount, e.recipientChain, e.recipient)
          = AsMessage(ChainA, e)
    BY DEF A!Message, AsMessage
  <2> QED
    BY <2>1, <2>2, SendEntryA DEF SendsA, InboxStillA, PurseStillA
<1>2. ASSUME NEW user, A!CancelOutboundQueued(user, e)
      PROVE  CancelsA(e)
  BY <1>2 DEF A!CancelOutboundQueued, A!Unqueue, A!MintOrUnlock, A!inVars, CancelsA, GivesA,
              InboxStillA, SentByA, MessagesIn
<1>3. ASSUME A!CompleteInboundQueued(e)
      PROVE  DequeuesA(e)
  BY <1>3 DEF A!CompleteInboundQueued, A!Unqueue, A!MintOrUnlock, A!outVars, DequeuesA, GivesA,
              OutboxStillA, SentByA, MessagesIn
<1> QED
  BY <1>1, <1>2, <1>3

LEMMA HandleEntryA ==
  ASSUME NEW m \in SentByB, m \notin aExecuted, A!HandleTransfer(m), UNCHANGED A!outVars
  PROVE  ArrivesA(m)
<1>1. OutboxStillA
  BY DEF A!outVars, OutboxStillA, SentByA, MessagesIn
<1>2. [message |-> m, txTimestamp |-> now].message = m
  OBVIOUS
<1> QED
  BY <1>1, <1>2 DEF A!HandleTransfer, A!MintOrUnlock, A!tokenVars, ArrivesA, GivesA, PurseStillA

LEMMA ExecuteEntryA ==
  ASSUME InvA, OnlyA, NEW m, A!ExecuteMsg(m)
  PROVE  ArrivesA(m)
<1>1. /\ A!HandleTransfer(m) /\ UNCHANGED A!outVars /\ m \notin aExecuted
      /\ A!Approved(m, aAttestations, aEnabled, aThreshold)
  BY DEF A!ExecuteMsg, A!ReplayProtect
<1>2. PICK t \in aEnabled : <<m, t>> \in aAttestations
  BY <1>1, ApprovedAttestedA DEF InvA
<1>3. m \in SentByB
  BY <1>2 DEF InvA, SentByB
<1> QED
  BY <1>1, <1>3, HandleEntryA

LEMMA DeliverEntryA ==
  ASSUME InvA, NEW t \in Transceivers, NEW vaa \in AvailableVAAs, DeliverToA(t, vaa)
  PROVE  StillA \/ ArrivesA(vaa.message)
<1>1. vaa.message \in SentByB
  BY DeliverStepA, AcceptedPublishedA DEF SentByB
<1>2. UNCHANGED A!outVars /\ A!AttestationReceived(t, vaa.sourceManager, vaa.message)
  BY DEF DeliverToA, A!AttestationReceived
<1>3. CASE A!HandleTransfer(vaa.message) /\ vaa.message \notin aExecuted
  BY <1>1, <1>2, <1>3, HandleEntryA
<1>4. CASE UNCHANGED <<aInboundQueue, aExecuted, aPaid, A!tokenVars>>
  BY <1>2, <1>4 DEF A!outVars, A!tokenVars, StillA, OutboxStillA, InboxStillA, PurseStillA,
                    SentByA, MessagesIn
<1> QED
  BY <1>2, <1>3, <1>4 DEF A!AttestationReceived, A!ReplayProtect

LEMMA UnchangedEntryA ==
  ASSUME UNCHANGED aManagerVars \/ (OnlyA /\ A!AdminNext)
  PROVE  StillA
<1>1. CASE UNCHANGED aManagerVars
  BY <1>1 DEF aManagerVars, StillA, OutboxStillA, InboxStillA, PurseStillA, SentByA, MessagesIn
<1>2. CASE A!AdminNext
  <2>1. UNCHANGED <<A!outVars, A!inVars, A!tokenVars>>
    BY <1>2 DEF A!AdminNext, A!SetTransceiver, A!RemoveTransceiver, A!SetThreshold, A!SetPeer,
                A!SetOutboundLimit, A!SetInboundLimit, A!Pause, A!Unpause
  <2> QED
    BY <2>1 DEF A!outVars, A!inVars, A!tokenVars, StillA, OutboxStillA, InboxStillA,
                PurseStillA, SentByA, MessagesIn
<1> QED
  BY <1>1, <1>2

(* What the entries keep. *)
LEMMA PurseA ==
  ASSUME BooksA, NEW user \in Users, NEW amount \in Nat,
         TakesA(user, amount) \/ GivesA(user, amount)
  PROVE  PurseTypesA'
BY DEF BooksA, PurseTypesA, TakesA, GivesA

LEMMA WaitingFewerA ==
  ASSUME BooksA, NEW e \in aOutboundQueue, aOutboundQueue' = aOutboundQueue \ {e}
  PROVE  WaitingA' = WaitingA \ {AsMessage(ChainA, e)}
<1>1. \A f \in aOutboundQueue : AsMessage(ChainA, f) = AsMessage(ChainA, e) => f = e
  BY DEF BooksA, OutBooksA, AsMessage
<1> QED
  BY <1>1 DEF WaitingA, AsMessage

LEMMA WaitingMoreA ==
  ASSUME NEW e, aOutboundQueue' = aOutboundQueue \cup {e}
  PROVE  WaitingA' = WaitingA \cup {AsMessage(ChainA, e)}
BY DEF WaitingA, AsMessage

LEMMA MessageFieldsA ==
  ASSUME NEW m \in MessagesOfA
  PROVE  /\ m.source = ChainA /\ m.toChain = ChainB
         /\ m.sender \in Users /\ m.recipient \in Users /\ m.amount \in Nat
         /\ m.sequence \in Nat
<1>1. m \in [source : {ChainA}, sequence : 0..(MaxSequenceA - 1), sender : Users,
            amount : Amounts, recipient : Users, toChain : {ChainB}]
  BY DEF MessagesOfA, MessagesFrom
<1>2. /\ m.source \in {ChainA} /\ m.toChain \in {ChainB} /\ m.sender \in Users
      /\ m.recipient \in Users /\ m.amount \in Amounts /\ m.sequence \in 0..(MaxSequenceA - 1)
  BY <1>1
<1>3. Amounts \subseteq Nat /\ MaxSequenceA \in Nat
  BY BridgeAssumption
<1>4. m.sequence \in Nat
  BY <1>2, <1>3
<1>5. m.amount \in Nat
  BY <1>2, <1>3
<1>6. m.source = ChainA /\ m.toChain = ChainB
  BY <1>2
<1> QED
  BY <1>2, <1>4, <1>5, <1>6

LEMMA TakesBooksA ==
  ASSUME BooksA, NEW m, TakesTransferA(m)
  PROVE  BooksA'
<1>1. /\ m \in MessagesOfA /\ m.sequence = aSequence /\ aSequence' = aSequence + 1
      /\ InboxStillA /\ TakesA(m.sender, m.amount)
  BY DEF TakesTransferA
<1>2. /\ aSequence \in Nat /\ \A n \in WaitingA \cup SentByA : n \in MessagesOfA
      /\ \A n \in WaitingA \cup SentByA : n.sequence < aSequence /\ n.sequence \in Nat
  BY MessageFieldsA DEF BooksA, OutBooksA
<1>3. ASSUME SentByA' = SentByA \cup {m}, UNCHANGED aOutboundQueue
      PROVE  OutBooksA'
  <2>1. WaitingA' = WaitingA
    BY <1>3 DEF WaitingA, AsMessage
  <2>2. IsFiniteSet(SentByA')
    BY <1>3, FS_AddElement DEF BooksA, OutBooksA
  <2>3. /\ WaitingA' \cup SentByA' \subseteq MessagesOfA
        /\ \A n \in WaitingA' \cup SentByA' : n.sequence < aSequence'
        /\ \A n \in WaitingA', k \in SentByA' : n.sequence # k.sequence
    BY <1>1, <1>2, <1>3, <2>1 DEF BooksA, OutBooksA
  <2>4. aSequence' \in Nat /\ IsFiniteSet(WaitingA')
    BY <1>1, <1>2, <2>1 DEF BooksA, OutBooksA
  <2> QED
    BY <1>3, <2>2, <2>3, <2>4 DEF BooksA, OutBooksA
<1>4. ASSUME NEW e, aOutboundQueue' = aOutboundQueue \cup {e}, AsMessage(ChainA, e) = m,
             UNCHANGED SentByA
      PROVE  OutBooksA'
  <2>1. WaitingA' = WaitingA \cup {m} /\ e.sequence = m.sequence
    BY <1>4, WaitingMoreA DEF AsMessage
  <2>2. IsFiniteSet(WaitingA')
    BY <2>1, FS_AddElement DEF BooksA, OutBooksA
  <2>3. /\ WaitingA' \cup SentByA' \subseteq MessagesOfA
        /\ \A n \in WaitingA' \cup SentByA' : n.sequence < aSequence'
        /\ \A n \in WaitingA', k \in SentByA' : n.sequence # k.sequence
    BY <1>1, <1>2, <1>4, <2>1 DEF BooksA, OutBooksA
  <2>4. \A f \in aOutboundQueue : f.sequence # e.sequence
    <3> SUFFICES ASSUME NEW f \in aOutboundQueue PROVE f.sequence # e.sequence
      OBVIOUS
    <3>1. AsMessage(ChainA, f) \in WaitingA /\ AsMessage(ChainA, f).sequence = f.sequence
      BY DEF WaitingA, AsMessage
    <3> QED
      BY <1>1, <1>2, <2>1, <3>1
  <2>5. \A f, g \in aOutboundQueue' : f.sequence = g.sequence => f = g
    BY <1>4, <2>4 DEF BooksA, OutBooksA
  <2>6. aSequence' \in Nat /\ IsFiniteSet(SentByA')
    BY <1>1, <1>2, <1>4 DEF BooksA, OutBooksA
  <2> QED
    BY <2>2, <2>3, <2>5, <2>6 DEF OutBooksA
<1>5. OutBooksA'
  BY <1>3, <1>4 DEF TakesTransferA, BooksA
<1>6. InBooksA'
  BY <1>1 DEF BooksA, InBooksA, InboxStillA
<1> QED
  BY <1>1, <1>5, <1>6, PurseA, MessageFieldsA DEF BooksA

LEMMA LeavesBooksA ==
  ASSUME BooksA, NEW e, SendsA(e) \/ CancelsA(e)
  PROVE  BooksA'
<1> DEFINE m == AsMessage(ChainA, e)
<1>1. /\ e \in aOutboundQueue /\ aOutboundQueue' = aOutboundQueue \ {e}
      /\ aSequence' = aSequence /\ InboxStillA
      /\ SentByA' = SentByA \/ SentByA' = SentByA \cup {m}
  BY DEF SendsA, CancelsA
<1>2. WaitingA' = WaitingA \ {m} /\ m \in WaitingA
  BY <1>1, WaitingFewerA DEF WaitingA
<1>3. m.sender = e.sender /\ m.amount = e.amount /\ m.sequence = e.sequence
  BY DEF AsMessage
<1> HIDE DEF m
<1>4. IsFiniteSet(WaitingA') /\ IsFiniteSet(SentByA')
  BY <1>1, <1>2, FS_AddElement, FS_RemoveElement DEF BooksA, OutBooksA
<1>5. \A n \in WaitingA' : n.sequence # m.sequence
  <2> SUFFICES ASSUME NEW f \in aOutboundQueue, f # e PROVE f.sequence # e.sequence
    BY <1>1, <1>3 DEF WaitingA, AsMessage
  <2> QED
    BY <1>1 DEF BooksA, OutBooksA
<1>6. /\ WaitingA' \cup SentByA' \subseteq MessagesOfA
      /\ \A n \in WaitingA' \cup SentByA' : n.sequence < aSequence'
      /\ \A n \in WaitingA', k \in SentByA' : n.sequence # k.sequence
      /\ \A f, g \in aOutboundQueue' : f.sequence = g.sequence => f = g
  BY <1>1, <1>2, <1>5 DEF BooksA, OutBooksA
<1>7. OutBooksA'
  BY <1>1, <1>4, <1>6 DEF BooksA, OutBooksA
<1>8. InBooksA'
  BY <1>1 DEF BooksA, InBooksA, InboxStillA
<1>9. e.sender \in Users /\ e.amount \in Nat
  BY <1>2, <1>3, MessageFieldsA DEF BooksA, OutBooksA
<1>10. PurseTypesA'
  BY <1>9, PurseA DEF SendsA, CancelsA, PurseStillA, BooksA, PurseTypesA
<1> QED
  BY <1>7, <1>8, <1>10 DEF BooksA

--------------------------------------------------------------------------------
\* The books of chain B.

(* Every transfer has a sequence number of its own, and waits or was sent, not both. *)
OutBooksB ==
    /\ bSequence \in Nat
    /\ IsFiniteSet(WaitingB) /\ IsFiniteSet(SentByB)
    /\ WaitingB \cup SentByB \subseteq MessagesOfB
    /\ \A m \in WaitingB \cup SentByB : m.sequence < bSequence
    /\ \A e, f \in bOutboundQueue : e.sequence = f.sequence => e = f
    /\ \A m \in WaitingB, n \in SentByB : m.sequence # n.sequence

(* A message is executed when it is paid or waits to be, once and not both. *)
InBooksB ==
    /\ bExecuted = bPaid \cup {e.message : e \in bInboundQueue}
    /\ \A e \in bInboundQueue : e.message \notin bPaid
    /\ \A e, f \in bInboundQueue : e.message = f.message => e = f

PurseTypesB == bBalances \in [Users -> Nat] /\ bHeld \in Int

BooksB == OutBooksB /\ InBooksB /\ PurseTypesB

OutboxStillB == UNCHANGED <<bSequence, bOutboundQueue, SentByB>>
InboxStillB == UNCHANGED <<bInboundQueue, bExecuted, bPaid>>
PurseStillB == UNCHANGED <<bBalances, bHeld>>
StillB == OutboxStillB /\ InboxStillB /\ PurseStillB

(* How a step can write in them. *)
TakesB(user, amount) ==
    /\ bBalances[user] >= amount
    /\ bBalances' = [bBalances EXCEPT ![user] = @ - amount]
    /\ bHeld' = bHeld + amount

GivesB(user, amount) ==
    /\ bBalances' = [bBalances EXCEPT ![user] = @ + amount]
    /\ bHeld' = bHeld - amount

TakesTransferB(m) ==
    /\ m \in MessagesOfB /\ m.sequence = bSequence
    /\ bSequence' = bSequence + 1
    /\ \/ SentByB' = SentByB \cup {m} /\ UNCHANGED bOutboundQueue
       \/ /\ \E e : bOutboundQueue' = bOutboundQueue \cup {e} /\ AsMessage(ChainB, e) = m
          /\ UNCHANGED SentByB
    /\ TakesB(m.sender, m.amount)
    /\ InboxStillB

SendsB(e) ==
    /\ e \in bOutboundQueue
    /\ bOutboundQueue' = bOutboundQueue \ {e}
    /\ SentByB' = SentByB \cup {AsMessage(ChainB, e)}
    /\ UNCHANGED bSequence
    /\ InboxStillB /\ PurseStillB

CancelsB(e) ==
    /\ e \in bOutboundQueue
    /\ bOutboundQueue' = bOutboundQueue \ {e}
    /\ UNCHANGED <<bSequence, SentByB>>
    /\ GivesB(e.sender, e.amount)
    /\ InboxStillB

ArrivesB(m) ==
    /\ m \in SentByA /\ m \notin bExecuted
    /\ bExecuted' = bExecuted \cup {m}
    /\ \/ GivesB(m.recipient, m.amount) /\ bPaid' = bPaid \cup {m} /\ UNCHANGED bInboundQueue
       \/ /\ \E e : bInboundQueue' = bInboundQueue \cup {e} /\ e.message = m
          /\ UNCHANGED bPaid
          /\ PurseStillB
    /\ OutboxStillB

DequeuesB(e) ==
    /\ e \in bInboundQueue
    /\ bInboundQueue' = bInboundQueue \ {e}
    /\ bPaid' = bPaid \cup {e.message}
    /\ GivesB(e.message.recipient, e.message.amount)
    /\ UNCHANGED bExecuted
    /\ OutboxStillB

EntersB ==
    \/ StillB
    \/ \E m : TakesTransferB(m)
    \/ \E e : SendsB(e)
    \/ \E e : CancelsB(e)
    \/ \E m : ArrivesB(m)
    \/ \E e : DequeuesB(e)

(* Every operation of the manager of chain B is one of these. *)
LEMMA SendEntryB ==
  ASSUME NEW m, B!SendToTransceivers(m)
  PROVE  SentByB' = SentByB \cup {m}
<1> DEFINE sent == {[transceiver |-> t, destManager |-> bPeers[m.toChain], message |-> m] :
                      t \in bEnabled}
<1>1. bEnabled # {} /\ bPublished' = bPublished \cup sent
  BY DEF B!SendToTransceivers
<1>2. \A p \in sent : p.message = m
  OBVIOUS
<1>3. sent # {}
  BY <1>1
<1> HIDE DEF sent
<1> QED
  BY <1>1, <1>2, <1>3 DEF SentByB, MessagesIn

LEMMA TransferEntryB ==
  ASSUME BooksB, OnlyB, NEW user \in Users, NEW amount \in Amounts, NEW recipient \in Users,
         \/ B!TransferNow(user, amount, ChainA, recipient)
         \/ B!TransferQueued(user, amount, ChainA, recipient)
  PROVE  \E m : TakesTransferB(m)
<1> DEFINE m == B!Message(bSequence, user, amount, ChainA, recipient)
<1>1. /\ B!TakeTransfer(user, amount, ChainA)
      /\ UNCHANGED <<bInboundQueue, bExecuted, bPaid>>
  BY DEF B!TransferNow, B!TransferQueued, B!inVars
<1>2. /\ bSequence < MaxSequenceB /\ bSequence' = bSequence + 1 /\ TakesB(user, amount)
  BY <1>1 DEF B!TakeTransfer, B!TakeTokens, TakesB
<1>3. bSequence \in 0..(MaxSequenceB - 1)
  BY <1>2, BridgeAssumption DEF BooksB, OutBooksB
<1>4. /\ m \in MessagesOfB /\ m.sequence = bSequence /\ m.sender = user /\ m.amount = amount
  BY <1>3 DEF B!Message, MessagesOfB, MessagesFrom
<1>5. CASE B!TransferNow(user, amount, ChainA, recipient)
  <2>1. UNCHANGED bOutboundQueue /\ B!SendToTransceivers(m)
    BY <1>5 DEF B!TransferNow
  <2>2. SentByB' = SentByB \cup {m}
    BY <2>1, SendEntryB
  <2> HIDE DEF m
  <2> QED
    BY <1>1, <1>2, <1>4, <2>1, <2>2 DEF TakesTransferB, InboxStillB
<1>6. CASE B!TransferQueued(user, amount, ChainA, recipient)
  <2> DEFINE e == [sequence |-> bSequence, amount |-> amount, recipientChain |-> ChainA,
                   recipient |-> recipient, sender |-> user, txTimestamp |-> now]
  <2>1. bOutboundQueue' = bOutboundQueue \cup {e} /\ bPublished' = bPublished
    BY <1>6 DEF B!TransferQueued
  <2>2. AsMessage(ChainB, e) = m /\ UNCHANGED SentByB
    BY <2>1 DEF AsMessage, B!Message, SentByB, MessagesIn
  <2> HIDE DEF m, e
  <2> QED
    BY <1>1, <1>2, <1>4, <2>1, <2>2 DEF TakesTransferB, InboxStillB
<1> QED
  BY <1>5, <1>6

LEMMA QueueEntryB ==
  ASSUME OnlyB, NEW e
  PROVE  /\ B!CompleteOutboundQueued(e) => SendsB(e)
         /\ \A user : B!CancelOutboundQueued(user, e) => CancelsB(e)
         /\ B!CompleteInboundQueued(e) => DequeuesB(e)
<1>1. ASSUME B!CompleteOutboundQueued(e)
      PROVE  SendsB(e)
  <2>1. /\ B!SendToTransceivers(B!Message(e.sequence, e.sender, e.amount, e.recipientChain,
                                         e.recipient))
        /\ e \in bOutboundQueue /\ bOutboundQueue' = bOutboundQueue \ {e}
        /\ UNCHANGED <<bSequence, bInboundQueue, bExecuted, bPaid, bBalances, bHeld>>
    BY <1>1 DEF B!CompleteOutboundQueued, B!Unqueue, B!inVars, B!tokenVars
  <2>2. B!Message(e.sequence, e.sender, e.amount, e.recipientChain, e.recipient)
          = AsMessage(ChainB, e)
    BY DEF B!Message, AsMessage
  <2> QED
    BY <2>1, <2>2, SendEntryB DEF SendsB, InboxStillB, PurseStillB
<1>2. ASSUME NEW user, B!CancelOutboundQueued(user, e)
      PROVE  CancelsB(e)
  BY <1>2 DEF B!CancelOutboundQueued, B!Unqueue, B!MintOrUnlock, B!inVars, CancelsB, GivesB,
              InboxStillB, SentByB, MessagesIn
<1>3. ASSUME B!CompleteInboundQueued(e)
      PROVE  DequeuesB(e)
  BY <1>3 DEF B!CompleteInboundQueued, B!Unqueue, B!MintOrUnlock, B!outVars, DequeuesB, GivesB,
              OutboxStillB, SentByB, MessagesIn
<1> QED
  BY <1>1, <1>2, <1>3

LEMMA HandleEntryB ==
  ASSUME NEW m \in SentByA, m \notin bExecuted, B!HandleTransfer(m), UNCHANGED B!outVars
  PROVE  ArrivesB(m)
<1>1. OutboxStillB
  BY DEF B!outVars, OutboxStillB, SentByB, MessagesIn
<1>2. [message |-> m, txTimestamp |-> now].message = m
  OBVIOUS
<1> QED
  BY <1>1, <1>2 DEF B!HandleTransfer, B!MintOrUnlock, B!tokenVars, ArrivesB, GivesB, PurseStillB

LEMMA ExecuteEntryB ==
  ASSUME InvB, OnlyB, NEW m, B!ExecuteMsg(m)
  PROVE  ArrivesB(m)
<1>1. /\ B!HandleTransfer(m) /\ UNCHANGED B!outVars /\ m \notin bExecuted
      /\ B!Approved(m, bAttestations, bEnabled, bThreshold)
  BY DEF B!ExecuteMsg, B!ReplayProtect
<1>2. PICK t \in bEnabled : <<m, t>> \in bAttestations
  BY <1>1, ApprovedAttestedB DEF InvB
<1>3. m \in SentByA
  BY <1>2 DEF InvB, SentByA
<1> QED
  BY <1>1, <1>3, HandleEntryB

LEMMA DeliverEntryB ==
  ASSUME InvB, NEW t \in Transceivers, NEW vaa \in AvailableVAAs, DeliverToB(t, vaa)
  PROVE  StillB \/ ArrivesB(vaa.message)
<1>1. vaa.message \in SentByA
  BY DeliverStepB, AcceptedPublishedB DEF SentByA
<1>2. UNCHANGED B!outVars /\ B!AttestationReceived(t, vaa.sourceManager, vaa.message)
  BY DEF DeliverToB, B!AttestationReceived
<1>3. CASE B!HandleTransfer(vaa.message) /\ vaa.message \notin bExecuted
  BY <1>1, <1>2, <1>3, HandleEntryB
<1>4. CASE UNCHANGED <<bInboundQueue, bExecuted, bPaid, B!tokenVars>>
  BY <1>2, <1>4 DEF B!outVars, B!tokenVars, StillB, OutboxStillB, InboxStillB, PurseStillB,
                    SentByB, MessagesIn
<1> QED
  BY <1>2, <1>3, <1>4 DEF B!AttestationReceived, B!ReplayProtect

LEMMA UnchangedEntryB ==
  ASSUME UNCHANGED bManagerVars \/ (OnlyB /\ B!AdminNext)
  PROVE  StillB
<1>1. CASE UNCHANGED bManagerVars
  BY <1>1 DEF bManagerVars, StillB, OutboxStillB, InboxStillB, PurseStillB, SentByB, MessagesIn
<1>2. CASE B!AdminNext
  <2>1. UNCHANGED <<B!outVars, B!inVars, B!tokenVars>>
    BY <1>2 DEF B!AdminNext, B!SetTransceiver, B!RemoveTransceiver, B!SetThreshold, B!SetPeer,
                B!SetOutboundLimit, B!SetInboundLimit, B!Pause, B!Unpause
  <2> QED
    BY <2>1 DEF B!outVars, B!inVars, B!tokenVars, StillB, OutboxStillB, InboxStillB,
                PurseStillB, SentByB, MessagesIn
<1> QED
  BY <1>1, <1>2

(* What the entries keep. *)
LEMMA PurseB ==
  ASSUME BooksB, NEW user \in Users, NEW amount \in Nat,
         TakesB(user, amount) \/ GivesB(user, amount)
  PROVE  PurseTypesB'
BY DEF BooksB, PurseTypesB, TakesB, GivesB

LEMMA WaitingFewerB ==
  ASSUME BooksB, NEW e \in bOutboundQueue, bOutboundQueue' = bOutboundQueue \ {e}
  PROVE  WaitingB' = WaitingB \ {AsMessage(ChainB, e)}
<1>1. \A f \in bOutboundQueue : AsMessage(ChainB, f) = AsMessage(ChainB, e) => f = e
  BY DEF BooksB, OutBooksB, AsMessage
<1> QED
  BY <1>1 DEF WaitingB, AsMessage

LEMMA WaitingMoreB ==
  ASSUME NEW e, bOutboundQueue' = bOutboundQueue \cup {e}
  PROVE  WaitingB' = WaitingB \cup {AsMessage(ChainB, e)}
BY DEF WaitingB, AsMessage

LEMMA MessageFieldsB ==
  ASSUME NEW m \in MessagesOfB
  PROVE  /\ m.source = ChainB /\ m.toChain = ChainA
         /\ m.sender \in Users /\ m.recipient \in Users /\ m.amount \in Nat
         /\ m.sequence \in Nat
<1>1. m \in [source : {ChainB}, sequence : 0..(MaxSequenceB - 1), sender : Users,
            amount : Amounts, recipient : Users, toChain : {ChainA}]
  BY DEF MessagesOfB, MessagesFrom
<1>2. /\ m.source \in {ChainB} /\ m.toChain \in {ChainA} /\ m.sender \in Users
      /\ m.recipient \in Users /\ m.amount \in Amounts /\ m.sequence \in 0..(MaxSequenceB - 1)
  BY <1>1
<1>3. Amounts \subseteq Nat /\ MaxSequenceB \in Nat
  BY BridgeAssumption
<1>4. m.sequence \in Nat
  BY <1>2, <1>3
<1>5. m.amount \in Nat
  BY <1>2, <1>3
<1>6. m.source = ChainB /\ m.toChain = ChainA
  BY <1>2
<1> QED
  BY <1>2, <1>4, <1>5, <1>6

LEMMA TakesBooksB ==
  ASSUME BooksB, NEW m, TakesTransferB(m)
  PROVE  BooksB'
<1>1. /\ m \in MessagesOfB /\ m.sequence = bSequence /\ bSequence' = bSequence + 1
      /\ InboxStillB /\ TakesB(m.sender, m.amount)
  BY DEF TakesTransferB
<1>2. /\ bSequence \in Nat /\ \A n \in WaitingB \cup SentByB : n \in MessagesOfB
      /\ \A n \in WaitingB \cup SentByB : n.sequence < bSequence /\ n.sequence \in Nat
  BY MessageFieldsB DEF BooksB, OutBooksB
<1>3. ASSUME SentByB' = SentByB \cup {m}, UNCHANGED bOutboundQueue
      PROVE  OutBooksB'
  <2>1. WaitingB' = WaitingB
    BY <1>3 DEF WaitingB, AsMessage
  <2>2. IsFiniteSet(SentByB')
    BY <1>3, FS_AddElement DEF BooksB, OutBooksB
  <2>3. /\ WaitingB' \cup SentByB' \subseteq MessagesOfB
        /\ \A n \in WaitingB' \cup SentByB' : n.sequence < bSequence'
        /\ \A n \in WaitingB', k \in SentByB' : n.sequence # k.sequence
    BY <1>1, <1>2, <1>3, <2>1 DEF BooksB, OutBooksB
  <2>4. bSequence' \in Nat /\ IsFiniteSet(WaitingB')
    BY <1>1, <1>2, <2>1 DEF BooksB, OutBooksB
  <2> QED
    BY <1>3, <2>2, <2>3, <2>4 DEF BooksB, OutBooksB
<1>4. ASSUME NEW e, bOutboundQueue' = bOutboundQueue \cup {e}, AsMessage(ChainB, e) = m,
             UNCHANGED SentByB
      PROVE  OutBooksB'
  <2>1. WaitingB' = WaitingB \cup {m} /\ e.sequence = m.sequence
    BY <1>4, WaitingMoreB DEF AsMessage
  <2>2. IsFiniteSet(WaitingB')
    BY <2>1, FS_AddElement DEF BooksB, OutBooksB
  <2>3. /\ WaitingB' \cup SentByB' \subseteq MessagesOfB
        /\ \A n \in WaitingB' \cup SentByB' : n.sequence < bSequence'
        /\ \A n \in WaitingB', k \in SentByB' : n.sequence # k.sequence
    BY <1>1, <1>2, <1>4, <2>1 DEF BooksB, OutBooksB
  <2>4. \A f \in bOutboundQueue : f.sequence # e.sequence
    <3> SUFFICES ASSUME NEW f \in bOutboundQueue PROVE f.sequence # e.sequence
      OBVIOUS
    <3>1. AsMessage(ChainB, f) \in WaitingB /\ AsMessage(ChainB, f).sequence = f.sequence
      BY DEF WaitingB, AsMessage
    <3> QED
      BY <1>1, <1>2, <2>1, <3>1
  <2>5. \A f, g \in bOutboundQueue' : f.sequence = g.sequence => f = g
    BY <1>4, <2>4 DEF BooksB, OutBooksB
  <2>6. bSequence' \in Nat /\ IsFiniteSet(SentByB')
    BY <1>1, <1>2, <1>4 DEF BooksB, OutBooksB
  <2> QED
    BY <2>2, <2>3, <2>5, <2>6 DEF OutBooksB
<1>5. OutBooksB'
  BY <1>3, <1>4 DEF TakesTransferB, BooksB
<1>6. InBooksB'
  BY <1>1 DEF BooksB, InBooksB, InboxStillB
<1> QED
  BY <1>1, <1>5, <1>6, PurseB, MessageFieldsB DEF BooksB

LEMMA LeavesBooksB ==
  ASSUME BooksB, NEW e, SendsB(e) \/ CancelsB(e)
  PROVE  BooksB'
<1> DEFINE m == AsMessage(ChainB, e)
<1>1. /\ e \in bOutboundQueue /\ bOutboundQueue' = bOutboundQueue \ {e}
      /\ bSequence' = bSequence /\ InboxStillB
      /\ SentByB' = SentByB \/ SentByB' = SentByB \cup {m}
  BY DEF SendsB, CancelsB
<1>2. WaitingB' = WaitingB \ {m} /\ m \in WaitingB
  BY <1>1, WaitingFewerB DEF WaitingB
<1>3. m.sender = e.sender /\ m.amount = e.amount /\ m.sequence = e.sequence
  BY DEF AsMessage
<1> HIDE DEF m
<1>4. IsFiniteSet(WaitingB') /\ IsFiniteSet(SentByB')
  BY <1>1, <1>2, FS_AddElement, FS_RemoveElement DEF BooksB, OutBooksB
<1>5. \A n \in WaitingB' : n.sequence # m.sequence
  <2> SUFFICES ASSUME NEW f \in bOutboundQueue, f # e PROVE f.sequence # e.sequence
    BY <1>1, <1>3 DEF WaitingB, AsMessage
  <2> QED
    BY <1>1 DEF BooksB, OutBooksB
<1>6. /\ WaitingB' \cup SentByB' \subseteq MessagesOfB
      /\ \A n \in WaitingB' \cup SentByB' : n.sequence < bSequence'
      /\ \A n \in WaitingB', k \in SentByB' : n.sequence # k.sequence
      /\ \A f, g \in bOutboundQueue' : f.sequence = g.sequence => f = g
  BY <1>1, <1>2, <1>5 DEF BooksB, OutBooksB
<1>7. OutBooksB'
  BY <1>1, <1>4, <1>6 DEF BooksB, OutBooksB
<1>8. InBooksB'
  BY <1>1 DEF BooksB, InBooksB, InboxStillB
<1>9. e.sender \in Users /\ e.amount \in Nat
  BY <1>2, <1>3, MessageFieldsB DEF BooksB, OutBooksB
<1>10. PurseTypesB'
  BY <1>9, PurseB DEF SendsB, CancelsB, PurseStillB, BooksB, PurseTypesB
<1> QED
  BY <1>7, <1>8, <1>10 DEF BooksB

--------------------------------------------------------------------------------
\* What the two sides hold is one account of every transfer.

LEMMA Places ==
  ASSUME BooksA, BooksB, InvA, InvB
  PROVE  /\ WaitingA \subseteq MessagesOfA /\ SentByA \subseteq MessagesOfA
         /\ WaitingB \subseteq MessagesOfB /\ SentByB \subseteq MessagesOfB
         /\ WaitingA \cap SentByA = {} /\ WaitingB \cap SentByB = {}
         /\ aPaid \subseteq SentByB /\ bPaid \subseteq SentByA
         /\ MessagesOfA \cap MessagesOfB = {}
<1>1. /\ WaitingA \subseteq MessagesOfA /\ SentByA \subseteq MessagesOfA
      /\ WaitingB \subseteq MessagesOfB /\ SentByB \subseteq MessagesOfB
      /\ WaitingA \cap SentByA = {} /\ WaitingB \cap SentByB = {}
  BY DEF BooksA, OutBooksA, BooksB, OutBooksB
<1>2. aPaid \subseteq SentByB /\ bPaid \subseteq SentByA
  BY DEF BooksA, InBooksA, InvA, BooksB, InBooksB, InvB, SentByA, SentByB
<1>3. \A m \in MessagesOfA : m \notin MessagesOfB
  BY MessageFieldsA, MessageFieldsB, BridgeAssumption
<1> QED
  BY <1>1, <1>2, <1>3

(* Messages of the other side that arrive here are in its books. *)
LEMMA ArrivesBooksA ==
  ASSUME BooksA, BooksB, InvA, NEW m, m \in SentByB,
         ArrivesA(m) \/ \E e : DequeuesA(e) /\ e.message = m
  PROVE  BooksA'
<1>1. m.recipient \in Users /\ m.amount \in Nat
  BY MessageFieldsB DEF BooksB, OutBooksB
<1>2. OutBooksA'
  BY DEF ArrivesA, DequeuesA, OutboxStillA, BooksA, OutBooksA, WaitingA, AsMessage
<1>3. PurseTypesA'
  BY <1>1, PurseA DEF ArrivesA, DequeuesA, PurseStillA, BooksA, PurseTypesA
<1>4. ASSUME ArrivesA(m)
      PROVE  InBooksA'
  <2>1. \A e \in aInboundQueue : e.message # m
    BY <1>4 DEF ArrivesA, BooksA, InBooksA
  <2> QED
    BY <1>4, <2>1 DEF ArrivesA, BooksA, InBooksA
<1>5. ASSUME NEW e, DequeuesA(e)
      PROVE  InBooksA'
  BY <1>5 DEF DequeuesA, BooksA, InBooksA
<1> QED
  BY <1>2, <1>3, <1>4, <1>5 DEF BooksA

LEMMA EntryBooksA ==
  ASSUME BooksA, BooksB, InvA, EntersA
  PROVE  BooksA'
<1>1. CASE StillA
  BY <1>1 DEF StillA, OutboxStillA, InboxStillA, PurseStillA, BooksA, OutBooksA, InBooksA,
              PurseTypesA, WaitingA, AsMessage
<1>2. ASSUME NEW m, ArrivesA(m)
      PROVE  BooksA'
  BY <1>2, ArrivesBooksA DEF ArrivesA
<1>3. ASSUME NEW e, DequeuesA(e)
      PROVE  BooksA'
  <2>1. e.message \in SentByB
    BY <1>3 DEF DequeuesA, BooksA, InBooksA, InvA, SentByB
  <2> QED
    BY <1>3, <2>1, ArrivesBooksA
<1> QED
  BY <1>1, <1>2, <1>3, TakesBooksA, LeavesBooksA DEF EntersA

(* What an entry is to the users: a transfer starts, is paid or is refunded here. *)
StartsA(m) ==
    /\ m \in MessagesOfA /\ m \notin Unsettled
    /\ TakesA(m.sender, m.amount)
    /\ Unsettled' = Unsettled \cup {m}

PaysA(m) ==
    /\ m \in MessagesOfB /\ m \in Unsettled
    /\ GivesA(m.recipient, m.amount)
    /\ Unsettled' = Unsettled \ {m}

RefundsA(m) ==
    /\ m \in MessagesOfA /\ m \in Unsettled
    /\ GivesA(m.sender, m.amount)
    /\ Unsettled' = Unsettled \ {m}

MovesA ==
    \/ PurseStillA /\ UNCHANGED Unsettled
    \/ \E m : StartsA(m) \/ PaysA(m) \/ RefundsA(m)

LEMMA EntryMovesA ==
  ASSUME BooksA, BooksB, InvA, InvB, EntersA, StillB
  PROVE  MovesA
<1>1. /\ Unsettled = WaitingA \cup WaitingB \cup (SentByA \ bPaid) \cup (SentByB \ aPaid)
      /\ Unsettled' = WaitingA' \cup WaitingB' \cup (SentByA' \ bPaid') \cup (SentByB' \ aPaid')
  BY DEF Unsettled, WaitingA, WaitingB, SentByA, SentByB
<1>2. /\ WaitingA \subseteq MessagesOfA /\ SentByA \subseteq MessagesOfA
      /\ WaitingB \subseteq MessagesOfB /\ SentByB \subseteq MessagesOfB
      /\ WaitingA \cap SentByA = {} /\ WaitingB \cap SentByB = {}
      /\ aPaid \subseteq SentByB /\ bPaid \subseteq SentByA
      /\ MessagesOfA \cap MessagesOfB = {}
  BY Places
<1>3. WaitingB' = WaitingB /\ SentByB' = SentByB /\ bPaid' = bPaid
  BY DEF StillB, OutboxStillB, InboxStillB, WaitingB, AsMessage
<1>4. aOutboundQueue' = aOutboundQueue => WaitingA' = WaitingA
  BY DEF WaitingA, AsMessage
<1>5. CASE StillA
  BY <1>1, <1>3, <1>4, <1>5 DEF StillA, OutboxStillA, InboxStillA, MovesA
<1>6. ASSUME NEW m, TakesTransferA(m)
      PROVE  StartsA(m)
  <2>1. /\ m \in MessagesOfA /\ m.sequence = aSequence /\ aPaid' = aPaid
        /\ TakesA(m.sender, m.amount)
    BY <1>6 DEF TakesTransferA, InboxStillA
  <2>2. m \notin WaitingA /\ m \notin SentByA
    BY <2>1 DEF BooksA, OutBooksA
  <2>3. \/ SentByA' = SentByA \cup {m} /\ WaitingA' = WaitingA
        \/ SentByA' = SentByA /\ WaitingA' = WaitingA \cup {m}
    BY <1>4, <1>6, WaitingMoreA DEF TakesTransferA
  <2>4. m \notin Unsettled /\ Unsettled' = Unsettled \cup {m}
    BY <1>1, <1>2, <1>3, <2>1, <2>2, <2>3
  <2> QED
    BY <2>1, <2>4 DEF StartsA
<1>7. ASSUME NEW e, SendsA(e)
      PROVE  PurseStillA /\ UNCHANGED Unsettled
  <2>1. /\ WaitingA' = WaitingA \ {AsMessage(ChainA, e)}
        /\ SentByA' = SentByA \cup {AsMessage(ChainA, e)}
        /\ AsMessage(ChainA, e) \in WaitingA
        /\ aPaid' = aPaid /\ PurseStillA
    BY <1>7, WaitingFewerA DEF SendsA, InboxStillA, WaitingA
  <2> QED
    BY <1>1, <1>2, <1>3, <2>1
<1>8. ASSUME NEW e, CancelsA(e)
      PROVE  RefundsA(AsMessage(ChainA, e))
  <2> DEFINE m == AsMessage(ChainA, e)
  <2>1. /\ WaitingA' = WaitingA \ {m} /\ m \in WaitingA
        /\ SentByA' = SentByA /\ aPaid' = aPaid
    BY <1>8, WaitingFewerA DEF CancelsA, InboxStillA, WaitingA
  <2>2. GivesA(m.sender, m.amount)
    BY <1>8 DEF CancelsA, AsMessage
  <2> HIDE DEF m
  <2>3. m \in MessagesOfA /\ m \in Unsettled /\ Unsettled' = Unsettled \ {m}
    BY <1>1, <1>2, <1>3, <2>1
  <2>4. RefundsA(m)
    BY <2>2, <2>3 DEF RefundsA
  <2> QED
    BY <2>4 DEF m
<1>9. ASSUME NEW m, m \in SentByB, m \notin aPaid, aPaid' = aPaid \cup {m},
             GivesA(m.recipient, m.amount), OutboxStillA
      PROVE  PaysA(m)
  <2>1. WaitingA' = WaitingA /\ SentByA' = SentByA
    BY <1>4, <1>9 DEF OutboxStillA
  <2>2. m \in MessagesOfB /\ m \in Unsettled /\ Unsettled' = Unsettled \ {m}
    BY <1>1, <1>2, <1>3, <1>9, <2>1
  <2> QED
    BY <1>9, <2>2 DEF PaysA
<1>10. ASSUME NEW m, ArrivesA(m)
       PROVE  PaysA(m) \/ (PurseStillA /\ UNCHANGED Unsettled)
  <2>1. m \in SentByB /\ m \notin aPaid /\ OutboxStillA
    BY <1>10 DEF ArrivesA, BooksA, InBooksA
  <2>2. CASE PurseStillA /\ aPaid' = aPaid
    BY <1>1, <1>3, <1>4, <2>1, <2>2 DEF OutboxStillA
  <2> QED
    BY <1>9, <1>10, <2>1, <2>2 DEF ArrivesA
<1>11. ASSUME NEW e, DequeuesA(e)
       PROVE  PaysA(e.message)
  <2>1. e.message \in SentByB /\ e.message \notin aPaid
    BY <1>11 DEF DequeuesA, BooksA, InBooksA, InvA, SentByB
  <2> QED
    BY <1>9, <1>11, <2>1 DEF DequeuesA
<1> QED
  BY <1>5, <1>6, <1>7, <1>8, <1>10, <1>11 DEF EntersA, MovesA

(* Messages of the other side that arrive here are in its books. *)
LEMMA ArrivesBooksB ==
  ASSUME BooksB, BooksA, InvB, NEW m, m \in SentByA,
         ArrivesB(m) \/ \E e : DequeuesB(e) /\ e.message = m
  PROVE  BooksB'
<1>1. m.recipient \in Users /\ m.amount \in Nat
  BY MessageFieldsA DEF BooksA, OutBooksA
<1>2. OutBooksB'
  BY DEF ArrivesB, DequeuesB, OutboxStillB, BooksB, OutBooksB, WaitingB, AsMessage
<1>3. PurseTypesB'
  BY <1>1, PurseB DEF ArrivesB, DequeuesB, PurseStillB, BooksB, PurseTypesB
<1>4. ASSUME ArrivesB(m)
      PROVE  InBooksB'
  <2>1. \A e \in bInboundQueue : e.message # m
    BY <1>4 DEF ArrivesB, BooksB, InBooksB
  <2> QED
    BY <1>4, <2>1 DEF ArrivesB, BooksB, InBooksB
<1>5. ASSUME NEW e, DequeuesB(e)
      PROVE  InBooksB'
  BY <1>5 DEF DequeuesB, BooksB, InBooksB
<1> QED
  BY <1>2, <1>3, <1>4, <1>5 DEF BooksB

LEMMA EntryBooksB ==
  ASSUME BooksB, BooksA, InvB, EntersB
  PROVE  BooksB'
<1>1. CASE StillB
  BY <1>1 DEF StillB, OutboxStillB, InboxStillB, PurseStillB, BooksB, OutBooksB, InBooksB,
              PurseTypesB, WaitingB, AsMessage
<1>2. ASSUME NEW m, ArrivesB(m)
      PROVE  BooksB'
  BY <1>2, ArrivesBooksB DEF ArrivesB
<1>3. ASSUME NEW e, DequeuesB(e)
      PROVE  BooksB'
  <2>1. e.message \in SentByA
    BY <1>3 DEF DequeuesB, BooksB, InBooksB, InvB, SentByA
  <2> QED
    BY <1>3, <2>1, ArrivesBooksB
<1> QED
  BY <1>1, <1>2, <1>3, TakesBooksB, LeavesBooksB DEF EntersB

(* What an entry is to the users: a transfer starts, is paid or is refunded here. *)
StartsB(m) ==
    /\ m \in MessagesOfB /\ m \notin Unsettled
    /\ TakesB(m.sender, m.amount)
    /\ Unsettled' = Unsettled \cup {m}

PaysB(m) ==
    /\ m \in MessagesOfA /\ m \in Unsettled
    /\ GivesB(m.recipient, m.amount)
    /\ Unsettled' = Unsettled \ {m}

RefundsB(m) ==
    /\ m \in MessagesOfB /\ m \in Unsettled
    /\ GivesB(m.sender, m.amount)
    /\ Unsettled' = Unsettled \ {m}

MovesB ==
    \/ PurseStillB /\ UNCHANGED Unsettled
    \/ \E m : StartsB(m) \/ PaysB(m) \/ RefundsB(m)

LEMMA EntryMovesB ==
  ASSUME BooksB, BooksA, InvB, InvA, EntersB, StillA
  PROVE  MovesB
<1>1. /\ Unsettled = WaitingB \cup WaitingA \cup (SentByB \ aPaid) \cup (SentByA \ bPaid)
      /\ Unsettled' = WaitingB' \cup WaitingA' \cup (SentByB' \ aPaid') \cup (SentByA' \ bPaid')
  BY DEF Unsettled, WaitingB, WaitingA, SentByB, SentByA
<1>2. /\ WaitingB \subseteq MessagesOfB /\ SentByB \subseteq MessagesOfB
      /\ WaitingA \subseteq MessagesOfA /\ SentByA \subseteq MessagesOfA
      /\ WaitingB \cap SentByB = {} /\ WaitingA \cap SentByA = {}
      /\ bPaid \subseteq SentByA /\ aPaid \subseteq SentByB
      /\ MessagesOfB \cap MessagesOfA = {}
  BY Places
<1>3. WaitingA' = WaitingA /\ SentByA' = SentByA /\ aPaid' = aPaid
  BY DEF StillA, OutboxStillA, InboxStillA, WaitingA, AsMessage
<1>4. bOutboundQueue' = bOutboundQueue => WaitingB' = WaitingB
  BY DEF WaitingB, AsMessage
<1>5. CASE StillB
  BY <1>1, <1>3, <1>4, <1>5 DEF StillB, OutboxStillB, InboxStillB, MovesB
<1>6. ASSUME NEW m, TakesTransferB(m)
      PROVE  StartsB(m)
  <2>1. /\ m \in MessagesOfB /\ m.sequence = bSequence /\ bPaid' = bPaid
        /\ TakesB(m.sender, m.amount)
    BY <1>6 DEF TakesTransferB, InboxStillB
  <2>2. m \notin WaitingB /\ m \notin SentByB
    BY <2>1 DEF BooksB, OutBooksB
  <2>3. \/ SentByB' = SentByB \cup {m} /\ WaitingB' = WaitingB
        \/ SentByB' = SentByB /\ WaitingB' = WaitingB \cup {m}
    BY <1>4, <1>6, WaitingMoreB DEF TakesTransferB
  <2>4. m \notin Unsettled /\ Unsettled' = Unsettled \cup {m}
    BY <1>1, <1>2, <1>3, <2>1, <2>2, <2>3
  <2> QED
    BY <2>1, <2>4 DEF StartsB
<1>7. ASSUME NEW e, SendsB(e)
      PROVE  PurseStillB /\ UNCHANGED Unsettled
  <2>1. /\ WaitingB' = WaitingB \ {AsMessage(ChainB, e)}
        /\ SentByB' = SentByB \cup {AsMessage(ChainB, e)}
        /\ AsMessage(ChainB, e) \in WaitingB
        /\ bPaid' = bPaid /\ PurseStillB
    BY <1>7, WaitingFewerB DEF SendsB, InboxStillB, WaitingB
  <2> QED
    BY <1>1, <1>2, <1>3, <2>1
<1>8. ASSUME NEW e, CancelsB(e)
      PROVE  RefundsB(AsMessage(ChainB, e))
  <2> DEFINE m == AsMessage(ChainB, e)
  <2>1. /\ WaitingB' = WaitingB \ {m} /\ m \in WaitingB
        /\ SentByB' = SentByB /\ bPaid' = bPaid
    BY <1>8, WaitingFewerB DEF CancelsB, InboxStillB, WaitingB
  <2>2. GivesB(m.sender, m.amount)
    BY <1>8 DEF CancelsB, AsMessage
  <2> HIDE DEF m
  <2>3. m \in MessagesOfB /\ m \in Unsettled /\ Unsettled' = Unsettled \ {m}
    BY <1>1, <1>2, <1>3, <2>1
  <2>4. RefundsB(m)
    BY <2>2, <2>3 DEF RefundsB
  <2> QED
    BY <2>4 DEF m
<1>9. ASSUME NEW m, m \in SentByA, m \notin bPaid, bPaid' = bPaid \cup {m},
             GivesB(m.recipient, m.amount), OutboxStillB
      PROVE  PaysB(m)
  <2>1. WaitingB' = WaitingB /\ SentByB' = SentByB
    BY <1>4, <1>9 DEF OutboxStillB
  <2>2. m \in MessagesOfA /\ m \in Unsettled /\ Unsettled' = Unsettled \ {m}
    BY <1>1, <1>2, <1>3, <1>9, <2>1
  <2> QED
    BY <1>9, <2>2 DEF PaysB
<1>10. ASSUME NEW m, ArrivesB(m)
       PROVE  PaysB(m) \/ (PurseStillB /\ UNCHANGED Unsettled)
  <2>1. m \in SentByA /\ m \notin bPaid /\ OutboxStillB
    BY <1>10 DEF ArrivesB, BooksB, InBooksB
  <2>2. CASE PurseStillB /\ bPaid' = bPaid
    BY <1>1, <1>3, <1>4, <2>1, <2>2 DEF OutboxStillB
  <2> QED
    BY <1>9, <1>10, <2>1, <2>2 DEF ArrivesB
<1>11. ASSUME NEW e, DequeuesB(e)
       PROVE  PaysB(e.message)
  <2>1. e.message \in SentByA /\ e.message \notin bPaid
    BY <1>11 DEF DequeuesB, BooksB, InBooksB, InvB, SentByA
  <2> QED
    BY <1>9, <1>11, <2>1 DEF DequeuesB
<1> QED
  BY <1>5, <1>6, <1>7, <1>8, <1>10, <1>11 DEF EntersB, MovesB

--------------------------------------------------------------------------------
\* Every step enters the books of one side.

LEMMA BridgeEntry ==
  ASSUME BooksA, BooksB, InvA, InvB, [Next]_vars
  PROVE  (EntersA /\ StillB) \/ (StillA /\ EntersB)
<1>1. UNCHANGED aVars => StillA
  BY UnchangedEntryA DEF aVars
<1>2. UNCHANGED bVars => StillB
  BY UnchangedEntryB DEF bVars
<1>3. (OnlyA => StillB) /\ (OnlyB => StillA)
  BY <1>1, <1>2 DEF OnlyA, OnlyB
<1>4. CASE Transfer
  BY <1>3, <1>4, TransferEntryA, TransferEntryB DEF Transfer, EntersA, EntersB
<1>5. CASE Cancel
  BY <1>3, <1>5, QueueEntryA, QueueEntryB DEF Cancel, EntersA, EntersB
<1>6. CASE Complete
  BY <1>3, <1>6, QueueEntryA, QueueEntryB DEF Complete, EntersA, EntersB
<1>7. CASE Execute
  BY <1>3, <1>7, ExecuteEntryA, ExecuteEntryB DEF Execute, EntersA, EntersB
<1>8. ASSUME NEW t \in Transceivers, Deliver(t)
      PROVE  (EntersA /\ StillB) \/ (StillA /\ EntersB)
  <2>1. ASSUME NEW vaa \in AvailableVAAs, DeliverToA(t, vaa)
        PROVE  EntersA /\ StillB
    BY <1>2, <2>1, DeliverEntryA DEF EntersA, DeliverToA
  <2>2. ASSUME NEW vaa \in AvailableVAAs, DeliverToB(t, vaa)
        PROVE  StillA /\ EntersB
    BY <1>1, <2>2, DeliverEntryB DEF EntersB, DeliverToB
  <2> QED
    BY <1>8, <2>1, <2>2 DEF Deliver
<1>9. CASE Owner
  BY <1>1, <1>2, <1>3, <1>9, UnchangedEntryA, UnchangedEntryB DEF Owner, EntersA, EntersB
<1>10. CASE Tick \/ UNCHANGED vars
  BY <1>1, <1>2, <1>10 DEF Tick, vars, EntersA
<1> QED
  BY <1>4, <1>5, <1>6, <1>7, <1>8, <1>9, <1>10 DEF Next, QuietNext, UserNext

BooksInv == BooksA /\ BooksB /\ InvA /\ InvB

LEMMA InitBooksInv == Init => BooksInv
<1> SUFFICES ASSUME Init PROVE BooksInv
  OBVIOUS
<1>1. WaitingA = {} /\ WaitingB = {} /\ SentByA = {} /\ SentByB = {}
  BY DEF Init, WaitingA, WaitingB, SentByA, SentByB, MessagesIn
<1>2. NoTokens \in [Users -> Nat] /\ StartBalances \in [Users -> Nat]
  BY BridgeAssumption DEF NoTokens
<1>3. OutBooksA /\ OutBooksB
  BY <1>1, FS_EmptySet DEF Init, OutBooksA, OutBooksB
<1>4. InBooksA /\ InBooksB /\ PurseTypesA /\ PurseTypesB
  BY <1>2 DEF Init, InBooksA, InBooksB, PurseTypesA, PurseTypesB
<1> QED
  BY <1>3, <1>4, InitA, InitB DEF BooksInv, BooksA, BooksB

LEMMA NextBooksInv == BooksInv /\ [Next]_vars => BooksInv'
<1> SUFFICES ASSUME BooksInv, [Next]_vars PROVE BooksInv'
  OBVIOUS
<1>1. BooksA /\ BooksB /\ InvA /\ InvB
  BY DEF BooksInv
<1>2. (InvA /\ InvB)'
  BY <1>1, BridgeInvStep
<1>3. EntersA /\ EntersB
  BY <1>1, BridgeEntry DEF EntersA, EntersB
<1>4. (BooksA /\ BooksB)'
  BY <1>1, <1>3, EntryBooksA, EntryBooksB
<1> QED
  BY <1>2, <1>4 DEF BooksInv

(* To the users, a step starts, pays or refunds one transfer on one side, or nothing. *)
LEMMA BridgeMoves ==
  ASSUME BooksInv, [Next]_vars
  PROVE  (MovesA /\ PurseStillB) \/ (PurseStillA /\ MovesB)
BY BridgeEntry, EntryMovesA, EntryMovesB DEF BooksInv, StillA, StillB

--------------------------------------------------------------------------------
\* The tokens of the locking side.

LEMMA UnsettledAmounts ==
  ASSUME BooksInv
  PROVE  /\ IsFiniteSet(Unsettled)
         /\ Unsettled \subseteq MessagesOfA \cup MessagesOfB
         /\ \A m \in Unsettled : m.amount \in Nat
         /\ SumOfAmounts(Unsettled) \in Nat
<1>1. Unsettled = WaitingA \cup WaitingB \cup (SentByA \ bPaid) \cup (SentByB \ aPaid)
  BY DEF Unsettled, WaitingA, WaitingB, SentByA, SentByB
<1>2. IsFiniteSet(WaitingA) /\ IsFiniteSet(WaitingB) /\ IsFiniteSet(SentByA) /\ IsFiniteSet(SentByB)
  BY DEF BooksInv, BooksA, BooksB, OutBooksA, OutBooksB
<1>3. IsFiniteSet(SentByA \ bPaid) /\ IsFiniteSet(SentByB \ aPaid)
  BY <1>2, FS_Difference
<1>4. IsFiniteSet(Unsettled)
  BY <1>1, <1>2, <1>3, FS_Union
<1>5. Unsettled \subseteq MessagesOfA \cup MessagesOfB
  BY <1>1, Places DEF BooksInv
<1>6. \A m \in Unsettled : m.amount \in Nat
  BY <1>5, MessageFieldsA, MessageFieldsB
<1> QED
  BY <1>4, <1>5, <1>6, AmountsType

LEMMA MoreUnsettled ==
  ASSUME BooksInv, NEW m \in MessagesOfA \cup MessagesOfB, m \notin Unsettled
  PROVE  SumOfAmounts(Unsettled \cup {m}) = SumOfAmounts(Unsettled) + m.amount
<1>1. m.amount \in Nat
  BY MessageFieldsA, MessageFieldsB
<1> QED
  BY <1>1, UnsettledAmounts, AmountsAdd

LEMMA FewerUnsettled ==
  ASSUME BooksInv, NEW m \in Unsettled
  PROVE  SumOfAmounts(Unsettled \ {m}) = SumOfAmounts(Unsettled) - m.amount
BY UnsettledAmounts, AmountsRemove

(* The supply of the burning side. *)
LEMMA Supply ==
  ASSUME PurseTypesB
  PROVE  SumOfBalances(bBalances) = SumFunction(bBalances) /\ SumOfBalances(bBalances) \in Nat
<1>1. [u \in Users |-> bBalances[u]] = bBalances /\ DOMAIN bBalances = Users
  BY DEF PurseTypesB
<1>2. SumFunction(bBalances) \in Nat
  BY <1>1, BridgeAssumption, SumType DEF PurseTypesB
<1> QED
  BY <1>1, <1>2 DEF SumOfBalances

LEMMA SupplyMoves ==
  ASSUME PurseTypesB, NEW user \in Users, NEW balance \in Nat,
         bBalances' = [bBalances EXCEPT ![user] = balance]
  PROVE  SumOfBalances(bBalances)' = SumOfBalances(bBalances) - bBalances[user] + balance
<1> DEFINE f == bBalances
           g == bBalances'
<1>1. /\ DOMAIN f = Users /\ DOMAIN g = Users /\ IsFiniteSet(Users)
      /\ \A u \in Users \ {user} : g[u] = f[u]
      /\ \A u \in Users : f[u] \in Int
      /\ g[user] = balance /\ g[user] \in Int
  BY BridgeAssumption DEF PurseTypesB
<1>2. bBalances' \in [Users -> Nat]
  BY DEF PurseTypesB
<1>3. SumOfBalances(bBalances)' = SumFunction(g) /\ SumOfBalances(bBalances) = SumFunction(f)
  <2>1. [u \in Users |-> bBalances'[u]] = bBalances'
    BY <1>2
  <2> QED
    BY <2>1, Supply DEF SumOfBalances
<1>4. SumFunction(g) = SumFunction(f) - f[user] + g[user]
  <2> HIDE DEF f, g
  <2> QED
    BY <1>1, SumChanges
<1> QED
  BY <1>1, <1>3, <1>4

LEMMA BackedStep ==
  ASSUME BooksInv, Backed, [Next]_vars
  PROVE  Backed'
<1> DEFINE supply == SumOfBalances(bBalances)
           onTheWay == SumOfAmounts(Unsettled)
<1>1. PurseTypesA /\ PurseTypesB
  BY DEF BooksInv, BooksA, BooksB
<1>2. supply \in Nat /\ onTheWay \in Nat /\ aHeld = supply + onTheWay /\ aHeld \in Int
  BY <1>1, Supply, UnsettledAmounts DEF Backed, PurseTypesA
<1>3. \A m \in MessagesOfA \cup MessagesOfB :
        m.amount \in Nat /\ m.sender \in Users /\ m.recipient \in Users
  BY MessageFieldsA, MessageFieldsB
<1>4. bBalances' = bBalances => supply' = supply
  BY DEF SumOfBalances
<1>5. CASE UNCHANGED <<aHeld, bBalances, Unsettled>>
  BY <1>5 DEF Backed, SumOfBalances
<1>6. ASSUME NEW m, StartsA(m) \/ PaysA(m) \/ RefundsA(m), PurseStillB
      PROVE  Backed'
  <2>1. supply' = supply
    BY <1>4, <1>6 DEF PurseStillB
  <2>2. CASE StartsA(m)
    <3>1. m.amount \in Nat /\ aHeld' = aHeld + m.amount
      BY <1>3, <2>2 DEF StartsA, TakesA
    <3>2. onTheWay' = onTheWay + m.amount
      BY <2>2, MoreUnsettled DEF StartsA
    <3> QED
      BY <1>2, <2>1, <3>1, <3>2 DEF Backed
  <2>3. CASE PaysA(m) \/ RefundsA(m)
    <3>1. m.amount \in Nat /\ aHeld' = aHeld - m.amount
      BY <1>3, <2>3 DEF PaysA, RefundsA, GivesA
    <3>2. onTheWay' = onTheWay - m.amount
      BY <2>3, FewerUnsettled DEF PaysA, RefundsA
    <3> QED
      BY <1>2, <2>1, <3>1, <3>2 DEF Backed
  <2> QED
    BY <1>6, <2>2, <2>3
<1>7. ASSUME NEW m, StartsB(m) \/ PaysB(m) \/ RefundsB(m), PurseStillA
      PROVE  Backed'
  <2>1. aHeld' = aHeld
    BY <1>7 DEF PurseStillA
  <2>2. CASE StartsB(m)
    <3>1. /\ m.amount \in Nat /\ m.sender \in Users /\ bBalances[m.sender] \in Nat
          /\ bBalances[m.sender] >= m.amount
          /\ bBalances' = [bBalances EXCEPT ![m.sender] = @ - m.amount]
      BY <1>1, <1>3, <2>2 DEF StartsB, TakesB, PurseTypesB
    <3>2. bBalances[m.sender] - m.amount \in Nat
      BY <3>1
    <3>3. supply' = supply - bBalances[m.sender] + (bBalances[m.sender] - m.amount)
      BY <1>1, <3>1, <3>2, SupplyMoves
    <3>4. onTheWay' = onTheWay + m.amount
      BY <2>2, MoreUnsettled DEF StartsB
    <3> QED
      BY <1>2, <2>1, <3>1, <3>3, <3>4 DEF Backed
  <2>3. CASE PaysB(m) \/ RefundsB(m)
    <3>1. PICK user \in Users : bBalances' = [bBalances EXCEPT ![user] = @ + m.amount]
      BY <1>3, <2>3 DEF PaysB, RefundsB, GivesB
    <3>2. m.amount \in Nat /\ bBalances[user] \in Nat /\ bBalances[user] + m.amount \in Nat
      BY <1>1, <1>3, <2>3 DEF PaysB, RefundsB, PurseTypesB
    <3>3. supply' = supply - bBalances[user] + (bBalances[user] + m.amount)
      BY <1>1, <3>1, <3>2, SupplyMoves
    <3>4. onTheWay' = onTheWay - m.amount
      BY <2>3, FewerUnsettled DEF PaysB, RefundsB
    <3> QED
      BY <1>2, <2>1, <3>2, <3>3, <3>4 DEF Backed
  <2> QED
    BY <1>7, <2>2, <2>3
<1> QED
  BY <1>5, <1>6, <1>7, BridgeMoves DEF MovesA, MovesB, PurseStillA, PurseStillB

LEMMA InitBacked == Init => Backed
<1> SUFFICES ASSUME Init PROVE Backed
  OBVIOUS
<1>1. Unsettled = {} /\ aHeld = 0 /\ bBalances = NoTokens
  BY DEF Init, Unsettled, MessagesIn
<1>2. SumOfAmounts(Unsettled) = 0
  BY <1>1, AmountsEmpty
<1>3. SumOfBalances(NoTokens) = 0
  <2>1. [u \in Users |-> NoTokens[u]] = NoTokens /\ DOMAIN NoTokens = Users
    BY DEF NoTokens
  <2>2. \A u \in Users : NoTokens[u] = 0
    BY DEF NoTokens
  <2>3. SumFunction(NoTokens) \in {0}
    BY <2>1, <2>2, BridgeAssumption, SumType
  <2> QED
    BY <2>1, <2>3 DEF SumOfBalances
<1> QED
  BY <1>1, <1>2, <1>3 DEF Backed

(* The locking side always holds exactly the supply of the burning side and what is on
   its way, in either direction and in any queue: for any number of users, transfers
   and transceivers, and whatever the owners do in between (INV-001). *)
THEOREM AlwaysBacked == Spec => []Backed
<1>1. Init => BooksInv /\ Backed
  BY InitBooksInv, InitBacked
<1>2. BooksInv /\ Backed /\ [Next]_vars => (BooksInv /\ Backed)'
  BY NextBooksInv, BackedStep
<1> QED
  BY <1>1, <1>2, PTL DEF Spec

--------------------------------------------------------------------------------
\* The bridge implements the ledger of its users.

(* What the ledger sees of the wallets. *)
WalletsNow == [c \in {ChainA, ChainB} |-> IF c = ChainA THEN aBalances ELSE bBalances]

LEMMA Wallets ==
  /\ WalletsNow[ChainA] = aBalances /\ WalletsNow[ChainB] = bBalances
  /\ DOMAIN WalletsNow = {ChainA, ChainB}
BY BridgeAssumption DEF WalletsNow

LEMMA CreditA ==
  ASSUME bBalances' = bBalances, NEW user, NEW balance,
         aBalances' = [aBalances EXCEPT ![user] = balance]
  PROVE  WalletsNow' = [WalletsNow EXCEPT ![ChainA][user] = balance]
<1>1. ChainA # ChainB
  BY BridgeAssumption
<1>2. ASSUME NEW w
      PROVE  [WalletsNow EXCEPT ![ChainA] = w]
               = [c \in {ChainA, ChainB} |-> IF c = ChainA THEN w ELSE bBalances]
  BY <1>1 DEF WalletsNow
<1> QED
  BY <1>2, Wallets DEF WalletsNow

LEMMA CreditB ==
  ASSUME aBalances' = aBalances, NEW user, NEW balance,
         bBalances' = [bBalances EXCEPT ![user] = balance]
  PROVE  WalletsNow' = [WalletsNow EXCEPT ![ChainB][user] = balance]
<1>1. ChainA # ChainB
  BY BridgeAssumption
<1>2. ASSUME NEW w
      PROVE  [WalletsNow EXCEPT ![ChainB] = w]
               = [c \in {ChainA, ChainB} |-> IF c = ChainA THEN aBalances ELSE w]
  <2>1. \A c \in {ChainA, ChainB} : WalletsNow[c] = IF c = ChainA THEN aBalances ELSE bBalances
    BY DEF WalletsNow
  <2>2. \A c \in {ChainA, ChainB} : c = ChainB <=> c # ChainA
    BY <1>1
  <2>3. [WalletsNow EXCEPT ![ChainB] = w]
          = [c \in {ChainA, ChainB} |-> IF c = ChainB THEN w ELSE WalletsNow[c]]
    BY Wallets
  <2> QED
    BY <2>1, <2>2, <2>3
<1> QED
  BY <1>2, Wallets DEF WalletsNow

LEMMA LedgerStepA ==
  ASSUME PurseTypesA, NEW m, StartsA(m) \/ PaysA(m) \/ RefundsA(m), PurseStillB
  PROVE  Ledger!Next
<1>1. bBalances' = bBalances /\ WalletsNow[ChainA] = aBalances
  BY Wallets DEF PurseStillB
<1>2. CASE StartsA(m)
  <2>1. /\ m \in MessagesOfA /\ m \notin Unsettled /\ Unsettled' = Unsettled \cup {m}
        /\ aBalances[m.sender] >= m.amount
        /\ aBalances' = [aBalances EXCEPT ![m.sender] = @ - m.amount]
    BY <1>2 DEF StartsA, TakesA
  <2>2. m.source = ChainA /\ m.sender \in Users /\ m.amount \in Nat
    BY <2>1, MessageFieldsA
  <2>3. aBalances[m.sender] - m.amount = WalletsNow[ChainA][m.sender] + (-m.amount)
    BY <1>1, <2>2 DEF PurseTypesA
  <2>4. WalletsNow' = [WalletsNow EXCEPT ![m.source][m.sender] = @ + (-m.amount)]
    <3>1. WalletsNow' = [WalletsNow EXCEPT ![ChainA][m.sender] = aBalances[m.sender] - m.amount]
      BY <1>1, <2>1, CreditA
    <3> QED
      BY <2>2, <2>3, <3>1
  <2>5. WalletsNow[m.source][m.sender] >= m.amount
    BY <1>1, <2>1, <2>2
  <2>6. Ledger!Start(m)
    BY <2>1, <2>4, <2>5 DEF Ledger!Start, Ledger!Credit, WalletsNow
  <2> QED
    BY <2>1, <2>6 DEF Ledger!Next
<1>3. CASE PaysA(m)
  <2>1. /\ m \in MessagesOfB /\ m \in Unsettled /\ Unsettled' = Unsettled \ {m}
        /\ aBalances' = [aBalances EXCEPT ![m.recipient] = @ + m.amount]
    BY <1>3 DEF PaysA, GivesA
  <2>2. m.toChain = ChainA /\ m.recipient \in Users /\ m.amount \in Int
    BY <2>1, MessageFieldsB
  <2>3. WalletsNow' = [WalletsNow EXCEPT ![m.toChain][m.recipient] = @ + m.amount]
    BY <1>1, <2>1, <2>2, CreditA
  <2>4. Ledger!Pay(m)
    BY <2>1, <2>3 DEF Ledger!Pay, Ledger!Credit, WalletsNow
  <2> QED
    BY <2>1, <2>4 DEF Ledger!Next
<1>4. CASE RefundsA(m)
  <2>1. /\ m \in MessagesOfA /\ m \in Unsettled /\ Unsettled' = Unsettled \ {m}
        /\ aBalances' = [aBalances EXCEPT ![m.sender] = @ + m.amount]
    BY <1>4 DEF RefundsA, GivesA
  <2>2. m.source = ChainA /\ m.sender \in Users /\ m.amount \in Int
    BY <2>1, MessageFieldsA
  <2>3. WalletsNow' = [WalletsNow EXCEPT ![m.source][m.sender] = @ + m.amount]
    BY <1>1, <2>1, <2>2, CreditA
  <2>4. Ledger!Refund(m)
    BY <2>1, <2>3 DEF Ledger!Refund, Ledger!Credit, WalletsNow
  <2> QED
    BY <2>1, <2>4 DEF Ledger!Next
<1> QED
  BY <1>2, <1>3, <1>4

LEMMA LedgerStepB ==
  ASSUME PurseTypesB, NEW m, StartsB(m) \/ PaysB(m) \/ RefundsB(m), PurseStillA
  PROVE  Ledger!Next
<1>1. aBalances' = aBalances /\ WalletsNow[ChainB] = bBalances
  BY Wallets DEF PurseStillA
<1>2. CASE StartsB(m)
  <2>1. /\ m \in MessagesOfB /\ m \notin Unsettled /\ Unsettled' = Unsettled \cup {m}
        /\ bBalances[m.sender] >= m.amount
        /\ bBalances' = [bBalances EXCEPT ![m.sender] = @ - m.amount]
    BY <1>2 DEF StartsB, TakesB
  <2>2. m.source = ChainB /\ m.sender \in Users /\ m.amount \in Nat
    BY <2>1, MessageFieldsB
  <2>3. bBalances[m.sender] - m.amount = WalletsNow[ChainB][m.sender] + (-m.amount)
    BY <1>1, <2>2 DEF PurseTypesB
  <2>4. WalletsNow' = [WalletsNow EXCEPT ![m.source][m.sender] = @ + (-m.amount)]
    <3>1. WalletsNow' = [WalletsNow EXCEPT ![ChainB][m.sender] = bBalances[m.sender] - m.amount]
      BY <1>1, <2>1, CreditB
    <3> QED
      BY <2>2, <2>3, <3>1
  <2>5. WalletsNow[m.source][m.sender] >= m.amount
    BY <1>1, <2>1, <2>2
  <2>6. Ledger!Start(m)
    BY <2>1, <2>4, <2>5 DEF Ledger!Start, Ledger!Credit, WalletsNow
  <2> QED
    BY <2>1, <2>6 DEF Ledger!Next
<1>3. CASE PaysB(m)
  <2>1. /\ m \in MessagesOfA /\ m \in Unsettled /\ Unsettled' = Unsettled \ {m}
        /\ bBalances' = [bBalances EXCEPT ![m.recipient] = @ + m.amount]
    BY <1>3 DEF PaysB, GivesB
  <2>2. m.toChain = ChainB /\ m.recipient \in Users /\ m.amount \in Int
    BY <2>1, MessageFieldsA
  <2>3. WalletsNow' = [WalletsNow EXCEPT ![m.toChain][m.recipient] = @ + m.amount]
    BY <1>1, <2>1, <2>2, CreditB
  <2>4. Ledger!Pay(m)
    BY <2>1, <2>3 DEF Ledger!Pay, Ledger!Credit, WalletsNow
  <2> QED
    BY <2>1, <2>4 DEF Ledger!Next
<1>4. CASE RefundsB(m)
  <2>1. /\ m \in MessagesOfB /\ m \in Unsettled /\ Unsettled' = Unsettled \ {m}
        /\ bBalances' = [bBalances EXCEPT ![m.sender] = @ + m.amount]
    BY <1>4 DEF RefundsB, GivesB
  <2>2. m.source = ChainB /\ m.sender \in Users /\ m.amount \in Int
    BY <2>1, MessageFieldsB
  <2>3. WalletsNow' = [WalletsNow EXCEPT ![m.source][m.sender] = @ + m.amount]
    BY <1>1, <2>1, <2>2, CreditB
  <2>4. Ledger!Refund(m)
    BY <2>1, <2>3 DEF Ledger!Refund, Ledger!Credit, WalletsNow
  <2> QED
    BY <2>1, <2>4 DEF Ledger!Next
<1> QED
  BY <1>2, <1>3, <1>4

(* Every step of the bridge, an owner's included, starts, pays or refunds one transfer
   of the ledger, or leaves the ledger as it is: no transfer is ever paid twice, or paid
   and refunded, or paid without having been taken from its sender. *)
THEOREM BridgeIsALedger == Spec => ImplementsLedger
<1>1. Init => Ledger!Init
  BY DEF Init, Ledger!Init, Unsettled, MessagesIn
<1>2. BooksInv /\ [Next]_vars => [Ledger!Next]_(Ledger!ledgerVars)
  <2> SUFFICES ASSUME BooksInv, [Next]_vars PROVE [Ledger!Next]_(Ledger!ledgerVars)
    OBVIOUS
  <2>1. PurseTypesA /\ PurseTypesB
    BY DEF BooksInv, BooksA, BooksB
  <2>2. CASE PurseStillA /\ PurseStillB /\ UNCHANGED Unsettled
    BY <2>2 DEF PurseStillA, PurseStillB, Ledger!ledgerVars
  <2> QED
    BY <2>1, <2>2, BridgeMoves, LedgerStepA, LedgerStepB DEF MovesA, MovesB
<1>3. Init => BooksInv
  BY InitBooksInv
<1>4. BooksInv /\ [Next]_vars => BooksInv'
  BY NextBooksInv
<1> QED
  BY <1>1, <1>2, <1>3, <1>4, PTL DEF Spec, ImplementsLedger, Ledger!Spec

(* Every transfer on its way to the locking side, and every one that left it and may be
   cancelled, finds the tokens it asks for: the unlock never reverts for lack of them
   (NttManager.sol:357-378, 616-647). *)
THEOREM UnlocksAreCovered == Spec => [](\A m \in Unsettled : aHeld >= m.amount)
<1>1. ASSUME BooksInv, Backed, NEW m \in Unsettled
      PROVE  aHeld >= m.amount
  <2>1. m.amount \in Nat /\ IsFiniteSet(Unsettled \ {m}) /\ SumOfAmounts(Unsettled) \in Nat
    BY <1>1, UnsettledAmounts, FS_Difference
  <2>2. SumOfAmounts(Unsettled \ {m}) \in Nat
    BY <1>1, <2>1, UnsettledAmounts, AmountsType
  <2>3. SumOfAmounts(Unsettled \ {m}) = SumOfAmounts(Unsettled) - m.amount
    BY <1>1, FewerUnsettled
  <2>4. SumOfBalances(bBalances) \in Nat
    BY <1>1, Supply DEF BooksInv, BooksB
  <2> QED
    BY <1>1, <2>1, <2>2, <2>3, <2>4 DEF Backed
<1>2. BooksInv /\ Backed => \A m \in Unsettled : aHeld >= m.amount
  BY <1>1
<1>3. Init => BooksInv /\ Backed
  BY InitBooksInv, InitBacked
<1>4. BooksInv /\ Backed /\ [Next]_vars => (BooksInv /\ Backed)'
  BY NextBooksInv, BackedStep
<1> QED
  BY <1>2, <1>3, <1>4, PTL DEF Spec

================================================================================
