-------------------------- MODULE ManagerPartsProofs --------------------------
(***************************************************************************)
(* The parts a manager is built from, each on its own: the registry of its *)
(* transceivers, one direction of flow under its limit, and the conversion *)
(* of an amount on its way from one token to another.                      *)
(***************************************************************************)
EXTENDS TransceiverRegistry, RateLimitedFlow, TransferAmount, SumTheorems, TLAPS

--------------------------------------------------------------------------------
(***************************************************************************)
(* The registry's pieces agree for any number of addresses, slots and      *)
(* bits, and the registry implements TransceiverSet.                       *)
(***************************************************************************)

RegistryIInv == TypeOK /\ SlotsInv /\ EnabledListInv /\ BitmapInv /\ ThresholdInv

LEMMA InitRegistryIInv == Init => RegistryIInv
<1> SUFFICES ASSUME Init PROVE RegistryIInv
  OBVIOUS
<1>1. TypeOK
  BY DEF Init, TypeOK
<1>2. SlotsInv
  BY RegistryAssumption DEF Init, SlotsInv, Registered
<1>3. EnabledListInv
  BY DEF Init, EnabledListInv
<1>4. BitmapInv
  BY DEF Init, BitmapInv, Enabled
<1>5. ThresholdInv
  BY DEF Init, ThresholdInv
<1>. QED
  BY <1>1, <1>2, <1>3, <1>4, <1>5 DEF RegistryIInv

(* A transceiver the owner enables: what the two branches of EnableInfo have in
   common, from which every conjunct of the invariant follows. *)
LEMMA SetTransceiverRegistryIInv ==
  ASSUME NEW t \in Transceivers, RegistryIInv, SetTransceiver(t)
  PROVE  RegistryIInv'
<1> USE RegistryAssumption
<1> DEFINE n == numTransceivers.registered
<1>0. /\ TypeOK /\ SlotsInv /\ EnabledListInv /\ BitmapInv /\ ThresholdInv
      /\ EnableInfo(t)
  BY DEF RegistryIInv, SetTransceiver
<1>1. TypeOK'
  <2>1. enabledTransceivers' \in Seq(Transceivers) /\ threshold' \in Nat
    BY <1>0 DEF SetTransceiver, TypeOK
  <2>2. /\ transceiverInfos' \in [Transceivers -> [registered : BOOLEAN,
                                                   enabled : BOOLEAN,
                                                   index : Nat]]
        /\ numTransceivers' \in [registered : Nat, enabled : Nat]
        /\ registeredTransceivers' \in Seq(Transceivers)
    <3>1. CASE transceiverInfos[t].registered
      <4>1. transceiverInfos' = [transceiverInfos EXCEPT ![t] =
                                  [transceiverInfos[t] EXCEPT !.enabled = TRUE]]
        BY <1>0, <3>1 DEF EnableInfo, TypeOK
      <4>2. [transceiverInfos[t] EXCEPT !.enabled = TRUE]
              \in [registered : BOOLEAN, enabled : BOOLEAN, index : Nat]
        BY <1>0 DEF TypeOK
      <4>3. numTransceivers' \in [registered : Nat, enabled : Nat]
        BY <1>0, <3>1 DEF EnableInfo, TypeOK
      <4>4. registeredTransceivers' \in Seq(Transceivers)
        BY <1>0, <3>1 DEF EnableInfo, TypeOK
      <4>. QED
        BY <1>0, <4>1, <4>2, <4>3, <4>4 DEF TypeOK
    <3>2. CASE ~transceiverInfos[t].registered
      <4>1. [registered |-> TRUE, enabled |-> TRUE, index |-> n]
              \in [registered : BOOLEAN, enabled : BOOLEAN, index : Nat]
        BY <1>0 DEF TypeOK
      <4>2. transceiverInfos' = [transceiverInfos EXCEPT ![t] =
                 [registered |-> TRUE, enabled |-> TRUE, index |-> n]]
        BY <1>0, <3>2 DEF EnableInfo
      <4>3. numTransceivers' \in [registered : Nat, enabled : Nat]
        <5>1. numTransceivers' = [registered |-> numTransceivers.registered + 1,
                                  enabled |-> numTransceivers.enabled + 1]
          BY <1>0, <3>2 DEF EnableInfo
        <5>2. numTransceivers.registered \in Nat /\ numTransceivers.enabled \in Nat
          BY <1>0 DEF TypeOK
        <5>. QED
          BY <5>1, <5>2
      <4>4. registeredTransceivers' \in Seq(Transceivers)
        <5>1. registeredTransceivers' = Append(registeredTransceivers, t)
          BY <1>0, <3>2 DEF EnableInfo
        <5>. QED
          BY <1>0, <5>1 DEF TypeOK
      <4>. QED
        BY <1>0, <4>1, <4>2, <4>3, <4>4 DEF TypeOK
    <3>. QED
      BY <3>1, <3>2
  <2>3. enabledTransceiverBitmap' \subseteq Nat
    BY <1>0, <2>2 DEF SetTransceiver, TypeOK, Bit
  <2>. QED
    BY <2>1, <2>2, <2>3 DEF TypeOK
<1>2. SlotsInv'
  <2>1. CASE transceiverInfos[t].registered
    <3>1. /\ numTransceivers'.registered = n
          /\ registeredTransceivers' = registeredTransceivers
      BY <1>0, <2>1 DEF EnableInfo, TypeOK
    <3>2. \A u \in Transceivers :
            /\ transceiverInfos'[u].registered = transceiverInfos[u].registered
            /\ transceiverInfos'[u].index = transceiverInfos[u].index
            /\ u # t => transceiverInfos'[u].enabled = transceiverInfos[u].enabled
      BY <1>0, <2>1 DEF EnableInfo, TypeOK
    <3>3. Registered' = Registered
      BY <3>2 DEF Registered
    <3>4. \A i \in DOMAIN registeredTransceivers :
            registeredTransceivers[i] \in Transceivers
      BY <1>0 DEF TypeOK
    <3>5. t \in Registered
      BY <2>1 DEF Registered
    <3>6. \A u \in Transceivers \ Registered' :
            ~transceiverInfos'[u].enabled /\ transceiverInfos'[u].index = 0
      BY <1>0, <3>2, <3>3, <3>5 DEF SlotsInv
    <3>7. \A u \in Registered' :
            /\ transceiverInfos'[u].index < Len(registeredTransceivers')
            /\ registeredTransceivers'[transceiverInfos'[u].index + 1] = u
      BY <1>0, <3>1, <3>2, <3>3 DEF SlotsInv, Registered
    <3>8. \A i \in DOMAIN registeredTransceivers' :
            /\ transceiverInfos'[registeredTransceivers'[i]].registered
            /\ transceiverInfos'[registeredTransceivers'[i]].index = i - 1
      BY <1>0, <3>1, <3>2, <3>4 DEF SlotsInv
    <3>. QED
      BY <1>0, <3>1, <3>6, <3>7, <3>8 DEF SlotsInv
  <2>2. CASE ~transceiverInfos[t].registered
    <3>1. /\ registeredTransceivers' = Append(registeredTransceivers, t)
          /\ numTransceivers'.registered = n + 1
          /\ n < MaxTransceivers
          /\ n = Len(registeredTransceivers)
      BY <1>0, <2>2 DEF EnableInfo, TypeOK, SlotsInv
    <3>2. \A u \in Transceivers : u # t => transceiverInfos'[u] = transceiverInfos[u]
      BY <1>0, <2>2 DEF EnableInfo, TypeOK
    <3>3. transceiverInfos'[t] = [registered |-> TRUE, enabled |-> TRUE, index |-> n]
      BY <1>0, <2>2 DEF EnableInfo, TypeOK
    <3>4. \A i \in DOMAIN registeredTransceivers :
            registeredTransceivers[i] \in Transceivers /\ registeredTransceivers[i] # t
      BY <1>0, <2>2 DEF TypeOK, SlotsInv
    <3>5. /\ Len(registeredTransceivers') = n + 1
          /\ registeredTransceivers'[n + 1] = t
          /\ \A i \in 1..n : registeredTransceivers'[i] = registeredTransceivers[i]
      BY <1>0, <3>1 DEF TypeOK
    <3>6. Registered' = Registered \cup {t}
      BY <3>2, <3>3 DEF Registered
    <3>7. n \in Nat /\ DOMAIN registeredTransceivers = 1..n
          /\ DOMAIN registeredTransceivers' = 1..(n + 1)
      BY <1>0, <3>1, <3>5 DEF TypeOK
    <3>8. \A i \in DOMAIN registeredTransceivers' :
            /\ transceiverInfos'[registeredTransceivers'[i]].registered
            /\ transceiverInfos'[registeredTransceivers'[i]].index = i - 1
      <4>. SUFFICES ASSUME NEW i \in 1..(n + 1)
                    PROVE  /\ transceiverInfos'[registeredTransceivers'[i]].registered
                           /\ transceiverInfos'[registeredTransceivers'[i]].index = i - 1
        BY <3>7
      <4>1. CASE i = n + 1
        BY <3>3, <3>5, <3>7, <4>1
      <4>2. CASE i \in 1..n
        BY <1>0, <3>2, <3>4, <3>5, <3>7, <4>2 DEF SlotsInv
      <4>. QED
        BY <3>7, <4>1, <4>2
    <3>9. \A u \in Registered' :
            /\ transceiverInfos'[u].index < Len(registeredTransceivers')
            /\ registeredTransceivers'[transceiverInfos'[u].index + 1] = u
      <4>. SUFFICES ASSUME NEW u \in Registered'
                    PROVE  /\ transceiverInfos'[u].index < n + 1
                           /\ registeredTransceivers'[transceiverInfos'[u].index + 1] = u
        BY <3>5
      <4>1. CASE u = t
        BY <3>3, <3>5, <3>7, <4>1
      <4>2. CASE u # t
        <5>1. u \in Registered /\ transceiverInfos'[u] = transceiverInfos[u]
          BY <3>2, <3>6, <4>2 DEF Registered
        <5>2. /\ transceiverInfos[u].index \in Nat
              /\ transceiverInfos[u].index < n
              /\ registeredTransceivers[transceiverInfos[u].index + 1] = u
          BY <1>0, <3>1, <5>1 DEF SlotsInv, TypeOK, Registered
        <5>. QED
          BY <3>5, <3>7, <5>1, <5>2
      <4>. QED
        BY <4>1, <4>2
    <3>10. \A u \in Transceivers \ Registered' :
             ~transceiverInfos'[u].enabled /\ transceiverInfos'[u].index = 0
      BY <1>0, <3>2, <3>6 DEF SlotsInv
    <3>11. Len(registeredTransceivers') <= MaxTransceivers
      BY <3>1, <3>5, <3>7
    <3>12. numTransceivers'.registered = Len(registeredTransceivers')
      BY <3>1, <3>5
    <3>. QED
      BY <3>8, <3>9, <3>10, <3>11, <3>12 DEF SlotsInv
  <2>. QED
    BY <2>1, <2>2
<1>3. /\ \A u \in Transceivers : u # t => transceiverInfos'[u] = transceiverInfos[u]
      /\ transceiverInfos'[t].enabled
      /\ transceiverInfos'[t].registered
      /\ transceiverInfos[t].registered =>
            transceiverInfos'[t].index = transceiverInfos[t].index
      /\ ~transceiverInfos[t].registered => ~transceiverInfos[t].enabled
      /\ numTransceivers'.enabled = numTransceivers.enabled + 1
      /\ numTransceivers'.registered > 0
  BY <1>0, <1>1, <1>2 DEF EnableInfo, TypeOK, SlotsInv, Registered
\* An enabled transceiver's bit is set already, so the guard on the bitmap fails.
<1>4. ~transceiverInfos[t].enabled
  <2>. SUFFICES ASSUME transceiverInfos[t].enabled PROVE FALSE
    OBVIOUS
  <2>1. transceiverInfos'[t].index = transceiverInfos[t].index
    BY <1>3
  <2>2. transceiverInfos[t].index \in enabledTransceiverBitmap
    BY <1>0 DEF BitmapInv, Enabled
  <2>3. enabledTransceiverBitmap' = enabledTransceiverBitmap
    BY <2>1, <2>2 DEF SetTransceiver, Bit
  <2>. QED
    BY <2>3 DEF SetTransceiver
<1>5. EnabledListInv'
  <2>1. enabledTransceivers' = Append(enabledTransceivers, t)
    BY DEF SetTransceiver
  <2>2. \A i \in DOMAIN enabledTransceivers : enabledTransceivers[i] # t
    BY <1>0, <1>4 DEF EnabledListInv
  <2>3. \A i, j \in DOMAIN enabledTransceivers' :
          enabledTransceivers'[i] = enabledTransceivers'[j] => i = j
    BY <1>0, <2>1, <2>2 DEF EnabledListInv, TypeOK
  <2>4. numTransceivers'.enabled = Len(enabledTransceivers')
    BY <1>0, <1>3, <2>1 DEF EnabledListInv, TypeOK
  <2>5. ASSUME NEW u \in Transceivers
        PROVE  transceiverInfos'[u].enabled <=>
                 \E i \in DOMAIN enabledTransceivers' : enabledTransceivers'[i] = u
    <3>1. CASE u = t
      <4>1. enabledTransceivers'[Len(enabledTransceivers) + 1] = u
        BY <1>0, <2>1, <3>1 DEF TypeOK
      <4>2. Len(enabledTransceivers) + 1 \in DOMAIN enabledTransceivers'
        BY <1>0, <2>1 DEF TypeOK
      <4>. QED
        BY <1>3, <3>1, <4>1, <4>2
    <3>2. CASE u # t
      <4>1. transceiverInfos'[u].enabled <=> transceiverInfos[u].enabled
        BY <1>3, <3>2
      <4>2. (\E i \in DOMAIN enabledTransceivers' : enabledTransceivers'[i] = u)
              <=> (\E i \in DOMAIN enabledTransceivers : enabledTransceivers[i] = u)
        <5>1. /\ Len(enabledTransceivers) \in Nat
              /\ DOMAIN enabledTransceivers = 1..Len(enabledTransceivers)
              /\ DOMAIN enabledTransceivers' = 1..(Len(enabledTransceivers) + 1)
              /\ enabledTransceivers'[Len(enabledTransceivers) + 1] # u
              /\ \A i \in 1..Len(enabledTransceivers) :
                    enabledTransceivers'[i] = enabledTransceivers[i]
          BY <1>0, <2>1, <3>2 DEF TypeOK
        <5>. QED
          BY <5>1
      <4>. QED
        BY <1>0, <4>1, <4>2 DEF EnabledListInv
    <3>. QED
      BY <3>1, <3>2
  <2>. QED
    BY <2>3, <2>4, <2>5 DEF EnabledListInv
<1>6. BitmapInv'
  <2>1. Enabled' = Enabled \cup {t}
    BY <1>3 DEF Enabled
  <2>2. Bit(transceiverInfos'[t].index) = {transceiverInfos'[t].index}
    BY <1>1, <1>2, <1>3 DEF Bit, SlotsInv, Registered, TypeOK
  <2>3. enabledTransceiverBitmap' =
          enabledTransceiverBitmap \cup {transceiverInfos'[t].index}
    BY <2>2 DEF SetTransceiver
  <2>4. \A u \in Enabled : transceiverInfos'[u].index = transceiverInfos[u].index
    BY <1>3, <1>4 DEF Enabled
  <2>5. {transceiverInfos[u].index : u \in Enabled} =
          {transceiverInfos'[u].index : u \in Enabled}
    BY <2>4
  <2>. QED
    BY <1>0, <2>1, <2>3, <2>5 DEF BitmapInv
<1>7. ThresholdInv'
  BY <1>1 DEF SetTransceiver, ThresholdInv, ThresholdAllowed, TypeOK
<1>. QED
  BY <1>1, <1>2, <1>5, <1>6, <1>7 DEF RegistryIInv

(* A transceiver the owner disables: the bitmap loses one bit because slots are
   distinct, and the swap keeps the array free of duplicates. *)
LEMMA RemoveTransceiverRegistryIInv ==
  ASSUME NEW t \in Transceivers, RegistryIInv, RemoveTransceiver(t)
  PROVE  RegistryIInv'
<1> USE RegistryAssumption
<1> DEFINE len == Len(enabledTransceivers)
<1>0. TypeOK /\ SlotsInv /\ EnabledListInv /\ BitmapInv /\ ThresholdInv
  BY DEF RegistryIInv
<1>1. PICK k \in DOMAIN enabledTransceivers :
        /\ enabledTransceivers[k] = t
        /\ enabledTransceivers' = SwapPop(enabledTransceivers, k)
  BY DEF RemoveTransceiver
<1>2. /\ transceiverInfos[t].registered /\ transceiverInfos[t].enabled
      /\ transceiverInfos' = [transceiverInfos EXCEPT ![t] =
                                [transceiverInfos[t] EXCEPT !.enabled = FALSE]]
      /\ numTransceivers' = [numTransceivers EXCEPT !.enabled = @ - 1]
      /\ registeredTransceivers' = registeredTransceivers
      /\ threshold' = IF numTransceivers'.enabled < threshold
                       THEN numTransceivers'.enabled ELSE threshold
  BY <1>0 DEF RemoveTransceiver, TypeOK
<1>3. /\ len \in Nat /\ k \in 1..len
      /\ DOMAIN enabledTransceivers = 1..len
      /\ DOMAIN enabledTransceivers' = 1..(len - 1)
      /\ \A i \in 1..(len - 1) :
           enabledTransceivers'[i] = IF i = k THEN enabledTransceivers[len]
                                              ELSE enabledTransceivers[i]
      /\ enabledTransceivers' \in Seq(Transceivers)
      /\ Len(enabledTransceivers') = len - 1
  <2>1. len \in Nat /\ k \in 1..len /\ DOMAIN enabledTransceivers = 1..len
    BY <1>0 DEF TypeOK
  <2>2. enabledTransceivers' = [i \in 1..(len - 1) |->
            IF i = k THEN enabledTransceivers[len] ELSE enabledTransceivers[i]]
    BY <1>1 DEF SwapPop
  <2>3. \A i \in 1..len : enabledTransceivers[i] \in Transceivers
    BY <1>0, <2>1 DEF TypeOK
  <2>4. \A i \in 1..(len - 1) :
          (IF i = k THEN enabledTransceivers[len] ELSE enabledTransceivers[i])
             \in Transceivers
    BY <2>1, <2>3
  <2>5. enabledTransceivers' \in [1..(len - 1) -> Transceivers]
    BY <2>2, <2>4
  <2>6. len - 1 \in Nat
    BY <2>1
  <2>7. enabledTransceivers' \in Seq(Transceivers)
    BY <2>5, <2>6
  <2>8. Len(enabledTransceivers') = len - 1
    BY <2>5, <2>6, <2>7
  <2>. QED
    BY <2>1, <2>2, <2>7, <2>8
<1>4. /\ numTransceivers.enabled = len
      /\ numTransceivers'.enabled = len - 1
      /\ numTransceivers'.registered = numTransceivers.registered
      /\ numTransceivers' \in [registered : Nat, enabled : Nat]
  <2>1. numTransceivers.enabled = len
    BY <1>0 DEF EnabledListInv
  <2>2. len - 1 \in Nat
    BY <1>3
  <2>3. numTransceivers \in [registered : Nat, enabled : Nat]
    BY <1>0 DEF TypeOK
  <2>4. numTransceivers' = [numTransceivers EXCEPT !.enabled = len - 1]
    BY <1>2, <2>1
  <2>. QED
    BY <2>1, <2>2, <2>3, <2>4
<1>5. \A u \in Transceivers :
        /\ transceiverInfos'[u].registered = transceiverInfos[u].registered
        /\ transceiverInfos'[u].index = transceiverInfos[u].index
        /\ transceiverInfos'[u].enabled = (transceiverInfos[u].enabled /\ u # t)
  <2>. SUFFICES ASSUME NEW u \in Transceivers
                PROVE  /\ transceiverInfos'[u].registered = transceiverInfos[u].registered
                       /\ transceiverInfos'[u].index = transceiverInfos[u].index
                       /\ transceiverInfos'[u].enabled = (transceiverInfos[u].enabled /\ u # t)
    OBVIOUS
  <2>0. transceiverInfos[u] \in [registered : BOOLEAN, enabled : BOOLEAN, index : Nat]
    BY <1>0 DEF TypeOK
  <2>1. CASE u = t
    <3>1. transceiverInfos'[u] = [transceiverInfos[t] EXCEPT !.enabled = FALSE]
      BY <1>0, <1>2, <2>1 DEF TypeOK
    <3>. QED
      BY <2>0, <2>1, <3>1
  <2>2. CASE u # t
    <3>1. transceiverInfos'[u] = transceiverInfos[u]
      BY <1>0, <1>2, <2>2 DEF TypeOK
    <3>. QED
      BY <2>0, <2>2, <3>1
  <2>. QED
    BY <2>1, <2>2
<1>6. TypeOK'
  <2>1. [transceiverInfos[t] EXCEPT !.enabled = FALSE]
          \in [registered : BOOLEAN, enabled : BOOLEAN, index : Nat]
    BY <1>0 DEF TypeOK
  <2>2. transceiverInfos' \in [Transceivers -> [registered : BOOLEAN,
                                                enabled : BOOLEAN, index : Nat]]
    BY <1>0, <1>2, <2>1 DEF TypeOK
  <2>3. threshold' \in Nat
    BY <1>0, <1>2, <1>4 DEF TypeOK
  <2>4. enabledTransceiverBitmap' \subseteq Nat
    BY <1>0 DEF RemoveTransceiver, TypeOK
  <2>5. registeredTransceivers' \in Seq(Transceivers)
    BY <1>0, <1>2 DEF TypeOK
  <2>. QED
    BY <1>3, <1>4, <2>2, <2>3, <2>4, <2>5 DEF TypeOK
<1>7. SlotsInv'
  <2>1. Registered' = Registered
    BY <1>5 DEF Registered
  <2>2. \A i \in DOMAIN registeredTransceivers :
          registeredTransceivers[i] \in Transceivers
    BY <1>0 DEF TypeOK
  <2>. QED
    BY <1>0, <1>2, <1>4, <1>5, <2>1, <2>2 DEF SlotsInv, Registered
<1>8. EnabledListInv'
  <2>1. \A i, j \in 1..len :
          enabledTransceivers[i] = enabledTransceivers[j] => i = j
    BY <1>0, <1>3 DEF EnabledListInv
  <2>2. \A i, j \in 1..(len - 1) :
          enabledTransceivers'[i] = enabledTransceivers'[j] => i = j
    BY <1>3, <2>1
  <2>3. ASSUME NEW u \in Transceivers, u # t
        PROVE  (\E i \in 1..(len - 1) : enabledTransceivers'[i] = u)
                 <=> (\E i \in 1..len : enabledTransceivers[i] = u)
    <3>1. ASSUME NEW i \in 1..(len - 1), enabledTransceivers'[i] = u
          PROVE  \E j \in 1..len : enabledTransceivers[j] = u
      BY <1>3, <3>1
    <3>2. ASSUME NEW i \in 1..len, enabledTransceivers[i] = u
          PROVE  \E j \in 1..(len - 1) : enabledTransceivers'[j] = u
      <4>1. i # k
        BY <1>1, <2>3, <3>2
      <4>2. CASE i = len
        <5>1. k \in 1..(len - 1) /\ enabledTransceivers'[k] = u
          BY <1>3, <3>2, <4>1, <4>2
        <5>. QED
          BY <5>1
      <4>3. CASE i # len
        <5>0. len \in Nat
          BY <1>3
        <5>1. i \in 1..(len - 1)
          BY <4>3, <5>0
        <5>2. enabledTransceivers'[i] = u
          BY <1>3, <3>2, <4>1, <5>1
        <5>. QED
          BY <5>1, <5>2
      <4>. QED
        BY <4>2, <4>3
    <3>. QED
      BY <3>1, <3>2
  <2>4. ~ \E i \in 1..(len - 1) : enabledTransceivers'[i] = t
    BY <1>1, <1>3, <2>1
  <2>5. \A u \in Transceivers :
          transceiverInfos'[u].enabled <=>
            \E i \in 1..(len - 1) : enabledTransceivers'[i] = u
    <3>. SUFFICES ASSUME NEW u \in Transceivers
                  PROVE  transceiverInfos'[u].enabled <=>
                           \E i \in 1..(len - 1) : enabledTransceivers'[i] = u
      OBVIOUS
    <3>1. CASE u = t
      BY <1>5, <2>4, <3>1
    <3>2. CASE u # t
      <4>1. transceiverInfos'[u].enabled <=> transceiverInfos[u].enabled
        BY <1>5, <3>2
      <4>2. transceiverInfos[u].enabled <=>
              \E i \in 1..len : enabledTransceivers[i] = u
        BY <1>0, <1>3 DEF EnabledListInv
      <4>. QED
        BY <2>3, <3>2, <4>1, <4>2
    <3>. QED
      BY <3>1, <3>2
  <2>. QED
    BY <1>3, <1>4, <2>2, <2>5 DEF EnabledListInv
<1>9. BitmapInv'
  <2>1. Enabled' = Enabled \ {t} /\ t \in Enabled
    BY <1>2, <1>5 DEF Enabled
  <2>2. \A u \in Enabled : u \in Registered
    BY <1>0 DEF SlotsInv, Enabled, Registered
  <2>3. \A u, v \in Enabled :
          transceiverInfos[u].index = transceiverInfos[v].index => u = v
    BY <1>0, <2>2 DEF SlotsInv
  <2>4. Bit(transceiverInfos[t].index) = {transceiverInfos[t].index}
    BY <1>0, <2>1, <2>2 DEF Bit, SlotsInv, TypeOK
  <2>5. enabledTransceiverBitmap' = enabledTransceiverBitmap \ {transceiverInfos[t].index}
    BY <2>4 DEF RemoveTransceiver
  <2>6. \A u \in Enabled : u \in Transceivers
    BY DEF Enabled
  <2>7. {transceiverInfos'[u].index : u \in Enabled \ {t}} =
          {transceiverInfos[u].index : u \in Enabled \ {t}}
    BY <1>5, <2>6
  <2>8. {transceiverInfos[u].index : u \in Enabled} \ {transceiverInfos[t].index} =
          {transceiverInfos[u].index : u \in Enabled \ {t}}
    BY <2>1, <2>3
  <2>. QED
    BY <1>0, <2>1, <2>5, <2>7, <2>8 DEF BitmapInv
<1>10. ThresholdInv'
  <2>1. ThresholdAllowed(numTransceivers', threshold')
    BY DEF RemoveTransceiver
  <2>2. threshold' \in Nat
    BY <1>6 DEF TypeOK
  <2>. QED
    BY <2>1, <2>2 DEF ThresholdInv, ThresholdAllowed
<1>. QED
  BY <1>6, <1>7, <1>8, <1>9, <1>10 DEF RegistryIInv

LEMMA SetThresholdRegistryIInv ==
  ASSUME NEW n \in Nat, RegistryIInv, SetThreshold(n)
  PROVE  RegistryIInv'
<1>1. TypeOK'
  BY DEF RegistryIInv, SetThreshold, TypeOK
<1>2. SlotsInv' /\ EnabledListInv' /\ BitmapInv'
  BY DEF RegistryIInv, SetThreshold, SlotsInv, EnabledListInv, BitmapInv, Registered, Enabled
<1>3. ThresholdInv'
  BY <1>1 DEF SetThreshold, ThresholdInv, ThresholdAllowed, TypeOK
<1>. QED
  BY <1>1, <1>2, <1>3 DEF RegistryIInv

LEMMA NextRegistryIInv == RegistryIInv /\ [Next]_vars => RegistryIInv'
<1> SUFFICES ASSUME RegistryIInv, [Next]_vars PROVE RegistryIInv'
  OBVIOUS
<1>1. CASE \E t \in Transceivers : SetTransceiver(t)
  BY <1>1, SetTransceiverRegistryIInv
<1>2. CASE \E t \in Transceivers : RemoveTransceiver(t)
  BY <1>2, RemoveTransceiverRegistryIInv
<1>3. CASE \E n \in 0..(MaxTransceivers + 1) : SetThreshold(n)
  BY <1>3, SetThresholdRegistryIInv, RegistryAssumption
<1>4. CASE UNCHANGED vars
  BY <1>4 DEF RegistryIInv, vars, TypeOK, SlotsInv, EnabledListInv, BitmapInv, ThresholdInv,
              Registered, Enabled
<1>. QED
  BY <1>1, <1>2, <1>3, <1>4 DEF Next

(* The slots, the array, the bitmap, the counters and the threshold agree in every
   reachable state, for any number of addresses: none of the asserts of
   _checkTransceiversInvariants can fail. *)
THEOREM RegistryInvariant == Spec => []RegistryInv
<1>1. Spec => []RegistryIInv
  BY InitRegistryIInv, NextRegistryIInv, PTL DEF Spec
<1>2. RegistryIInv => RegistryInv
  BY DEF RegistryIInv, RegistryInv
<1>. QED
  BY <1>1, <1>2, PTL

(* Enabling a registered transceiver changes its enabled flag and nothing else. *)
LEMMA EnableExisting ==
  ASSUME NEW t \in Transceivers, TypeOK, EnableInfo(t), transceiverInfos[t].registered
  PROVE  /\ \A u \in Transceivers : u # t => transceiverInfos'[u] = transceiverInfos[u]
         /\ transceiverInfos'[t].enabled
         /\ transceiverInfos'[t].registered
         /\ transceiverInfos'[t].index = transceiverInfos[t].index
<1>1. transceiverInfos' = [transceiverInfos EXCEPT ![t] =
                            [transceiverInfos[t] EXCEPT !.enabled = TRUE]]
  BY DEF EnableInfo, TypeOK
<1>2. transceiverInfos[t] \in [registered : BOOLEAN, enabled : BOOLEAN, index : Nat]
  BY DEF TypeOK
<1>3. transceiverInfos'[t] = [transceiverInfos[t] EXCEPT !.enabled = TRUE]
  BY <1>1 DEF TypeOK
<1>4. \A u \in Transceivers : u # t => transceiverInfos'[u] = transceiverInfos[u]
  BY <1>1 DEF TypeOK
<1>. QED
  BY <1>2, <1>3, <1>4

(* A stored attestation bit keeps meaning the same transceiver: no step moves a
   transceiver to another slot or forgets it (INV-023, INV-026, INV-027). *)
THEOREM SlotsStable == Spec => SlotsNeverReassigned
<1> DEFINE A == /\ numTransceivers'.registered \in {numTransceivers.registered,
                                                    numTransceivers.registered + 1}
                /\ \A t \in Registered :
                     /\ transceiverInfos'[t].registered
                     /\ transceiverInfos'[t].index = transceiverInfos[t].index
<1>1. ASSUME RegistryIInv, [Next]_vars
      PROVE  [A]_vars
  <2>1. ASSUME NEW u \in Transceivers, SetTransceiver(u) PROVE A
    <3>0. EnableInfo(u)
      BY <2>1 DEF SetTransceiver
    <3>1. CASE transceiverInfos[u].registered
      <4>1. numTransceivers'.registered = numTransceivers.registered
        BY <1>1, <3>0, <3>1 DEF EnableInfo, RegistryIInv, TypeOK
      <4>2. \A t \in Transceivers :
              /\ transceiverInfos'[t].registered = transceiverInfos[t].registered
              /\ transceiverInfos'[t].index = transceiverInfos[t].index
        <5>1. TypeOK
          BY <1>1 DEF RegistryIInv
        <5>2. /\ \A v \in Transceivers : v # u => transceiverInfos'[v] = transceiverInfos[v]
              /\ transceiverInfos'[u].registered
              /\ transceiverInfos'[u].index = transceiverInfos[u].index
          BY <3>0, <3>1, <5>1, EnableExisting
        <5>3. transceiverInfos'[u].registered \in BOOLEAN
          <6>1. [transceiverInfos[u] EXCEPT !.enabled = TRUE].registered \in BOOLEAN
            BY <5>1 DEF TypeOK
          <6>2. transceiverInfos'[u] = [transceiverInfos[u] EXCEPT !.enabled = TRUE]
            BY <3>0, <3>1, <5>1 DEF EnableInfo, TypeOK
          <6>. QED
            BY <6>1, <6>2
        <5>4. transceiverInfos[u].registered \in BOOLEAN
          BY <5>1 DEF TypeOK
        <5>. QED
          BY <3>1, <5>2, <5>3, <5>4
      <4>. QED
        BY <4>1, <4>2, <3>1 DEF Registered
    <3>2. CASE ~transceiverInfos[u].registered
      <4>1. \A t \in Registered : t # u /\ t \in Transceivers
                                   /\ transceiverInfos[t].registered
        BY <3>2 DEF Registered
      <4>2. \A t \in Registered : transceiverInfos'[t] = transceiverInfos[t]
        BY <1>1, <3>0, <3>2, <4>1 DEF EnableInfo, RegistryIInv, TypeOK
      <4>3. numTransceivers'.registered = numTransceivers.registered + 1
        BY <3>0, <3>2 DEF EnableInfo
      <4>. QED
        BY <4>1, <4>2, <4>3
    <3>. QED
      BY <3>1, <3>2
  <2>2. ASSUME NEW u \in Transceivers, RemoveTransceiver(u) PROVE A
    BY <1>1, <2>2 DEF RemoveTransceiver, RegistryIInv, TypeOK, Registered
  <2>3. ASSUME NEW n \in Nat, SetThreshold(n) PROVE A
    BY <1>1, <2>3 DEF SetThreshold, RegistryIInv, TypeOK, Registered
  <2>4. 0..(MaxTransceivers + 1) \subseteq Nat
    BY RegistryAssumption
  <2>. QED
    BY <1>1, <2>1, <2>2, <2>3, <2>4 DEF Next
<1>2. Spec => []RegistryIInv
  BY InitRegistryIInv, NextRegistryIInv, PTL DEF Spec
<1>. QED
  BY <1>1, <1>2, PTL DEF Spec, SlotsNeverReassigned

--------------------------------------------------------------------------------

(* An array without duplicates has as many elements as it has positions. *)
LEMMA ArrayCardinality ==
  ASSUME NEW S, NEW s \in Seq(S), NEW T,
         \A t \in T : \E i \in DOMAIN s : s[i] = t,
         \A i \in DOMAIN s : s[i] \in T,
         \A i, j \in DOMAIN s : s[i] = s[j] => i = j
  PROVE  IsFiniteSet(T) /\ Cardinality(T) = Len(s)
<1>1. Len(s) \in Nat /\ DOMAIN s = 1..Len(s) /\ s \in [1..Len(s) -> S]
  OBVIOUS
<1>2. s \in [1..Len(s) -> T]
  BY <1>1
<1>3. s \in Bijection(1..Len(s), T)
  BY <1>1, <1>2 DEF Bijection, Injection, Surjection, IsInjective
<1>4. ExistsBijection(1..Len(s), T)
  BY <1>3 DEF ExistsBijection
<1>. QED
  BY <1>1, <1>4, FS_NatBijection, FS_CountingElements

(* The counters count the sets. *)
CountersInv ==
  /\ IsFiniteSet(Registered)
  /\ Cardinality(Registered) = numTransceivers.registered
  /\ IsFiniteSet(Enabled)
  /\ Cardinality(Enabled) = numTransceivers.enabled
  /\ Enabled \subseteq Registered
  /\ numTransceivers.enabled <= MaxTransceivers

LEMMA Counters == RegistryIInv => CountersInv
<1> USE RegistryAssumption
<1> SUFFICES ASSUME RegistryIInv PROVE CountersInv
  OBVIOUS
<1>0. TypeOK /\ SlotsInv /\ EnabledListInv
  BY DEF RegistryIInv
<1>1. /\ IsFiniteSet(Registered)
      /\ Cardinality(Registered) = numTransceivers.registered
  <2>1. \A t \in Registered : \E i \in DOMAIN registeredTransceivers :
          registeredTransceivers[i] = t
    <3>. SUFFICES ASSUME NEW t \in Registered
                  PROVE  \E i \in DOMAIN registeredTransceivers :
                           registeredTransceivers[i] = t
      OBVIOUS
    <3>1. t \in Transceivers /\ transceiverInfos[t].index \in Nat
      BY <1>0 DEF Registered, TypeOK
    <3>2. /\ transceiverInfos[t].index + 1 \in 1..Len(registeredTransceivers)
          /\ registeredTransceivers[transceiverInfos[t].index + 1] = t
      BY <1>0, <3>1 DEF SlotsInv, TypeOK
    <3>. QED
      BY <1>0, <3>2 DEF TypeOK
  <2>2. \A i \in DOMAIN registeredTransceivers : registeredTransceivers[i] \in Registered
    BY <1>0 DEF TypeOK, SlotsInv, Registered
  <2>3. \A i, j \in DOMAIN registeredTransceivers :
          registeredTransceivers[i] = registeredTransceivers[j] => i = j
    <3>. SUFFICES ASSUME NEW i \in DOMAIN registeredTransceivers,
                         NEW j \in DOMAIN registeredTransceivers,
                         registeredTransceivers[i] = registeredTransceivers[j]
                  PROVE  i = j
      OBVIOUS
    <3>1. i \in Int /\ j \in Int /\ i - 1 = j - 1
      BY <1>0 DEF SlotsInv, TypeOK
    <3>. QED
      BY <3>1
  <2>4. registeredTransceivers \in Seq(Transceivers)
    BY <1>0 DEF TypeOK
  <2>. QED
    BY <1>0, <2>1, <2>2, <2>3, <2>4, ArrayCardinality DEF SlotsInv
<1>2. /\ IsFiniteSet(Enabled)
      /\ Cardinality(Enabled) = numTransceivers.enabled
  <2>1. \A t \in Enabled : \E i \in DOMAIN enabledTransceivers :
          enabledTransceivers[i] = t
    BY <1>0 DEF EnabledListInv, Enabled
  <2>2. \A i \in DOMAIN enabledTransceivers : enabledTransceivers[i] \in Enabled
    BY <1>0 DEF EnabledListInv, Enabled, TypeOK
  <2>3. enabledTransceivers \in Seq(Transceivers)
    BY <1>0 DEF TypeOK
  <2>. QED
    BY <1>0, <2>1, <2>2, <2>3, ArrayCardinality DEF EnabledListInv
<1>3. Enabled \subseteq Registered
  BY <1>0 DEF SlotsInv, Enabled, Registered
<1>4. numTransceivers.enabled <= MaxTransceivers
  <2>1. Cardinality(Enabled) <= Cardinality(Registered)
    BY <1>1, <1>3, FS_Subset
  <2>. QED
    BY <1>0, <1>1, <1>2, <2>1 DEF SlotsInv, TypeOK
<1>. QED
  BY <1>1, <1>2, <1>3, <1>4 DEF CountersInv

LEMMA CountersNext == RegistryIInv' => CountersInv'
  BY Counters, PTL

\* The instance's Cardinality is the same operator under another name.
LEMMA SameCardinality == \A S : Abstract!Cardinality(S) = Cardinality(S)
  BY DEF Cardinality, Abstract!Cardinality

(* Every step of the contract's registry is a step of the set view. *)
LEMMA StepRefines ==
  ASSUME RegistryIInv, RegistryIInv', [Next]_vars
  PROVE  [Abstract!Next]_(Abstract!regVars)
<1> USE RegistryAssumption
<1>0. TypeOK /\ SlotsInv /\ EnabledListInv /\ ThresholdInv /\ CountersInv /\ CountersInv'
  BY Counters, CountersNext DEF RegistryIInv
<1>1. ASSUME NEW t \in Transceivers, SetTransceiver(t)
      PROVE  Abstract!SetTransceiver(t)
  <2>0. EnableInfo(t)
    BY <1>1 DEF SetTransceiver
  <2>1. numTransceivers'.enabled = numTransceivers.enabled + 1
    BY <1>0, <2>0 DEF EnableInfo, TypeOK
  <2>2. /\ \A u \in Transceivers : u # t => transceiverInfos'[u] = transceiverInfos[u]
        /\ transceiverInfos'[t].enabled
        /\ transceiverInfos'[t].registered
    <3>1. CASE transceiverInfos[t].registered
      BY <1>0, <2>0, <3>1, EnableExisting
    <3>2. CASE ~transceiverInfos[t].registered
      BY <1>0, <2>0, <3>2 DEF EnableInfo, TypeOK
    <3>. QED
      BY <3>1, <3>2
  <2>3. Enabled' = Enabled \cup {t} /\ Registered' = Registered \cup {t}
    BY <2>2 DEF Enabled, Registered
  <2>4. t \notin Enabled
    <3>1. SUFFICES ASSUME t \in Enabled PROVE FALSE
      OBVIOUS
    <3>2. Enabled' = Enabled
      BY <2>3, <3>1
    <3>3. numTransceivers'.enabled = numTransceivers.enabled
      BY <1>0, <3>2 DEF CountersInv
    <3>. QED
      BY <1>0, <2>1, <3>3 DEF TypeOK
  <2>5. t \in Registered \/ Cardinality(Registered) < MaxTransceivers
    BY <1>0, <2>0 DEF CountersInv, EnableInfo, Registered
  <2>6. threshold' = IF threshold = 0 THEN 1 ELSE threshold
    BY <1>1 DEF SetTransceiver
  <2>. QED
    BY <2>3, <2>4, <2>5, <2>6, SameCardinality DEF Abstract!SetTransceiver
<1>2. ASSUME NEW t \in Transceivers, RemoveTransceiver(t)
      PROVE  Abstract!RemoveTransceiver(t)
  <2>1. /\ \A u \in Transceivers :
             /\ transceiverInfos'[u].registered = transceiverInfos[u].registered
             /\ u # t => transceiverInfos'[u].enabled = transceiverInfos[u].enabled
        /\ ~transceiverInfos'[t].enabled
        /\ transceiverInfos[t].enabled
        /\ transceiverInfos[t].registered
    BY <1>0, <1>2 DEF RemoveTransceiver, TypeOK
  <2>2. Enabled' = Enabled \ {t} /\ t \in Enabled /\ Registered' = Registered
    BY <2>1 DEF Enabled, Registered
  <2>3. Cardinality(Enabled \ {t}) = numTransceivers'.enabled
    BY <1>0, <2>2 DEF CountersInv
  <2>4. numTransceivers'.enabled # 0
    <3>1. ThresholdAllowed(numTransceivers', threshold')
      BY <1>2 DEF RemoveTransceiver
    <3>2. TypeOK' /\ SlotsInv'
      BY DEF RegistryIInv
    <3>3. numTransceivers'.registered # 0
      <4>1. t \in Registered'
        BY <2>1 DEF Registered
      <4>. QED
        BY <1>0, <4>1, FS_EmptySet DEF CountersInv
    <3>. QED
      BY <3>1, <3>2, <3>3 DEF ThresholdAllowed, TypeOK
  <2>5. Enabled # {t}
    BY <2>3, <2>4, FS_EmptySet
  <2>6. threshold' = IF numTransceivers'.enabled < threshold
                     THEN numTransceivers'.enabled ELSE threshold
    BY <1>2 DEF RemoveTransceiver
  <2>. QED
    BY <2>2, <2>3, <2>5, <2>6, SameCardinality DEF Abstract!RemoveTransceiver
<1>3. ASSUME NEW n \in Nat, SetThreshold(n)
      PROVE  Abstract!SetThreshold(n) /\ n \in 1..MaxTransceivers
  <2>1. n <= numTransceivers.enabled /\ n # 0 /\ threshold' = n
    BY <1>3 DEF SetThreshold, ThresholdAllowed
  <2>2. Registered' = Registered /\ Enabled' = Enabled
    BY <1>3 DEF SetThreshold, Registered, Enabled
  <2>3. n \in 1..numTransceivers.enabled /\ n \in 1..MaxTransceivers
    BY <1>0, <2>1 DEF TypeOK, CountersInv
  <2>. QED
    BY <1>0, <2>1, <2>2, <2>3, SameCardinality DEF CountersInv, Abstract!SetThreshold
<1>4. CASE \E t \in Transceivers : SetTransceiver(t)
  BY <1>1, <1>4 DEF Abstract!Next
<1>5. CASE \E t \in Transceivers : RemoveTransceiver(t)
  BY <1>2, <1>5 DEF Abstract!Next
<1>6. CASE \E n \in 0..(MaxTransceivers + 1) : SetThreshold(n)
  <2>1. PICK n \in 0..(MaxTransceivers + 1) : SetThreshold(n)
    BY <1>6
  <2>2. n \in Nat
    OBVIOUS
  <2>. QED
    BY <1>3, <2>1, <2>2 DEF Abstract!Next
<1>7. CASE UNCHANGED vars
  BY <1>7 DEF vars, Abstract!regVars, Registered, Enabled
<1>. QED
  BY <1>4, <1>5, <1>6, <1>7 DEF Next

(* The arrays, slots, bitmap and counters of the contract implement the set view
   that the manager's model is built on. *)
THEOREM RegistryRefinement == Spec => ImplementsTransceiverSet
<1>1. Init => Abstract!Init
  BY DEF Init, Abstract!Init, Registered, Enabled
<1>2. Spec => []RegistryIInv
  BY InitRegistryIInv, NextRegistryIInv, PTL DEF Spec
<1>. QED
  BY <1>1, <1>2, StepRefines, PTL DEF Spec, Abstract!Spec, ImplementsTransceiverSet

--------------------------------------------------------------------------------
(***************************************************************************)
(* The window bound of a rate-limited flow, for every limit, amount and    *)
(* duration.  The bound on netFlow alone is not inductive: what a step may *)
(* consume depends on the capacity left, and what time refills is rounded  *)
(* from the last transaction on, not from the start of the window.         *)
(***************************************************************************)

Elapsed(from, to) == (params.limit * (to - from)) \div RateLimitDuration

FlowIInv ==
    /\ FlowTypeOK
    /\ params.isSet
    /\ params.limit <= MaxAmount
    /\ params.currentCapacity <= params.limit
    /\ params.lastTxTimestamp <= now
    /\ windowStart <= now
    /\ RateLimitDuration # 0 =>
         /\ params.lastTxTimestamp >= windowStart =>
              params.currentCapacity + netFlow <=
                params.limit + Refilled(params.lastTxTimestamp - windowStart)
         /\ params.lastTxTimestamp < windowStart => netFlow = 0

--------------------------------------------------------------------------------
\* Arithmetic of the floored refill.

LEMMA DivFacts ==
  ASSUME NEW x \in Nat, NEW d \in Nat \ {0}
  PROVE  /\ x \div d \in Nat
         /\ d * (x \div d) <= x
         /\ x < d * (x \div d) + d
  OBVIOUS

(* Two roundings never give more than one rounding of the sum. *)
LEMMA DivSuperadditive ==
  ASSUME NEW x \in Nat, NEW y \in Nat, NEW d \in Nat \ {0}
  PROVE  x \div d + y \div d <= (x + y) \div d
<1> DEFINE a == x \div d
           b == y \div d
           c == (x + y) \div d
<1>1. a \in Nat /\ b \in Nat /\ c \in Nat
  BY DivFacts
<1>2. d * a <= x /\ d * b <= y /\ x + y < d * c + d
  BY DivFacts
<1> HIDE DEF a, b, c
<1>3. d * a \in Nat /\ d * b \in Nat /\ d * c \in Nat
  BY <1>1
<1>4. d * a + d * b < d * c + d
  BY <1>2, <1>3
<1>5. d * (a + b) < d * (c + 1)
  <2>1. d * (a + b) = d * a + d * b /\ d * (c + 1) = d * c + d
    BY <1>1
  <2>. QED
    BY <1>4, <2>1
<1>6. a + b < c + 1
  <2>. SUFFICES ASSUME a + b >= c + 1 PROVE FALSE
    BY <1>1
  <2>1. PICK k \in Nat : a + b = c + 1 + k
    <3>1. a + b - (c + 1) \in Nat
      BY <1>1
    <3>. QED
      BY <1>1, <3>1
  <2>2. d * (a + b) = d * (c + 1) + d * k
    BY <1>1, <2>1
  <2>3. d * k \in Nat /\ d * (c + 1) \in Nat
    BY <1>1
  <2>. QED
    BY <1>5, <2>2, <2>3
<1>. QED
  BY <1>1, <1>6 DEF a, b, c

(* Refills over adjoining spans add up to at most the refill of the whole span. *)
LEMMA RefillAdds ==
  ASSUME NEW l \in Nat, NEW s \in Nat, NEW t \in Nat, RateLimitDuration # 0
  PROVE  /\ (l * s) \div RateLimitDuration \in Nat
         /\ (l * s) \div RateLimitDuration + (l * t) \div RateLimitDuration
              <= (l * (s + t)) \div RateLimitDuration
<1>1. RateLimitDuration \in Nat \ {0}
  BY RateLimiterAssumption
<1>2. l * s \in Nat /\ l * t \in Nat /\ l * (s + t) = l * s + l * t
  OBVIOUS
<1>. QED
  BY <1>1, <1>2, DivFacts, DivSuperadditive

--------------------------------------------------------------------------------

(* What both transfers start from: the capacity now, and how it relates to the flow
   of the window. *)
LEMMA CapacityNow ==
  ASSUME FlowIInv, RateLimitDuration # 0
  PROVE  /\ CurrentCapacity(params, now) \in Nat
         /\ CurrentCapacity(params, now) <= params.limit
         /\ Refilled(now - windowStart) \in Nat
         /\ CurrentCapacity(params, now) + netFlow
              <= params.limit + Refilled(now - windowStart)
<1> DEFINE last == params.lastTxTimestamp
           fill == (params.limit * (now - last)) \div RateLimitDuration
           cap  == CurrentCapacity(params, now)
<1>1. /\ params.limit \in Nat /\ params.currentCapacity \in Nat /\ last \in Nat
      /\ now \in Nat /\ windowStart \in Nat /\ netFlow \in Int
      /\ last <= now /\ windowStart <= now
  BY DEF FlowIInv, FlowTypeOK, RateLimitParams
<1>2. now - last \in Nat /\ now - windowStart \in Nat
  BY <1>1
<1>3. fill \in Nat /\ Refilled(now - windowStart) \in Nat
  BY <1>1, <1>2, RefillAdds DEF Refilled
<1>4. cap = Min2(params.currentCapacity + fill, params.limit)
  BY DEF CurrentCapacity
<1>5. cap \in Nat /\ cap <= params.limit /\ cap <= params.currentCapacity + fill
  <2> HIDE DEF fill, cap
  <2>. QED
    BY <1>1, <1>3, <1>4 DEF Min2
<1>6. cap + netFlow <= params.limit + Refilled(now - windowStart)
  <2>1. CASE last >= windowStart
    <3>1. last - windowStart \in Nat
      BY <1>1, <2>1
    <3>2. Refilled(last - windowStart) \in Nat
      BY <1>1, <3>1, RefillAdds DEF Refilled
    <3>3. (last - windowStart) + (now - last) = now - windowStart
      BY <1>1
    <3>4. Refilled(last - windowStart) + fill <= Refilled(now - windowStart)
      BY <1>1, <1>2, <3>1, <3>3, RefillAdds DEF Refilled
    <3>5. params.currentCapacity + netFlow <= params.limit + Refilled(last - windowStart)
      BY <2>1 DEF FlowIInv
    <3> HIDE DEF fill, cap, Refilled
    <3>. QED
      BY <1>1, <1>3, <1>5, <3>2, <3>4, <3>5
  <2>2. CASE last < windowStart
    <3>1. netFlow = 0
      BY <2>2 DEF FlowIInv
    <3> HIDE DEF fill, cap
    <3>. QED
      BY <1>1, <1>3, <1>5, <3>1
  <2>. QED
    BY <1>1, <2>1, <2>2
<1>. QED
  BY <1>3, <1>5, <1>6

(* No limit the owner can set is refused. *)
LEMMA SetLimitNeverFails ==
  ASSUME FlowIInv, RateLimitDuration # 0, NEW limit \in 0..MaxAmount
  PROVE  /\ SetLimitAllowed(params, limit, now)
         /\ CapacityAfterSet(params, limit, now) \in 0..limit
<1> DEFINE cap == CurrentCapacity(params, now)
<1>1. cap \in Nat /\ cap <= params.limit
  BY CapacityNow
<1>2. params.limit \in Nat /\ params.isSet /\ MaxAmount \in Nat
  BY RateLimiterAssumption DEF FlowIInv, FlowTypeOK, RateLimitParams
<1>3. CapacityAfterSet(params, limit, now) = NewCapacity(limit, params.limit, cap)
  BY <1>2 DEF CapacityAfterSet
<1> HIDE DEF cap
<1>4. NewCapacity(limit, params.limit, cap) \in 0..limit
  BY <1>1, <1>2 DEF NewCapacity
<1>. QED
  BY <1>2, <1>3, <1>4 DEF SetLimitAllowed

LEMMA InitFlowIInv == FlowInit => FlowIInv
<1> SUFFICES ASSUME FlowInit PROVE FlowIInv
  OBVIOUS
<1>1. PICK limit \in Limits : params = SetLimit(NullParams, limit, now)
  BY DEF FlowInit
<1>2. limit \in Nat /\ limit <= MaxAmount
  BY FlowAssumption, RateLimiterAssumption
<1>3. params = [isSet |-> TRUE, limit |-> limit, currentCapacity |-> limit,
                lastTxTimestamp |-> 0]
  BY <1>1 DEF FlowInit, SetLimit, CapacityAfterSet, NullParams
<1>4. now = 0 /\ windowStart = 0 /\ netFlow = 0
  BY DEF FlowInit
<1>5. RateLimitDuration # 0 => Refilled(0) \in Nat
  BY <1>2, <1>3, RefillAdds DEF Refilled
<1>6. FlowTypeOK
  BY <1>2, <1>3, <1>4 DEF FlowTypeOK, RateLimitParams
<1>7. RateLimitDuration # 0 =>
        params.currentCapacity + netFlow
          <= params.limit + Refilled(params.lastTxTimestamp - windowStart)
  <2>1. params.lastTxTimestamp - windowStart = 0
    BY <1>3, <1>4
  <2> HIDE DEF Refilled
  <2>. QED
    BY <1>2, <1>3, <1>4, <1>5, <2>1
<1>. QED
  BY <1>2, <1>3, <1>4, <1>6, <1>7 DEF FlowIInv

(* The same invariant with the arithmetic out of the way: what remains to be shown
   of a step that stamps the capacity with the present time. *)
LEMMA StampedFlowIInv ==
  ASSUME RateLimitDuration # 0, FlowIInv,
         NEW cap \in Nat, cap <= params.limit,
         params' = [params EXCEPT !.currentCapacity = cap, !.lastTxTimestamp = now],
         now' = now, windowStart' = windowStart, netFlow' \in Int,
         cap + netFlow' <= params.limit + Refilled(now - windowStart)
  PROVE  FlowIInv'
<1>1. /\ params'.limit = params.limit /\ params'.isSet
      /\ params'.currentCapacity = cap /\ params'.lastTxTimestamp = now
      /\ params' \in RateLimitParams
  BY DEF FlowIInv, FlowTypeOK, RateLimitParams
<1>2. FlowTypeOK'
  BY <1>1 DEF FlowIInv, FlowTypeOK
<1>3. Refilled(now - windowStart)' = Refilled(now - windowStart)
  BY <1>1 DEF Refilled
<1>4. now \in Nat /\ windowStart <= now /\ windowStart \in Nat /\ params.limit <= MaxAmount
  BY DEF FlowIInv, FlowTypeOK
<1>5. Refilled(params.lastTxTimestamp - windowStart)' = Refilled(now - windowStart)
  BY <1>1 DEF Refilled
<1> HIDE DEF Refilled
<1>. QED
  BY <1>1, <1>2, <1>4, <1>5 DEF FlowIInv

LEMMA PassFlowIInv ==
  ASSUME FlowIInv, RateLimitDuration # 0, NEW moved \in Amounts, Pass(moved)
  PROVE  FlowIInv'
<1> DEFINE cap == CurrentCapacity(params, now)
<1>1. /\ cap \in Nat /\ cap <= params.limit
      /\ cap + netFlow <= params.limit + Refilled(now - windowStart)
      /\ Refilled(now - windowStart) \in Nat
  BY CapacityNow
<1>2. moved \in Nat /\ netFlow \in Int /\ params.limit \in Nat
  BY FlowAssumption DEF FlowIInv, FlowTypeOK, RateLimitParams
<1>3. ~(cap < moved)
  BY DEF Pass, IsRateLimited
<1>4. params' = [params EXCEPT !.currentCapacity = cap - moved, !.lastTxTimestamp = now]
  BY DEF Pass, Consume
<1>5. now' = now /\ windowStart' = windowStart /\ netFlow' = netFlow + moved
  BY DEF Pass
<1> HIDE DEF cap
<1>6. cap - moved \in Nat /\ cap - moved <= params.limit
  BY <1>1, <1>2, <1>3
<1>7. (cap - moved) + netFlow' <= params.limit + Refilled(now - windowStart)
  <2> HIDE DEF Refilled
  <2>. QED
    BY <1>1, <1>2, <1>5
<1>8. netFlow' \in Int
  BY <1>2, <1>5
<1>. QED
  BY <1>4, <1>5, <1>6, <1>7, <1>8, StampedFlowIInv

LEMMA ReturnFlowIInv ==
  ASSUME FlowIInv, RateLimitDuration # 0, NEW moved \in Amounts, Return(moved)
  PROVE  FlowIInv'
<1> DEFINE cap == CurrentCapacity(params, now)
           back == Min2(Min2(cap + moved, MaxAmount), params.limit)
<1>1. /\ cap \in Nat /\ cap <= params.limit
      /\ cap + netFlow <= params.limit + Refilled(now - windowStart)
      /\ Refilled(now - windowStart) \in Nat
  BY CapacityNow
<1>2. /\ moved \in Nat /\ netFlow \in Int /\ params.limit \in Nat /\ now \in Nat
      /\ MaxAmount \in Nat /\ params \in RateLimitParams /\ RateLimitDuration \in Nat
  BY FlowAssumption, RateLimiterAssumption DEF FlowIInv, FlowTypeOK, RateLimitParams
<1>3. params' = [params EXCEPT !.currentCapacity = back, !.lastTxTimestamp = now]
  BY DEF Return, Backfill
<1>4. back \in Nat /\ back <= params.limit
  <2> HIDE DEF cap
  <2>. QED
    BY <1>1, <1>2 DEF Min2
<1> HIDE DEF back
<1>5. CurrentCapacity(params', now) = back
  <2>1. /\ params'.currentCapacity = back /\ params'.limit = params.limit
        /\ params'.lastTxTimestamp = now
    BY <1>2, <1>3 DEF RateLimitParams
  <2>2. (params.limit * (now - now)) \div RateLimitDuration = 0
    BY <1>2
  <2>3. CurrentCapacity(params', now)
          = Min2(back + (params.limit * (now - now)) \div RateLimitDuration, params.limit)
    BY <2>1 DEF CurrentCapacity
  <2>4. CurrentCapacity(params', now) = Min2(back + 0, params.limit)
    BY <2>2, <2>3, Zenon
  <2>5. Min2(back + 0, params.limit) = back
    BY <1>2, <1>4 DEF Min2
  <2>. QED
    BY <2>4, <2>5
<1>6. now' = now /\ windowStart' = windowStart /\ netFlow' = netFlow - (back - cap)
  BY <1>5 DEF Return
<1> HIDE DEF cap
<1>7. back + netFlow' <= params.limit + Refilled(now - windowStart)
  <2>1. back + netFlow' = cap + netFlow
    BY <1>1, <1>2, <1>4, <1>6
  <2>. QED
    BY <1>1, <2>1
<1>8. netFlow' \in Int
  BY <1>1, <1>2, <1>4, <1>6
<1>. QED
  BY <1>3, <1>4, <1>6, <1>7, <1>8, StampedFlowIInv

LEMMA ChangeLimitFlowIInv ==
  ASSUME FlowIInv, RateLimitDuration # 0, NEW limit \in Limits, ChangeLimit(limit)
  PROVE  FlowIInv'
<1>1. limit \in 0..MaxAmount
  BY FlowAssumption
<1>2. CapacityAfterSet(params, limit, now) \in 0..limit
  BY <1>1, SetLimitNeverFails
<1>3. /\ params'.limit = limit /\ params'.isSet /\ params'.lastTxTimestamp = now
      /\ params'.currentCapacity = CapacityAfterSet(params, limit, now)
      /\ now' = now /\ windowStart' = now /\ netFlow' = 0
      /\ params' = [isSet |-> TRUE, limit |-> limit, lastTxTimestamp |-> now,
                    currentCapacity |-> CapacityAfterSet(params, limit, now)]
  BY DEF ChangeLimit, SetLimit
<1>4. limit \in Nat /\ limit <= MaxAmount /\ now \in Nat
  BY <1>1, RateLimiterAssumption DEF FlowIInv, FlowTypeOK
<1>5. FlowTypeOK'
  BY <1>2, <1>3, <1>4 DEF FlowTypeOK, RateLimitParams
<1>6. Refilled(0)' \in Nat
  BY <1>3, <1>4, RefillAdds DEF Refilled
<1>7. Refilled(params.lastTxTimestamp - windowStart)' = Refilled(0)'
  BY <1>3, <1>4 DEF Refilled
<1> HIDE DEF Refilled
<1>. QED
  BY <1>2, <1>3, <1>4, <1>5, <1>6, <1>7 DEF FlowIInv

LEMMA OpenWindowFlowIInv ==
  ASSUME FlowIInv, RateLimitDuration # 0, OpenWindow
  PROVE  FlowIInv'
<1>1. /\ params' = params /\ now' = now /\ windowStart' = now /\ netFlow' = 0
      /\ params \in RateLimitParams /\ now \in Nat /\ params.lastTxTimestamp <= now
      /\ params.currentCapacity <= params.limit
      /\ params.lastTxTimestamp \in Nat /\ params.limit \in Nat
      /\ params.currentCapacity \in Nat
  BY DEF OpenWindow, FlowIInv, FlowTypeOK, RateLimitParams
<1>2. FlowTypeOK'
  BY <1>1 DEF FlowTypeOK
<1>3. Refilled(0) \in Nat /\ Refilled(0)' = Refilled(0)
  BY <1>1, RefillAdds DEF Refilled
<1>4. params.lastTxTimestamp >= now =>
        Refilled(params.lastTxTimestamp - windowStart)' = Refilled(0)
  <2>1. params.lastTxTimestamp >= now => params.lastTxTimestamp - now = 0
    BY <1>1
  <2>. QED
    BY <1>1, <2>1 DEF Refilled
<1> HIDE DEF Refilled
<1>. QED
  BY <1>1, <1>2, <1>3, <1>4 DEF FlowIInv

LEMMA NextFlowIInv == RateLimitDuration # 0 /\ FlowIInv /\ [FlowNext]_flowVars => FlowIInv'
<1> SUFFICES ASSUME RateLimitDuration # 0, FlowIInv, [FlowNext]_flowVars PROVE FlowIInv'
  OBVIOUS
<1>1. CASE \E moved \in Amounts : Pass(moved)
  BY <1>1, PassFlowIInv
<1>2. CASE \E moved \in Amounts : Return(moved)
  BY <1>2, ReturnFlowIInv
<1>3. CASE \E limit \in Limits : ChangeLimit(limit)
  BY <1>3, ChangeLimitFlowIInv
<1>4. CASE OpenWindow
  BY <1>4, OpenWindowFlowIInv
<1>5. CASE Tick
  <2>1. params' = params /\ windowStart' = windowStart /\ netFlow' = netFlow /\ now' = now + 1
    BY <1>5 DEF Tick
  <2>2. FlowTypeOK'
    BY <2>1 DEF FlowIInv, FlowTypeOK
  <2>3. params.lastTxTimestamp \in Nat /\ now \in Nat /\ windowStart \in Nat
    BY DEF FlowIInv, FlowTypeOK, RateLimitParams
  <2>4. Refilled(params.lastTxTimestamp - windowStart)' =
          Refilled(params.lastTxTimestamp - windowStart)
    BY <2>1 DEF Refilled
  <2> HIDE DEF Refilled
  <2>. QED
    BY <2>1, <2>2, <2>3, <2>4 DEF FlowIInv
<1>6. CASE UNCHANGED flowVars
  <2>1. Refilled(params.lastTxTimestamp - windowStart)' =
          Refilled(params.lastTxTimestamp - windowStart)
    BY <1>6 DEF flowVars, Refilled
  <2> HIDE DEF Refilled
  <2>. QED
    BY <1>6, <2>1 DEF flowVars, FlowIInv, FlowTypeOK
<1>. QED
  BY <1>1, <1>2, <1>3, <1>4, <1>5, <1>6 DEF FlowNext

LEMMA FlowInvariant ==
  ASSUME RateLimitDuration # 0
  PROVE  FlowSpec => []FlowIInv
<1>1. FlowIInv /\ [FlowNext]_flowVars => FlowIInv'
  BY NextFlowIInv
<1>. QED
  BY <1>1, InitFlowIInv, PTL DEF FlowSpec

(* The record keeps its types whatever the limits, the amounts and the order of calls: the
   unsigned arithmetic of the limiter neither underflows nor leaves the range. *)
THEOREM FlowTypes ==
  ASSUME RateLimitDuration # 0
  PROVE  FlowSpec => []FlowTypeOK
<1>1. FlowIInv => FlowTypeOK
  BY DEF FlowIInv
<1>. QED
  BY <1>1, FlowInvariant, PTL

(* The window bound: whatever the limits, the amounts, the duration and the order
   of transfers in both directions, what passes in a window, less what comes back,
   is at most one limit plus its refill (INV-009, INV-010, INV-011). *)
THEOREM WindowBound ==
  ASSUME RateLimitDuration # 0
  PROVE  FlowSpec => []NetFlowBounded
<1>1. FlowIInv => NetFlowBounded
  <2>. SUFFICES ASSUME FlowIInv PROVE NetFlowBounded
    OBVIOUS
  <2>1. /\ CurrentCapacity(params, now) \in Nat
        /\ Refilled(now - windowStart) \in Nat
        /\ CurrentCapacity(params, now) + netFlow
             <= params.limit + Refilled(now - windowStart)
    BY CapacityNow
  <2>2. netFlow \in Int /\ params.limit \in Nat
    BY DEF FlowIInv, FlowTypeOK, RateLimitParams
  <2> HIDE DEF Refilled
  <2>. QED
    BY <2>1, <2>2 DEF NetFlowBounded
<1>. QED
  BY <1>1, FlowInvariant, PTL

(* With a rate limit in force _setLimit never reverts, so no traffic can keep the
   owner from moving a limit or updating a peer. *)
THEOREM OwnerCanAlwaysMoveLimit ==
  ASSUME RateLimitDuration # 0
  PROVE  FlowSpec => []LimitCanAlwaysMove
<1>1. FlowIInv => LimitCanAlwaysMove
  BY SetLimitNeverFails, FlowAssumption DEF LimitCanAlwaysMove
<1>. QED
  BY <1>1, FlowInvariant, PTL

(* Moving the limit neither forgives nor charges what is already used. *)
THEOREM LimitMovePreservesUse ==
  ASSUME RateLimitDuration # 0
  PROVE  FlowSpec => UsedCapacityPreserved
<1> DEFINE A == params'.limit # params.limit =>
                  LET used == params.limit - CurrentCapacity(params, now)
                      usedAfter == params'.limit - params'.currentCapacity
                  IN  usedAfter = Min2(used, params'.limit)
<1>1. FlowIInv /\ [FlowNext]_flowVars => [A]_flowVars
  <2>. SUFFICES ASSUME FlowIInv, FlowNext PROVE A
    OBVIOUS
  <2>1. ASSUME NEW limit \in Limits, ChangeLimit(limit) PROVE A
    <3> DEFINE cap == CurrentCapacity(params, now)
    <3>1. cap \in Nat /\ cap <= params.limit /\ params.limit \in Nat /\ params.isSet
      BY CapacityNow DEF FlowIInv, FlowTypeOK, RateLimitParams
    <3>2. limit \in Nat
      BY FlowAssumption
    <3>3. params'.limit = limit
          /\ params'.currentCapacity = NewCapacity(limit, params.limit, cap)
      BY <2>1, <3>1 DEF ChangeLimit, SetLimit, CapacityAfterSet
    <3> HIDE DEF cap
    <3>4. limit - NewCapacity(limit, params.limit, cap) = Min2(params.limit - cap, limit)
      BY <3>1, <3>2 DEF NewCapacity, Min2
    <3>. QED
      BY <3>3, <3>4 DEF cap
  <2>2. ASSUME params'.limit = params.limit PROVE A
    BY <2>2
  <2>3. ASSUME NEW moved \in Amounts, Pass(moved) \/ Return(moved)
        PROVE  params'.limit = params.limit
    BY <2>3 DEF Pass, Return, Consume, Backfill, FlowIInv, FlowTypeOK, RateLimitParams
  <2>4. OpenWindow \/ Tick => params'.limit = params.limit
    BY DEF OpenWindow, Tick
  <2>. QED
    BY <2>1, <2>2, <2>3, <2>4 DEF FlowNext
<1>. QED
  BY <1>1, FlowInvariant, PTL DEF FlowSpec, UsedCapacityPreserved

--------------------------------------------------------------------------------
(***************************************************************************)
(* The value of an amount is the same in whatever decimals a transfer      *)
(* converts it to, for any decimals of the two tokens and any base.        *)
(***************************************************************************)

(* A non-empty set of naturals has a least. *)
LEMMA LeastNatural ==
  ASSUME NEW B \in SUBSET Nat, B # {}
  PROVE  \E n \in B : \A m \in B : n <= m
<1> DEFINE Below(n) == 0..(n - 1)
<1>1. PICK k \in B : TRUE
  OBVIOUS
<1> DEFINE C == {T \in SUBSET (0..k) : \E n \in B : T = Below(n)}
<1>2. IsFiniteSet(0..k) /\ Below(k) \in C
  BY <1>1, FS_Interval
<1>3. PICK T \in C : \A U \in C : ~(U \subseteq T /\ U # T)
  <2> DEFINE S == 0..k
  <2> HIDE DEF C
  <2>1. C \in SUBSET (SUBSET S) /\ C # {} /\ IsFiniteSet(S)
    BY <1>2 DEF C
  <2> HIDE DEF S
  <2>. QED
    BY <2>1, MinimalSet
<1>4. PICK n \in B : T = Below(n)
  OBVIOUS
<1>5. ASSUME NEW m \in B, m < n
      PROVE  FALSE
  <2>1. m \in Nat /\ n \in Nat
    OBVIOUS
  <2>2. Below(m) \subseteq T
    BY <1>4, <1>5, <2>1
  <2>3. m \in T /\ m \notin Below(m)
    BY <1>4, <1>5, <2>1
  <2>4. Below(m) \in C
    BY <2>2
  <2> HIDE DEF C, Below
  <2>. QED
    BY <1>3, <2>2, <2>3, <2>4
<1>. QED
  BY <1>5

--------------------------------------------------------------------------------
\* The powers of the base.

(* p holds the powers up to n. *)
ArePowers(p, n) ==
    p = [i \in 0..n |-> IF i = 0 THEN 1 ELSE Base * p[i - 1]]

LEMMA ArePowersAt ==
  ASSUME NEW p, NEW n, ArePowers(p, n), NEW i \in 0..n
  PROVE  p[i] = IF i = 0 THEN 1 ELSE Base * p[i - 1]
BY DEF ArePowers

LEMMA PowersAgree ==
  ASSUME NEW m \in Nat, NEW n \in Nat, NEW p, NEW q, ArePowers(p, m), ArePowers(q, n),
         NEW i \in 0..m, i <= n
  PROVE  p[i] = q[i]
<1> DEFINE Bad == {j \in Nat : j <= i /\ p[j] # q[j]}
<1>1. SUFFICES ASSUME Bad # {} PROVE FALSE
  OBVIOUS
<1>2. PICK j \in Bad : \A l \in Bad : j <= l
  <2> HIDE DEF Bad
  <2>1. Bad \in SUBSET Nat
    BY DEF Bad
  <2>. QED
    BY <1>1, <2>1, LeastNatural
<1>3. j \in 0..m /\ j \in 0..n
  OBVIOUS
<1>4. j # 0
  BY <1>3, ArePowersAt
<1>5. p[j - 1] = q[j - 1]
  BY <1>2, <1>4
<1>. QED
  BY <1>3, <1>4, <1>5, ArePowersAt

LEMMA PowersExist ==
  ASSUME NEW n \in Nat
  PROVE  \E p : ArePowers(p, n)
<1> DEFINE Bad == {i \in Nat : ~\E p : ArePowers(p, i)}
<1>1. SUFFICES ASSUME Bad # {} PROVE FALSE
  OBVIOUS
<1>2. PICK k \in Bad : \A l \in Bad : k <= l
  <2> HIDE DEF Bad
  <2>1. Bad \in SUBSET Nat
    BY DEF Bad
  <2>. QED
    BY <1>1, <2>1, LeastNatural
<1>3. CASE k = 0
  <2> DEFINE p == [i \in 0..0 |-> 1]
  <2>1. ArePowers(p, 0)
    BY DEF ArePowers
  <2>. QED
    BY <1>3, <2>1
<1>4. CASE k # 0
  <2>1. k - 1 \in Nat /\ k - 1 \notin Bad
    BY <1>2, <1>4
  <2>2. PICK p : ArePowers(p, k - 1)
    BY <2>1
  <2> DEFINE q == [i \in 0..k |-> IF i = k THEN Base * p[k - 1] ELSE p[i]]
  <2>3. ASSUME NEW i \in 0..k
        PROVE  q[i] = IF i = 0 THEN 1 ELSE Base * q[i - 1]
    <3>1. CASE i = k
      BY <3>1, <1>4
    <3>2. CASE i # k
      <4>1. i \in 0..(k - 1) /\ (i # 0 => i - 1 \in 0..(k - 1) /\ i - 1 # k /\ i - 1 \in 0..k)
        BY <3>2
      <4>2. p[i] = IF i = 0 THEN 1 ELSE Base * p[i - 1]
        BY <4>1, <2>2, ArePowersAt
      <4>. QED
        BY <3>2, <4>1, <4>2
    <3>. QED
      BY <3>1, <3>2
  <2>4. q = [i \in 0..k |-> q[i]]
    OBVIOUS
  <2> HIDE DEF q
  <2>5. ArePowers(q, k)
    BY <2>3, <2>4 DEF ArePowers
  <2>. QED
    BY <2>5
<1>. QED
  BY <1>3, <1>4

IsPower(p) == p = [n \in Nat |-> IF n = 0 THEN 1 ELSE Base * p[n - 1]]

LEMMA PowerExists == \E p : IsPower(p)
<1> DEFINE upTo(n) == CHOOSE p : ArePowers(p, n)
           q == [n \in Nat |-> upTo(n)[n]]
<1>1. ASSUME NEW n \in Nat PROVE ArePowers(upTo(n), n)
  BY PowersExist
<1>2. ASSUME NEW n \in Nat
      PROVE  q[n] = IF n = 0 THEN 1 ELSE Base * q[n - 1]
  <2>1. upTo(n)[n] = IF n = 0 THEN 1 ELSE Base * upTo(n)[n - 1]
    BY <1>1, ArePowersAt
  <2>2. n # 0 => upTo(n)[n - 1] = upTo(n - 1)[n - 1]
    <3>1. SUFFICES ASSUME n # 0 PROVE upTo(n)[n - 1] = upTo(n - 1)[n - 1]
      OBVIOUS
    <3>2. n - 1 \in Nat /\ n - 1 \in 0..n /\ n - 1 <= n - 1
      BY <3>1
    <3>3. ArePowers(upTo(n), n) /\ ArePowers(upTo(n - 1), n - 1)
      BY <1>1, <3>2
    <3>. QED
      BY <3>2, <3>3, PowersAgree
  <2>3. n # 0 => q[n - 1] = upTo(n - 1)[n - 1]
    OBVIOUS
  <2> HIDE DEF upTo
  <2>. QED
    BY <2>1, <2>2, <2>3
<1>3. q = [n \in Nat |-> q[n]]
  OBVIOUS
<1> HIDE DEF q
<1>4. IsPower(q)
  BY <1>2, <1>3 DEF IsPower
<1>. QED
  BY <1>4

LEMMA PowerAt ==
  /\ Power[0] = 1
  /\ \A n \in Nat : Power[n + 1] = Base * Power[n]
<1>1. Power = CHOOSE p : IsPower(p)
  BY DEF Power, IsPower
<1>2. IsPower(Power)
  BY <1>1, PowerExists
<1>3. ASSUME NEW n \in Nat
      PROVE  Power[n] = IF n = 0 THEN 1 ELSE Base * Power[n - 1]
  BY <1>2 DEF IsPower
<1>. QED
  BY <1>3

LEMMA PowerType ==
  ASSUME NEW n \in Nat
  PROVE  Power[n] \in Nat \ {0}
<1> DEFINE Bad == {i \in Nat : Power[i] \notin Nat \ {0}}
<1>1. SUFFICES ASSUME Bad # {} PROVE FALSE
  OBVIOUS
<1>2. PICK k \in Bad : \A l \in Bad : k <= l
  <2> HIDE DEF Bad
  <2>1. Bad \in SUBSET Nat
    BY DEF Bad
  <2>. QED
    BY <1>1, <2>1, LeastNatural
<1>3. k # 0
  BY PowerAt
<1>4. k - 1 \in Nat /\ Power[k - 1] \in Nat \ {0}
  BY <1>2, <1>3
<1>5. Power[k] = Base * Power[k - 1]
  <2>1. k = (k - 1) + 1
    OBVIOUS
  <2>. QED
    BY <2>1, <1>4, PowerAt
<1>6. ASSUME NEW a \in Nat \ {0}, NEW b \in Nat \ {0} PROVE a * b \in Nat \ {0}
  OBVIOUS
<1>. QED
  BY <1>4, <1>5, <1>6, TrimmedAmountAssumption

LEMMA PowerSum ==
  ASSUME NEW m \in Nat, NEW n \in Nat
  PROVE  Power[m + n] = Power[m] * Power[n]
<1> DEFINE Bad == {i \in Nat : Power[m + i] # Power[m] * Power[i]}
<1>1. SUFFICES ASSUME Bad # {} PROVE FALSE
  OBVIOUS
<1>2. PICK k \in Bad : \A l \in Bad : k <= l
  <2> HIDE DEF Bad
  <2>1. Bad \in SUBSET Nat
    BY DEF Bad
  <2>. QED
    BY <1>1, <2>1, LeastNatural
<1>3. Power[m] \in Nat
  BY PowerType
<1>4. k # 0
  BY <1>3, PowerAt
<1>5. k - 1 \in Nat /\ Power[m + (k - 1)] = Power[m] * Power[k - 1]
  BY <1>2, <1>4
<1>6. Power[k] = Base * Power[k - 1] /\ Power[m + k] = Base * Power[m + (k - 1)]
  <2>1. k = (k - 1) + 1 /\ m + k = (m + (k - 1)) + 1 /\ m + (k - 1) \in Nat
    BY <1>5
  <2>. QED
    BY <2>1, <1>5, PowerAt
<1>7. ASSUME NEW a \in Nat, NEW b \in Nat, NEW c \in Nat PROVE a * (b * c) = b * (a * c)
  OBVIOUS
<1>8. Base * (Power[m] * Power[k - 1]) = Power[m] * (Base * Power[k - 1])
  BY <1>3, <1>5, <1>7, PowerType, TrimmedAmountAssumption
<1>. QED
  BY <1>5, <1>6, <1>8

--------------------------------------------------------------------------------
\* Division.

LEMMA DivideExact ==
  ASSUME NEW k \in Nat, NEW p \in Nat \ {0}
  PROVE  (k * p) \div p = k
OBVIOUS

LEMMA DivideDown ==
  ASSUME NEW x \in Nat, NEW p \in Nat \ {0}
  PROVE  x \div p \in Nat /\ (x \div p) * p <= x
OBVIOUS

LEMMA ProductType ==
  ASSUME NEW a \in Nat, NEW b \in Nat
  PROVE  a * b \in Nat
OBVIOUS

LEMMA TimesGrows ==
  ASSUME NEW a \in Nat, NEW p \in Nat \ {0}
  PROVE  a <= a * p
OBVIOUS

LEMMA CancelFactor ==
  ASSUME NEW a \in Nat, NEW b \in Nat, NEW p \in Nat \ {0}, a * p = b * p
  PROVE  a = b
OBVIOUS
--------------------------------------------------------------------------------
\* Conversions.

(* More decimals, and fewer when nothing is lost. *)
LEMMA ScaleUp ==
  ASSUME NEW x \in Nat, NEW m \in Nat, NEW n \in Nat, m <= n
  PROVE  Scale(x, m, n) = x * Power[n - m]
BY DEF Scale

LEMMA ScaleDown ==
  ASSUME NEW x \in Nat, NEW m \in Nat, NEW n \in Nat, n <= m
  PROVE  Scale(x, m, n) = x \div Power[m - n]
<1>1. CASE m = n
  <2>1. Scale(x, m, n) = x * Power[0] /\ m - n = 0
    BY <1>1 DEF Scale
  <2>. QED
    BY <2>1, PowerAt
<1>2. CASE m # n
  BY <1>2 DEF Scale
<1>. QED
  BY <1>1, <1>2

(* A whole number of units of d decimals becomes the same number of them. *)
LEMMA ScaleWhole ==
  ASSUME NEW k \in Nat, NEW d \in Nat, NEW m \in Nat, NEW n \in Nat, d <= m, d <= n
  PROVE  Scale(k * Power[m - d], m, n) = k * Power[n - d]
<1> DEFINE x == k * Power[m - d]
<1>0. /\ m - d \in Nat /\ n - d \in Nat
      /\ Power[m - d] \in Nat \ {0} /\ Power[n - d] \in Nat \ {0}
  BY PowerType
<1>1. x \in Nat
  BY <1>0, ProductType
<1>2. CASE m <= n
  <2>1. Scale(x, m, n) = x * Power[n - m] /\ n - m \in Nat
    BY <1>1, <1>2, ScaleUp
  <2>2. Power[n - d] = Power[m - d] * Power[n - m]
    <3>1. n - d = (m - d) + (n - m)
      OBVIOUS
    <3>. QED
      BY <3>1, <1>0, <2>1, PowerSum
  <2>3. ASSUME NEW a \in Nat, NEW b \in Nat PROVE (k * a) * b = k * (a * b)
    OBVIOUS
  <2>. QED
    BY <1>0, <2>1, <2>2, <2>3, PowerType
<1>3. CASE n <= m
  <2>1. Scale(x, m, n) = x \div Power[m - n] /\ m - n \in Nat
    BY <1>1, <1>3, ScaleDown
  <2>2. Power[m - d] = Power[n - d] * Power[m - n]
    <3>1. m - d = (n - d) + (m - n)
      OBVIOUS
    <3>. QED
      BY <3>1, <1>0, <2>1, PowerSum
  <2>3. ASSUME NEW a \in Nat, NEW b \in Nat PROVE k * (a * b) = (k * a) * b
    OBVIOUS
  <2>4. x = (k * Power[n - d]) * Power[m - n]
    BY <1>0, <2>1, <2>2, <2>3, PowerType
  <2>5. k * Power[n - d] \in Nat /\ Power[m - n] \in Nat \ {0}
    BY <1>0, <2>1, PowerType, ProductType
  <2> HIDE DEF x
  <2>6. x \div Power[m - n] = k * Power[n - d]
    BY <2>4, <2>5, DivideExact
  <2>. QED
    BY <2>1, <2>6 DEF x
<1>. QED
  BY <1>2, <1>3

LEMMA SameUnits ==
  ASSUME NEW k \in Nat, NEW d \in Nat, NEW m \in Nat, NEW n \in Nat, d <= m, d <= n
  PROVE  SameValue(k * Power[m - d], m, k * Power[n - d], n)
<1>1. m - d \in Nat /\ n - d \in Nat /\ m = (m - d) + d /\ n = (n - d) + d
  OBVIOUS
<1>2. /\ Power[m] = Power[m - d] * Power[d]
      /\ Power[n] = Power[n - d] * Power[d]
  BY <1>1, PowerSum
<1>3. ASSUME NEW a \in Nat, NEW b \in Nat, NEW c \in Nat
      PROVE  (k * a) * (b * c) = (k * b) * (a * c)
  OBVIOUS
<1>. QED
  BY <1>1, <1>2, <1>3, PowerType DEF SameValue

LEMMA TrimDecimalsBound ==
  ASSUME NEW m \in Nat, NEW n \in Nat
  PROVE  /\ TrimDecimals(m, n) \in Nat
         /\ TrimDecimals(m, n) <= m /\ TrimDecimals(m, n) <= n
         /\ TrimDecimals(m, n) <= TrimmedDecimals
BY TrimmedAmountAssumption DEF TrimDecimals, MinDecimals

--------------------------------------------------------------------------------
(***************************************************************************)
(* One amount on its way.                                                  *)
(***************************************************************************)

MessageDecimals == TrimDecimals(fromDecimals, toDecimals)

(* k units of the message in units of the source token, and of the destination's. *)
AtSource(k) == k * Power[fromDecimals - MessageDecimals]
AtTarget(k) == k * Power[toDecimals - MessageDecimals]

(* Whatever the transfer has been converted to so far is the same whole number of
   units of the message. *)
AmountIInv ==
    /\ AmountTypeOK
    /\ source = "Solana" => Fits(amount)
    /\ quoted # NoQuote => \E k \in Nat : amount = AtSource(k) /\ quoted = AtTarget(k)
    /\ stage # "offered" =>
         /\ trimmed.decimals = MessageDecimals
         /\ amount = AtSource(trimmed.amount)
         /\ sourceCharge.decimals = LimitDecimalsOf(source, fromDecimals)
         /\ SameValue(amount, fromDecimals, sourceCharge.amount, sourceCharge.decimals)
    /\ stage = "paid" =>
         /\ credited = AtTarget(trimmed.amount)
         /\ targetCharge.decimals = LimitDecimalsOf(target, toDecimals)
         /\ SameValue(amount, fromDecimals, targetCharge.amount, targetCharge.decimals)
    /\ stage = "refunded" => credited = amount

LEMMA MessageDecimalsType ==
  ASSUME AmountTypeOK
  PROVE  /\ fromDecimals \in Nat /\ toDecimals \in Nat /\ MessageDecimals \in Nat
         /\ MessageDecimals <= fromDecimals /\ MessageDecimals <= toDecimals
         /\ MessageDecimals <= TrimmedDecimals
         /\ fromDecimals - MessageDecimals \in Nat /\ toDecimals - MessageDecimals \in Nat
<1>1. fromDecimals \in Nat /\ toDecimals \in Nat
  BY TransferAmountAssumption DEF AmountTypeOK, Decimals
<1>2. /\ MessageDecimals \in Nat
      /\ MessageDecimals <= fromDecimals /\ MessageDecimals <= toDecimals
      /\ MessageDecimals <= TrimmedDecimals
  BY <1>1, TrimDecimalsBound DEF MessageDecimals
<1>. QED
  BY <1>1, <1>2

LEMMA AtType ==
  ASSUME AmountTypeOK, NEW k \in Nat
  PROVE  AtSource(k) \in Nat /\ AtTarget(k) \in Nat
BY MessageDecimalsType, PowerType, ProductType DEF AtSource, AtTarget

(* The same units of the message are the same amount. *)
LEMMA AtInjective ==
  ASSUME AmountTypeOK, NEW k \in Nat, NEW l \in Nat, AtSource(k) = AtSource(l)
  PROVE  k = l
<1>1. Power[fromDecimals - MessageDecimals] \in Nat \ {0}
  BY MessageDecimalsType, PowerType
<1>. QED
  BY <1>1, CancelFactor DEF AtSource

(* What the trim leaves out is less than a unit of the message. *)
LEMMA SentUnits ==
  ASSUME AmountTypeOK
  PROVE  /\ Sent.amount \in Nat
         /\ Sent = [amount |-> Sent.amount, decimals |-> MessageDecimals]
         /\ Sent.amount <= amount
         /\ AtSource(Sent.amount) <= amount
         /\ \A k \in Nat : amount = AtSource(k) => Sent.amount = k
         /\ Untrim(Sent, fromDecimals) = AtSource(Sent.amount)
<1> DEFINE p == Power[fromDecimals - MessageDecimals]
<1>1. amount \in Nat /\ p \in Nat \ {0}
  BY MessageDecimalsType, PowerType DEF AmountTypeOK
<1>2. Scale(amount, fromDecimals, MessageDecimals) = amount \div p
  BY <1>1, MessageDecimalsType, ScaleDown
<1>3. Sent = [amount |-> amount \div p, decimals |-> MessageDecimals]
  BY <1>2 DEF Sent, Trim, MessageDecimals
<1> DEFINE q == amount \div p
<1> HIDE DEF p
<1>4. q \in Nat /\ q * p <= amount
  BY <1>1, DivideDown
<1>5. q <= q * p /\ q * p \in Nat
  BY <1>1, <1>4, TimesGrows, ProductType
<1>6. \A k \in Nat : amount = k * p => q = k
  BY <1>1, DivideExact
<1> HIDE DEF q
<1>7. Scale(q, MessageDecimals, fromDecimals) = q * p
  BY <1>4, MessageDecimalsType, ScaleUp DEF p
<1>8. Sent.amount = q /\ Sent.decimals = MessageDecimals
  BY <1>3 DEF q
<1>9. \A k : AtSource(k) = k * p
  BY DEF AtSource, p
<1>10. q <= amount
  BY <1>1, <1>4, <1>5
<1>11. Untrim(Sent, fromDecimals) = q * p
  BY <1>7, <1>8 DEF Untrim
<1>12. Sent = [amount |-> q, decimals |-> MessageDecimals]
  BY <1>3 DEF q
<1>. QED
  BY <1>4, <1>6, <1>8, <1>9, <1>10, <1>11, <1>12

LEMMA InitAmountIInv == AmountInit => AmountIInv
<1> SUFFICES ASSUME AmountInit PROVE AmountIInv
  OBVIOUS
<1>1. AmountTypeOK
  <2>1. Zero \in TrimmedAmounts
    BY TrimmedAmountAssumption DEF Zero, TrimmedAmounts
  <2>2. amount \in Nat
    BY TransferAmountAssumption DEF AmountInit
  <2>. QED
    BY <2>1, <2>2 DEF AmountInit, AmountTypeOK
<1>. QED
  BY <1>1 DEF AmountInit, AmountIInv

(* The route: what is left after the fee is whole, whatever is trimmed off each. *)
LEMMA RouteTrimWhole ==
  ASSUME AmountTypeOK, NEW x \in Nat
  PROVE  \E k \in Nat : RouteTrim(x) = AtSource(k) /\ AtSource(k) <= x
<1> DEFINE k == Scale(x, fromDecimals, MessageDecimals)
           p == Power[fromDecimals - MessageDecimals]
<1>1. p \in Nat \ {0} /\ k = x \div p
  BY MessageDecimalsType, PowerType, ScaleDown
<1> HIDE DEF p
<1>2. k \in Nat /\ k * p <= x
  BY <1>1, DivideDown
<1> HIDE DEF k
<1>3. RouteTrim(x) = k * p
  BY <1>2, MessageDecimalsType, ScaleUp DEF RouteTrim, MessageDecimals, k, p
<1>. QED
  BY <1>2, <1>3 DEF AtSource, p

LEMMA QuoteAmountIInv ==
  ASSUME AmountIInv, NEW fee \in Fees, Quote(fee)
  PROVE  AmountIInv'
<1>0. AmountTypeOK
  BY DEF AmountIInv
<1> DEFINE remaining == RouteTrim(amount) - RouteTrim(fee)
           p == Power[fromDecimals - MessageDecimals]
<1>1. fee \in Nat /\ amount \in Nat
  BY <1>0, TransferAmountAssumption DEF AmountTypeOK
<1>2. PICK k \in Nat : RouteTrim(amount) = AtSource(k) /\ AtSource(k) <= amount
  BY <1>0, <1>1, RouteTrimWhole
<1>3. PICK l \in Nat : RouteTrim(fee) = AtSource(l) /\ AtSource(l) <= fee
  BY <1>0, <1>1, RouteTrimWhole
<1>4. p \in Nat \ {0}
  BY <1>0, MessageDecimalsType, PowerType
<1>5. l <= k
  <2>1. CASE fee = 0
    <3>1. AtSource(l) = 0
      BY <2>1, <1>0, <1>3, AtType
    <3> HIDE DEF p
    <3>2. l <= l * p
      BY <1>4, TimesGrows
    <3>3. AtSource(l) = l * p
      BY DEF AtSource, p
    <3>. QED
      BY <3>1, <3>2, <3>3
  <2>2. CASE fee # 0
    <3>1. l * p < k * p
      <4>1. RouteTrim(amount) - RouteTrim(fee) > 0
        BY <2>2 DEF Quote
      <4>2. k * p - l * p > 0
        BY <4>1, <1>2, <1>3 DEF AtSource
      <4>3. k * p \in Nat /\ l * p \in Nat
        BY <1>4, ProductType
      <4> HIDE DEF p
      <4>. QED
        BY <4>2, <4>3
    <3> HIDE DEF p
    <3>2. ASSUME k < l PROVE k * p <= l * p
      BY <3>2, <1>4
    <3>3. k * p \in Nat /\ l * p \in Nat
      BY <1>4, ProductType
    <3>. QED
      BY <3>1, <3>2, <3>3
  <2>. QED
    BY <2>1, <2>2
<1> DEFINE r == k - l
<1>6. r \in Nat
  BY <1>5
<1>7. remaining = AtSource(r)
  <2>1. remaining = k * p - l * p
    BY <1>2, <1>3 DEF AtSource
  <2> HIDE DEF p
  <2>2. k * p - l * p = (k - l) * p
    BY <1>4
  <2>. QED
    BY <2>1, <2>2 DEF AtSource, p
<1>8. remaining \in Nat /\ remaining <= amount
  <2>1. AtSource(r) \in Nat /\ AtSource(k) \in Nat /\ AtSource(l) \in Nat
    BY <1>0, <1>6, AtType
  <2>2. AtSource(k) - AtSource(l) = AtSource(r)
    BY <1>2, <1>3, <1>7
  <2> HIDE DEF remaining, r
  <2>. QED
    BY <1>1, <1>2, <1>7, <2>1, <2>2
<1>9. Scale(remaining, fromDecimals, toDecimals) = AtTarget(r)
  <2>1. AtSource(r) = r * Power[fromDecimals - MessageDecimals]
    BY DEF AtSource
  <2> HIDE DEF r, remaining
  <2>2. Scale(r * Power[fromDecimals - MessageDecimals], fromDecimals, toDecimals) =
          r * Power[toDecimals - MessageDecimals]
    <3>1. /\ fromDecimals \in Nat /\ toDecimals \in Nat /\ MessageDecimals \in Nat
          /\ MessageDecimals <= fromDecimals /\ MessageDecimals <= toDecimals
      BY <1>0, MessageDecimalsType
    <3>. QED
      BY <3>1, <1>6, ScaleWhole
  <2>. QED
    BY <2>1, <2>2, <1>7 DEF AtTarget
<1> HIDE DEF remaining, r, p
<1>10. /\ amount' = remaining /\ quoted' = AtTarget(r)
       /\ stage = "offered"
       /\ UNCHANGED <<source, target, fromDecimals, toDecimals, stage, trimmed,
                      sourceCharge, targetCharge, credited>>
  BY <1>9 DEF Quote, sideVars, remaining
<1>11. AmountTypeOK'
  BY <1>0, <1>6, <1>8, <1>10, AtType DEF AmountTypeOK, Decimals
<1>12. (source = "Solana" => Fits(amount))'
  <2>1. SUFFICES ASSUME source = "Solana" PROVE Fits(amount')
    BY <1>10
  <2>2. Fits(amount)
    BY <2>1 DEF AmountIInv
  <2>. QED
    BY <2>2, <1>1, <1>8, <1>10, TrimmedAmountAssumption DEF Fits
<1>13. (\E i \in Nat : amount = AtSource(i) /\ quoted = AtTarget(i))'
  <2>1. amount' = AtSource(r)' /\ quoted' = AtTarget(r)'
    BY <1>7, <1>10 DEF AtSource, AtTarget, MessageDecimals
  <2>. QED
    BY <2>1, <1>6, <1>10 DEF AtSource, AtTarget, MessageDecimals
<1>. QED
  BY <1>10, <1>11, <1>12, <1>13 DEF AmountIInv

(* A message's amount fits, and so does a charge in more decimals that shift returned. *)
LEMMA TakeAmountIInv ==
  ASSUME AmountIInv, Take
  PROVE  AmountIInv'
<1>0. AmountTypeOK
  BY DEF AmountIInv
<1> DEFINE a == Sent.amount
           limit == LimitDecimals(fromDecimals)
           charge == Untrim(Sent, limit)
<1>1. /\ a \in Nat /\ Sent = [amount |-> a, decimals |-> MessageDecimals]
      /\ amount = AtSource(a)
  BY <1>0, SentUnits DEF Take
<1>2. /\ limit \in Nat /\ MessageDecimals <= limit /\ limit - MessageDecimals \in Nat
      /\ limit = LimitDecimalsOf("Evm", fromDecimals)
  <2>1. /\ fromDecimals \in Nat /\ MessageDecimals \in Nat
        /\ MessageDecimals <= fromDecimals /\ MessageDecimals <= TrimmedDecimals
    BY <1>0, MessageDecimalsType
  <2>. QED
    BY <2>1, TrimmedAmountAssumption DEF LimitDecimals, LimitDecimalsOf, MinDecimals
<1>3. charge = a * Power[limit - MessageDecimals] /\ charge \in Nat
  <2>1. Sent.amount = a /\ Sent.decimals = MessageDecimals
    BY <1>1
  <2>2. MessageDecimals \in Nat
    BY <1>0, MessageDecimalsType
  <2> HIDE DEF a, limit
  <2>3. Scale(a, MessageDecimals, limit) = a * Power[limit - MessageDecimals]
    BY <1>1, <1>2, <2>2, ScaleUp
  <2>4. charge = Scale(a, MessageDecimals, limit)
    BY <2>1 DEF Untrim
  <2>5. Power[limit - MessageDecimals] \in Nat
    BY <1>2, PowerType
  <2> HIDE DEF charge
  <2>. QED
    BY <1>1, <2>3, <2>4, <2>5, ProductType
<1>4. a <= MaxUint64 /\ charge <= MaxUint64
  <2>1. TrimFits(amount, fromDecimals, toDecimals) /\ ShiftFits(Sent, fromDecimals)
    BY DEF Take
  <2>. QED
    BY <2>1 DEF TrimFits, ShiftFits, Fits, Sent, Trim
<1>5. SameValue(amount, fromDecimals, charge, limit)
  <2>1. /\ fromDecimals \in Nat /\ MessageDecimals \in Nat
        /\ MessageDecimals <= fromDecimals
    BY <1>0, MessageDecimalsType
  <2> HIDE DEF a, limit, charge
  <2>2. SameValue(a * Power[fromDecimals - MessageDecimals], fromDecimals,
                  a * Power[limit - MessageDecimals], limit)
    BY <1>1, <1>2, <2>1, SameUnits
  <2>. QED
    BY <1>1, <1>3, <2>2 DEF AtSource
<1>6. /\ sourceCharge' = [amount |-> charge, decimals |-> limit]
      /\ trimmed' = [amount |-> a, decimals |-> MessageDecimals]
      /\ source = "Evm" /\ stage = "offered" /\ stage' = "taken"
      /\ UNCHANGED <<source, target, fromDecimals, toDecimals, amount, quoted,
                     targetCharge, credited>>
  BY <1>1 DEF Take, Shift, sideVars
<1> HIDE DEF a, limit, charge
<1>7. MessageDecimals' = MessageDecimals /\ \A k : AtSource(k)' = AtSource(k) /\ AtTarget(k)' = AtTarget(k)
  BY <1>6 DEF MessageDecimals, AtSource, AtTarget
<1>8. AmountTypeOK'
  <2>1. trimmed' \in TrimmedAmounts /\ sourceCharge' \in TrimmedAmounts
    BY <1>0, <1>1, <1>2, <1>3, <1>4, <1>6, MessageDecimalsType, TrimmedAmountAssumption
       DEF TrimmedAmounts
  <2>. QED
    BY <1>0, <1>6, <2>1 DEF AmountTypeOK, Decimals
<1>9. (quoted # NoQuote => \E k \in Nat : amount = AtSource(k) /\ quoted = AtTarget(k))'
  BY <1>6, <1>7 DEF AmountIInv, NoQuote
<1>10. (/\ trimmed.decimals = MessageDecimals
        /\ amount = AtSource(trimmed.amount)
        /\ sourceCharge.decimals = LimitDecimalsOf(source, fromDecimals)
        /\ SameValue(amount, fromDecimals, sourceCharge.amount, sourceCharge.decimals))'
  BY <1>1, <1>2, <1>5, <1>6, <1>7 DEF SameValue, LimitDecimalsOf, AtSource, MessageDecimals
<1>11. source' # "Solana" /\ stage' # "paid" /\ stage' # "refunded"
  BY <1>6
<1>. QED
  BY <1>8, <1>9, <1>10, <1>11 DEF AmountIInv

(* What Solana leaves with the sender is what the message cannot carry: of an amount a
   route quoted, nothing. *)
LEMMA TakeSolanaAmountIInv ==
  ASSUME AmountIInv, TakeSolana
  PROVE  AmountIInv'
<1>0. AmountTypeOK
  BY DEF AmountIInv
<1>1. PICK a \in Nat :
        /\ Sent = [amount |-> a, decimals |-> MessageDecimals]
        /\ a <= amount
        /\ AtSource(a) <= amount
        /\ \A k \in Nat : amount = AtSource(k) => a = k
        /\ Untrim(Sent, fromDecimals) = AtSource(a)
  BY <1>0, SentUnits
<1>2. /\ amount' = AtSource(a)
      /\ trimmed' = [amount |-> a, decimals |-> MessageDecimals]
      /\ sourceCharge' = [amount |-> AtSource(a), decimals |-> fromDecimals]
      /\ source = "Solana" /\ stage = "offered" /\ stage' = "taken"
      /\ UNCHANGED <<source, target, fromDecimals, toDecimals, quoted,
                     targetCharge, credited>>
  BY <1>1 DEF TakeSolana, sideVars
<1>3. MessageDecimals' = MessageDecimals /\ \A k : AtSource(k)' = AtSource(k) /\ AtTarget(k)' = AtTarget(k)
  BY <1>2 DEF MessageDecimals, AtSource, AtTarget
<1>4. AtSource(a) \in Nat /\ amount \in Nat /\ amount <= MaxUint64
  BY <1>0, <1>1, <1>2, AtType DEF AmountIInv, Fits, AmountTypeOK
<1>5. a <= MaxUint64 /\ AtSource(a) <= MaxUint64
  BY <1>1, <1>4, TrimmedAmountAssumption
<1>6. fromDecimals \in Nat /\ MessageDecimals \in Nat
  BY <1>0, MessageDecimalsType
<1>7. AmountTypeOK'
  <2>1. trimmed' \in TrimmedAmounts /\ sourceCharge' \in TrimmedAmounts
    BY <1>1, <1>2, <1>4, <1>5, <1>6, TrimmedAmountAssumption DEF TrimmedAmounts
  <2>. QED
    BY <1>0, <1>2, <1>4, <2>1 DEF AmountTypeOK, Decimals
<1>8. (quoted # NoQuote => \E k \in Nat : amount = AtSource(k) /\ quoted = AtTarget(k))'
  <2>1. SUFFICES ASSUME quoted # NoQuote
                 PROVE  quoted = AtTarget(a)
    BY <1>2, <1>3 DEF NoQuote
  <2>2. PICK k \in Nat : amount = AtSource(k) /\ quoted = AtTarget(k)
    BY <2>1 DEF AmountIInv
  <2>. QED
    BY <1>1, <2>2
<1>9. (/\ trimmed.decimals = MessageDecimals
       /\ amount = AtSource(trimmed.amount)
       /\ sourceCharge.decimals = LimitDecimalsOf(source, fromDecimals)
       /\ SameValue(amount, fromDecimals, sourceCharge.amount, sourceCharge.decimals))'
  BY <1>2, <1>3 DEF SameValue, LimitDecimalsOf, AtSource, MessageDecimals
<1>10. (source = "Solana" => Fits(amount))'
  BY <1>2, <1>5 DEF Fits
<1>11. stage' # "paid" /\ stage' # "refunded"
  BY <1>2
<1>. QED
  BY <1>7, <1>8, <1>9, <1>10, <1>11 DEF AmountIInv

(* What the trimmed amount is in units of either token. *)
LEMMA TrimmedUnits ==
  ASSUME AmountIInv, stage # "offered"
  PROVE  /\ trimmed.amount \in Nat
         /\ Untrim(trimmed, fromDecimals) = AtSource(trimmed.amount)
         /\ Untrim(trimmed, toDecimals) = AtTarget(trimmed.amount)
<1>1. AmountTypeOK /\ trimmed.amount \in Nat /\ trimmed.decimals = MessageDecimals
  BY TrimmedAmountAssumption DEF AmountIInv, AmountTypeOK, TrimmedAmounts
<1>2. /\ fromDecimals \in Nat /\ toDecimals \in Nat /\ MessageDecimals \in Nat
      /\ MessageDecimals <= fromDecimals /\ MessageDecimals <= toDecimals
  BY <1>1, MessageDecimalsType
<1>3. /\ Scale(trimmed.amount, MessageDecimals, fromDecimals) = AtSource(trimmed.amount)
      /\ Scale(trimmed.amount, MessageDecimals, toDecimals) = AtTarget(trimmed.amount)
  BY <1>1, <1>2, ScaleUp DEF AtSource, AtTarget
<1>. QED
  BY <1>1, <1>3 DEF Untrim

LEMMA SendAmountIInv ==
  ASSUME AmountIInv, Send
  PROVE  AmountIInv'
<1>1. /\ stage = "taken" /\ stage' = "sent"
      /\ UNCHANGED <<source, target, fromDecimals, toDecimals, amount, quoted, trimmed,
                     sourceCharge, targetCharge, credited>>
  BY DEF Send, sideVars
<1>. QED
  BY <1>1 DEF AmountIInv, AmountTypeOK, Decimals, AtSource, AtTarget, MessageDecimals, SameValue

LEMMA CancelAmountIInv ==
  ASSUME AmountIInv, Cancel
  PROVE  AmountIInv'
<1>1. /\ stage = "taken" /\ stage' = "refunded"
      /\ credited' = Untrim(trimmed, fromDecimals)
      /\ UNCHANGED <<source, target, fromDecimals, toDecimals, amount, quoted, trimmed,
                     sourceCharge, targetCharge>>
  BY DEF Cancel, sideVars
<1>2. credited' = amount /\ amount \in Nat
  BY <1>1, TrimmedUnits DEF AmountIInv, AmountTypeOK
<1>. QED
  BY <1>1, <1>2
     DEF AmountIInv, AmountTypeOK, Decimals, AtSource, AtTarget, MessageDecimals, SameValue

(* A payment of a whole number of units of the message, charged in decimals between
   those of the message and of the token. *)
LEMMA PaidAmountIInv ==
  ASSUME AmountIInv, stage = "sent", stage' = "paid",
         credited' = AtTarget(trimmed.amount),
         NEW limit \in Nat, MessageDecimals <= limit,
         limit = LimitDecimalsOf(target, toDecimals),
         targetCharge' = [amount   |-> trimmed.amount * Power[limit - MessageDecimals],
                          decimals |-> limit],
         trimmed.amount * Power[limit - MessageDecimals] <= MaxUint64,
         UNCHANGED <<sideVars, amount, quoted, trimmed, sourceCharge>>
  PROVE  AmountIInv'
<1> DEFINE a == trimmed.amount
           charge == a * Power[limit - MessageDecimals]
<1>0. AmountTypeOK
  BY DEF AmountIInv
<1>1. /\ a \in Nat /\ amount = AtSource(a)
      /\ fromDecimals \in Nat /\ MessageDecimals \in Nat /\ MessageDecimals <= fromDecimals
  BY <1>0, MessageDecimalsType, TrimmedUnits DEF AmountIInv
<1>2. charge \in Nat
  <2>1. limit - MessageDecimals \in Nat
    BY <1>1
  <2>2. Power[limit - MessageDecimals] \in Nat
    BY <2>1, PowerType
  <2>. QED
    BY <2>2, <1>1, ProductType
<1>3. SameValue(amount, fromDecimals, charge, limit)
  <2> HIDE DEF a
  <2>1. SameValue(a * Power[fromDecimals - MessageDecimals], fromDecimals, charge, limit)
    BY <1>1, SameUnits
  <2>. QED
    BY <2>1, <1>1 DEF AtSource
<1> HIDE DEF a, charge
<1>4. /\ targetCharge' = [amount |-> charge, decimals |-> limit] /\ charge <= MaxUint64
      /\ credited' = AtTarget(a)
      /\ trimmed'.amount = a
  BY DEF charge, a
<1>5. UNCHANGED <<source, target, fromDecimals, toDecimals, amount, quoted, trimmed, sourceCharge>>
  BY DEF sideVars
<1>6. targetCharge' \in TrimmedAmounts /\ credited' \in Nat
  BY <1>0, <1>1, <1>2, <1>4, AtType, TrimmedAmountAssumption DEF TrimmedAmounts
<1>7. AmountTypeOK'
  BY <1>0, <1>5, <1>6 DEF AmountTypeOK, Decimals
<1>8. (/\ credited = AtTarget(trimmed.amount)
       /\ targetCharge.decimals = LimitDecimalsOf(target, toDecimals)
       /\ SameValue(amount, fromDecimals, targetCharge.amount, targetCharge.decimals))'
  BY <1>3, <1>4, <1>5 DEF AtTarget, MessageDecimals, SameValue, LimitDecimalsOf
<1>9. (/\ source = "Solana" => Fits(amount)
       /\ quoted # NoQuote => \E k \in Nat : amount = AtSource(k) /\ quoted = AtTarget(k)
       /\ trimmed.decimals = MessageDecimals
       /\ amount = AtSource(trimmed.amount)
       /\ sourceCharge.decimals = LimitDecimalsOf(source, fromDecimals)
       /\ SameValue(amount, fromDecimals, sourceCharge.amount, sourceCharge.decimals))'
  BY <1>5 DEF AmountIInv, AtSource, AtTarget, MessageDecimals, SameValue, LimitDecimalsOf, Fits,
              NoQuote
<1>. QED
  BY <1>7, <1>8, <1>9 DEF AmountIInv

LEMMA ReceiveAmountIInv ==
  ASSUME AmountIInv, Receive
  PROVE  AmountIInv'
<1>0. AmountTypeOK
  BY DEF AmountIInv
<1> DEFINE a == trimmed.amount
           units == Untrim(trimmed, toDecimals)
           limit == TrimDecimals(toDecimals, toDecimals)
           native == Trim(units, toDecimals, toDecimals)
           charge == a * Power[limit - MessageDecimals]
<1>1. /\ stage = "sent" /\ stage' = "paid" /\ target = "Evm"
      /\ targetCharge' = native
      /\ credited' = Untrim(native, toDecimals)
      /\ Fits(Scale(units, toDecimals, limit))
      /\ UNCHANGED <<sideVars, amount, quoted, trimmed, sourceCharge>>
  BY DEF Receive, Receivable, TrimFits
<1>2. /\ a \in Nat
      /\ units = a * Power[toDecimals - MessageDecimals]
      /\ units = AtTarget(a)
  BY <1>1, TrimmedUnits DEF AtTarget
<1>3. /\ toDecimals \in Nat /\ MessageDecimals \in Nat /\ MessageDecimals <= toDecimals
      /\ MessageDecimals <= TrimmedDecimals
  BY <1>0, MessageDecimalsType
<1>4. /\ limit \in Nat /\ MessageDecimals <= limit /\ limit <= toDecimals
      /\ limit = LimitDecimalsOf("Evm", toDecimals)
  BY <1>3, TrimmedAmountAssumption DEF TrimDecimals, MinDecimals, LimitDecimalsOf
<1>5. native = [amount |-> Scale(units, toDecimals, limit), decimals |-> limit]
  BY DEF Trim
<1> HIDE DEF a, units, limit, native
<1>6. Scale(units, toDecimals, limit) = charge
  BY <1>2, <1>3, <1>4, ScaleWhole
<1>7. Scale(charge, limit, toDecimals) = units
  BY <1>2, <1>3, <1>4, ScaleWhole
<1> HIDE DEF charge
<1>8. native = [amount |-> charge, decimals |-> limit] /\ charge <= MaxUint64
  BY <1>1, <1>5, <1>6 DEF Fits
<1>9. credited' = AtTarget(a)
  BY <1>1, <1>2, <1>7, <1>8 DEF Untrim
<1>. QED
  BY <1>1, <1>4, <1>8, <1>9, PaidAmountIInv DEF a, charge

LEMMA ReceiveSolanaAmountIInv ==
  ASSUME AmountIInv, ReceiveSolana
  PROVE  AmountIInv'
<1>0. AmountTypeOK
  BY DEF AmountIInv
<1> DEFINE a == trimmed.amount
           units == a * Power[toDecimals - MessageDecimals]
<1>1. /\ stage = "sent" /\ stage' = "paid" /\ target = "Solana"
      /\ Untrim(trimmed, toDecimals) <= MaxUint64
      /\ targetCharge' = [amount |-> Untrim(trimmed, toDecimals), decimals |-> toDecimals]
      /\ credited' = Untrim(trimmed, toDecimals)
      /\ UNCHANGED <<sideVars, amount, quoted, trimmed, sourceCharge>>
  BY DEF ReceiveSolana, Fits
<1>2. Untrim(trimmed, toDecimals) = AtTarget(a) /\ AtTarget(a) = units
  BY <1>1, TrimmedUnits DEF AtTarget
<1>3. toDecimals \in Nat /\ MessageDecimals <= toDecimals
  BY <1>0, MessageDecimalsType
<1>4. toDecimals = LimitDecimalsOf(target, toDecimals)
  BY <1>1 DEF LimitDecimalsOf
<1>. QED
  BY <1>1, <1>2, <1>3, <1>4, PaidAmountIInv

LEMMA NextAmountIInv == AmountIInv /\ [AmountNext]_amountVars => AmountIInv'
<1> SUFFICES ASSUME AmountIInv, [AmountNext]_amountVars PROVE AmountIInv'
  OBVIOUS
<1>1. CASE \E fee \in Fees : Quote(fee)
  BY <1>1, QuoteAmountIInv
<1>2. CASE Take
  BY <1>2, TakeAmountIInv
<1>3. CASE TakeSolana
  BY <1>3, TakeSolanaAmountIInv
<1>4. CASE Send
  BY <1>4, SendAmountIInv
<1>5. CASE Cancel
  BY <1>5, CancelAmountIInv
<1>6. CASE Receive
  BY <1>6, ReceiveAmountIInv
<1>7. CASE ReceiveSolana
  BY <1>7, ReceiveSolanaAmountIInv
<1>8. CASE UNCHANGED amountVars
  BY <1>8 DEF AmountIInv, AmountTypeOK, Decimals, AtSource, AtTarget, MessageDecimals, SameValue,
              amountVars, sideVars
<1>. QED
  BY <1>1, <1>2, <1>3, <1>4, <1>5, <1>6, <1>7, <1>8 DEF AmountNext

LEMMA AmountInvariant == AmountSpec => []AmountIInv
<1>. QED
  BY InitAmountIInv, NextAmountIInv, PTL DEF AmountSpec

(* Every amount of the message and of the two charges fits its uint64, on whatever
   sides and in whatever decimals (TrimmedAmount.sol, transfer.rs, redeem.rs). *)
THEOREM AmountTypes == AmountSpec => []AmountTypeOK
<1>1. AmountIInv => AmountTypeOK
  BY DEF AmountIInv
<1>. QED
  BY <1>1, AmountInvariant, PTL

(* What is paid is worth what was taken to the last unit, and a refund is what was
   taken, for any decimals of the tokens and of the messages (NttManager.sol:669-689,
   redeem.rs:121-125). *)
THEOREM NothingIsLostOnTheWay == AmountSpec => []ValuePreserved
<1>1. AmountIInv => ValuePreserved
  <2>1. SUFFICES ASSUME AmountIInv, stage = "paid"
                 PROVE  SameValue(amount, fromDecimals, credited, toDecimals)
    BY DEF AmountIInv, ValuePreserved
  <2>2. /\ trimmed.amount \in Nat
        /\ amount = AtSource(trimmed.amount) /\ credited = AtTarget(trimmed.amount)
    BY <2>1, TrimmedUnits DEF AmountIInv
  <2>3. /\ fromDecimals \in Nat /\ toDecimals \in Nat /\ MessageDecimals \in Nat
        /\ MessageDecimals <= fromDecimals /\ MessageDecimals <= toDecimals
    BY <2>1, MessageDecimalsType DEF AmountIInv
  <2>. QED
    BY <2>2, <2>3, SameUnits DEF AtSource, AtTarget
<1>. QED
  BY <1>1, AmountInvariant, PTL

(* A transfer a route quoted has no dust, and pays what was quoted, for any fee
   (types.ts:292, executor.ts:290-293, 371). *)
THEOREM QuotesAreKept == AmountSpec => []QuoteKept
<1>1. AmountIInv => QuoteKept
  <2>1. SUFFICES ASSUME AmountIInv, quoted # NoQuote PROVE QuoteKept
    BY DEF QuoteKept
  <2>2. PICK k \in Nat : amount = AtSource(k) /\ quoted = AtTarget(k)
    BY <2>1 DEF AmountIInv
  <2>3. Untrim(Sent, fromDecimals) = amount
    BY <2>1, <2>2, SentUnits DEF AmountIInv
  <2>4. ASSUME stage = "paid" PROVE credited = quoted
    <3>1. /\ trimmed.amount \in Nat /\ amount = AtSource(trimmed.amount)
          /\ credited = AtTarget(trimmed.amount)
      BY <2>1, <2>4, TrimmedUnits DEF AmountIInv
    <3>2. trimmed.amount = k
      BY <2>1, <2>2, <3>1, AtInjective DEF AmountIInv
    <3>. QED
      BY <2>2, <3>1, <3>2
  <2>. QED
    BY <2>3, <2>4 DEF QuoteKept
<1>. QED
  BY <1>1, AmountInvariant, PTL

(* Both limits are charged with the value that moves, in their own decimals
   (RateLimiter.sol:171, TrimmedAmount.sol:57-66). *)
THEOREM ChargesAreExact == AmountSpec => []ChargesInLimitDecimals
<1>1. AmountIInv => ChargesInLimitDecimals
  BY DEF AmountIInv, ChargesInLimitDecimals
<1>. QED
  BY <1>1, AmountInvariant, PTL
================================================================================
