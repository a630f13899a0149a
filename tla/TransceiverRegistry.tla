-------------------------- MODULE TransceiverRegistry --------------------------
(***************************************************************************)
(* The registry as TransceiverRegistry.sol and ManagerBase.sol keep it: a  *)
(* mapping from an address to its flags and its slot, the array of all     *)
(* registered transceivers in slot order, the array of the enabled ones in *)
(* an order that removals disturb, a bitmap over the slots and two         *)
(* counters.  Attestations are stored by slot, so everything the manager   *)
(* concludes from a bitmap rests on these six pieces agreeing.             *)
(*                                                                         *)
(* A bitmap is the set of its bit positions.                               *)
(***************************************************************************)
EXTENDS Integers, FiniteSets, Sequences

CONSTANTS
    Transceivers,     \* the addresses the owner may pass
    MaxTransceivers,  \* MAX_TRANSCEIVERS
    BitmapWidth       \* bits of the bitmap: uint64

ASSUME RegistryAssumption ==
    /\ MaxTransceivers \in Nat \ {0}
    /\ BitmapWidth \in Nat
    /\ MaxTransceivers <= BitmapWidth

VARIABLES
    transceiverInfos,         \* address -> [registered, enabled, index]
    registeredTransceivers,   \* addresses, in the order of their slots
    enabledTransceivers,      \* addresses, in no particular order
    enabledTransceiverBitmap, \* the slots of the enabled transceivers
    numTransceivers,          \* [registered, enabled]
    threshold

vars == <<transceiverInfos, registeredTransceivers, enabledTransceivers,
          enabledTransceiverBitmap, numTransceivers, threshold>>

TypeOK ==
    /\ transceiverInfos \in [Transceivers -> [registered : BOOLEAN,
                                              enabled : BOOLEAN,
                                              index : Nat]]
    /\ registeredTransceivers \in Seq(Transceivers)
    /\ enabledTransceivers \in Seq(Transceivers)
    /\ enabledTransceiverBitmap \subseteq Nat
    /\ numTransceivers \in [registered : Nat, enabled : Nat]
    /\ threshold \in Nat

Init ==
    /\ transceiverInfos =
         [t \in Transceivers |-> [registered |-> FALSE, enabled |-> FALSE, index |-> 0]]
    /\ registeredTransceivers = <<>>
    /\ enabledTransceivers = <<>>
    /\ enabledTransceiverBitmap = {}
    /\ numTransceivers = [registered |-> 0, enabled |-> 0]
    /\ threshold = 0

--------------------------------------------------------------------------------

\* Plausible slips in the code, each refuted by a property below.
SwapPop_NoSwap(s, k) == [i \in 1..(Len(s) - 1) |-> s[i]]
ThresholdAllowed_NoZero(num, th) == th <= num.enabled
EnableInfo_SlotAgain(t) ==
    /\ numTransceivers.registered < MaxTransceivers
    /\ transceiverInfos' = [transceiverInfos EXCEPT ![t] =
           [registered |-> TRUE, enabled |-> TRUE, index |-> numTransceivers.registered]]
    /\ numTransceivers' = [registered |-> numTransceivers.registered + 1,
                           enabled |-> numTransceivers.enabled + 1]
    /\ registeredTransceivers' = Append(registeredTransceivers, t)

(* uint64(1 << index): a shift past the width leaves no bit. *)
Bit(i) == {i} \cap 0..(BitmapWidth - 1)

(* Overwrite position k with the last element and drop the last element. *)
SwapPop(s, k) == [i \in 1..(Len(s) - 1) |-> IF i = k THEN s[Len(s)] ELSE s[i]]

(* _checkThresholdInvariants on the values after the change: reverts unless this
   holds. *)
ThresholdAllowed(num, th) ==
    /\ th <= num.enabled
    /\ num.registered > 0 => th # 0

(* The branch of _setTransceiver that writes transceiverInfos and, for an address
   never seen before, takes the next slot. *)
EnableInfo(t) ==
    IF transceiverInfos[t].registered
    THEN /\ transceiverInfos' = [transceiverInfos EXCEPT ![t].enabled = TRUE]
         /\ numTransceivers' = [numTransceivers EXCEPT !.enabled = @ + 1]
         /\ UNCHANGED registeredTransceivers
    ELSE /\ numTransceivers.registered < MaxTransceivers
         /\ transceiverInfos' = [transceiverInfos EXCEPT ![t] =
                [registered |-> TRUE, enabled |-> TRUE,
                 index |-> numTransceivers.registered]]
         /\ numTransceivers' = [registered |-> numTransceivers.registered + 1,
                                enabled |-> numTransceivers.enabled + 1]
         /\ registeredTransceivers' = Append(registeredTransceivers, t)

(* setTransceiver.  A bitmap that does not change reverts with
   TransceiverAlreadyEnabled. *)
SetTransceiver(t) ==
    /\ EnableInfo(t)
    /\ enabledTransceivers' = Append(enabledTransceivers, t)
    /\ enabledTransceiverBitmap' =
         enabledTransceiverBitmap \cup Bit(transceiverInfos'[t].index)
    /\ enabledTransceiverBitmap' # enabledTransceiverBitmap
    /\ threshold' = IF threshold = 0 THEN 1 ELSE threshold
    /\ ThresholdAllowed(numTransceivers', threshold')

(* removeTransceiver.  The loop stops at the first position that holds t; both
   asserts revert when they fail. *)
RemoveTransceiver(t) ==
    /\ transceiverInfos[t].registered
    /\ transceiverInfos[t].enabled
    /\ transceiverInfos' = [transceiverInfos EXCEPT ![t].enabled = FALSE]
    /\ numTransceivers' = [numTransceivers EXCEPT !.enabled = @ - 1]
    /\ enabledTransceiverBitmap' =
         enabledTransceiverBitmap \ Bit(transceiverInfos[t].index)
    /\ enabledTransceiverBitmap' # enabledTransceiverBitmap
    /\ \E k \in DOMAIN enabledTransceivers :
         /\ enabledTransceivers[k] = t
         /\ \A j \in 1..(k - 1) : enabledTransceivers[j] # t
         /\ enabledTransceivers' = SwapPop(enabledTransceivers, k)
    /\ threshold' = IF numTransceivers'.enabled < threshold
                    THEN numTransceivers'.enabled ELSE threshold
    /\ ThresholdAllowed(numTransceivers', threshold')
    /\ UNCHANGED registeredTransceivers

SetThreshold(n) ==
    /\ n # 0
    /\ threshold' = n
    /\ ThresholdAllowed(numTransceivers, n)
    /\ UNCHANGED <<transceiverInfos, registeredTransceivers, enabledTransceivers,
                   enabledTransceiverBitmap, numTransceivers>>

Next ==
    \/ \E t \in Transceivers : SetTransceiver(t)
    \/ \E t \in Transceivers : RemoveTransceiver(t)
    \/ \E n \in 0..(MaxTransceivers + 1) : SetThreshold(n)

Spec == Init /\ [][Next]_vars

--------------------------------------------------------------------------------

Registered == {t \in Transceivers : transceiverInfos[t].registered}
Enabled == {t \in Transceivers : transceiverInfos[t].enabled}

(* Slots and registered transceivers are in one-to-one correspondence: slot i
   belongs to the i-th registered transceiver, slots have no gap, an address that
   is not registered has the default record, and every slot fits the bitmap.
   TransceiverRegistry.sol:32-35 and the asserts at 289-292 and 316. *)
SlotsInv ==
    /\ numTransceivers.registered = Len(registeredTransceivers)
    /\ Len(registeredTransceivers) <= MaxTransceivers
    /\ \A i \in DOMAIN registeredTransceivers :
         /\ transceiverInfos[registeredTransceivers[i]].registered
         /\ transceiverInfos[registeredTransceivers[i]].index = i - 1
    /\ \A t \in Registered :
         /\ transceiverInfos[t].index < Len(registeredTransceivers)
         /\ registeredTransceivers[transceiverInfos[t].index + 1] = t
    /\ \A t \in Transceivers \ Registered :
         ~transceiverInfos[t].enabled /\ transceiverInfos[t].index = 0

(* The array of enabled transceivers lists each enabled transceiver once, and the
   counter is its length.  TransceiverRegistry.sol:263-274, 308-314. *)
EnabledListInv ==
    /\ numTransceivers.enabled = Len(enabledTransceivers)
    /\ \A t \in Transceivers :
         transceiverInfos[t].enabled <=>
            \E i \in DOMAIN enabledTransceivers : enabledTransceivers[i] = t
    /\ \A i, j \in DOMAIN enabledTransceivers :
         enabledTransceivers[i] = enabledTransceivers[j] => i = j

(* The bitmap holds exactly the slots of the enabled transceivers, so counting
   attestation bits under it counts enabled transceivers.
   TransceiverRegistry.sol:26-28, 310-311. *)
BitmapInv ==
    enabledTransceiverBitmap = {transceiverInfos[t].index : t \in Enabled}

(* INV-024 and INV-025: once a transceiver is registered, at least one stays
   enabled and the threshold is reachable and positive, whatever order the owner
   adds, removes, re-enables and sets thresholds in. *)
ThresholdInv ==
    /\ threshold <= numTransceivers.enabled
    /\ numTransceivers.registered > 0 => threshold > 0

(* The pieces of storage agree after any sequence of calls: the self-checks of
   _checkTransceiversInvariants (TransceiverRegistry.sol:256-320) never fail. *)
RegistryInv ==
    /\ TypeOK
    /\ SlotsInv
    /\ EnabledListInv
    /\ BitmapInv
    /\ ThresholdInv

(* INV-023, INV-026, INV-027: no step ever forgets a transceiver or moves it to
   another slot, and the number of slots never goes down.  A stored attestation
   bit therefore means the same transceiver for ever. *)
SlotsNeverReassigned ==
    [][/\ numTransceivers'.registered \in {numTransceivers.registered,
                                           numTransceivers.registered + 1}
       /\ \A t \in Registered :
            /\ transceiverInfos'[t].registered
            /\ transceiverInfos'[t].index = transceiverInfos[t].index]_vars

(* The abstract registry this one implements. *)
Abstract == INSTANCE TransceiverSet WITH registered <- Registered, enabled <- Enabled

(* The contract's arrays, slots and bitmap implement the set view the rest of the
   manager relies on. *)
ImplementsTransceiverSet == Abstract!Spec

================================================================================
