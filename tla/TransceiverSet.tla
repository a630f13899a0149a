---------------------------- MODULE TransceiverSet ----------------------------
(***************************************************************************)
(* What the transceiver registry of an EVM NTT manager promises: a set of  *)
(* registered transceivers that only grows, the enabled ones among them,   *)
(* and the number of enabled transceivers that must attest to a message    *)
(* before the manager executes it.  The slots of the enabled bitmap, the   *)
(* two arrays and the counters by which the contract keeps this are in     *)
(* TransceiverRegistry, which implements this specification.               *)
(***************************************************************************)
EXTENDS Integers, FiniteSets

CONSTANTS
    Transceivers,     \* the addresses that can be registered
    MaxTransceivers   \* MAX_TRANSCEIVERS: 64 in the contract

VARIABLES
    registered,       \* the transceivers that have ever been registered
    enabled,          \* those whose messages and attestations count
    threshold         \* attestations a message needs

regVars == <<registered, enabled, threshold>>

Init ==
    /\ registered = {}
    /\ enabled = {}
    /\ threshold = 0

(* The owner registers a transceiver, or enables again one it removed.  The
   threshold moves only from its initial 0 to 1. *)
SetTransceiver(t) ==
    /\ t \notin enabled
    /\ t \in registered \/ Cardinality(registered) < MaxTransceivers
    /\ registered' = registered \cup {t}
    /\ enabled' = enabled \cup {t}
    /\ threshold' = IF threshold = 0 THEN 1 ELSE threshold

\* A plausible slip, refuted in NttManager.
RemoveTransceiver_KeepThreshold(t) ==
    /\ t \in enabled
    /\ enabled # {t}
    /\ enabled' = enabled \ {t}
    /\ UNCHANGED <<registered, threshold>>

(* The owner disables a transceiver, never the last one.  The threshold follows
   the number of enabled transceivers down. *)
RemoveTransceiver(t) ==
    /\ t \in enabled
    /\ enabled # {t}
    /\ enabled' = enabled \ {t}
    /\ threshold' = IF Cardinality(enabled \ {t}) < threshold
                    THEN Cardinality(enabled \ {t}) ELSE threshold
    /\ UNCHANGED registered

SetThreshold(n) ==
    /\ n \in 1..Cardinality(enabled)
    /\ threshold' = n
    /\ UNCHANGED <<registered, enabled>>

Next ==
    \/ \E t \in Transceivers : SetTransceiver(t) \/ RemoveTransceiver(t)
    \/ \E n \in 1..MaxTransceivers : SetThreshold(n)

Spec == Init /\ [][Next]_regVars
===============================================================================
