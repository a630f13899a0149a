-------------------------- MODULE WormholeTransceiver --------------------------
(***************************************************************************)
(* The Wormhole transceivers of one manager, each with the peer it accepts *)
(* messages from on every other chain and the signed messages (VAAs) it    *)
(* has consumed.  Anyone may present any VAA the guardians signed, as      *)
(* often as they like, to any transceiver.                                 *)
(***************************************************************************)
EXTENDS Naturals

CONSTANTS
    Transceivers,
    Chains,         \* the other chains
    Emitters,       \* addresses that publish Wormhole messages
    NoEmitter,      \* the zero address
    ThisManager,    \* the manager these transceivers serve
    VAAs            \* [emitterChain, emitter, sourceManager, recipientManager, message]

VARIABLES
    wormholePeers,  \* transceiver -> chain -> emitter
    consumedVAAs    \* transceiver -> VAAs

TypeOK ==
    /\ wormholePeers \in [Transceivers -> [Chains -> Emitters \cup {NoEmitter}]]
    /\ consumedVAAs \in [Transceivers -> SUBSET VAAs]

\* Plausible slips in the code, each refuted by a property of NttBridge.
IsPeer_AnyEmitter(t, vaa) == wormholePeers[t][vaa.emitterChain] # NoEmitter
Consume_NotSaved(t, vaa) ==
    /\ vaa \notin consumedVAAs[t]
    /\ UNCHANGED consumedVAAs

(* _verifyBridgeVM: no peer is the zero address, which no VAA comes from. *)
IsPeer(t, vaa) == wormholePeers[t][vaa.emitterChain] = vaa.emitter

ConsumeVAA(t, vaa) ==
    /\ vaa \notin consumedVAAs[t]
    /\ consumedVAAs' = [consumedVAAs EXCEPT ![t] = @ \cup {vaa}]

(* setWormholePeer, by the owner: once for each chain. *)
SetWormholePeer(t, chain, emitter) ==
    /\ wormholePeers[t][chain] = NoEmitter
    /\ wormholePeers' = [wormholePeers EXCEPT ![t][chain] = emitter]
    /\ UNCHANGED consumedVAAs

(* receiveMessage up to the call of the manager's attestationReceived; when that
   call reverts, so does this. *)
ReceiveMessage(t, vaa) ==
    /\ IsPeer(t, vaa)
    /\ ConsumeVAA(t, vaa)
    /\ vaa.recipientManager = ThisManager
    /\ UNCHANGED wormholePeers

================================================================================
