------------------------------ MODULE MCNttBridge ------------------------------
(* A bridge with one user on each chain, and a contract on the locking chain that *)
(* is nobody's transceiver and publishes what looks like the bridge's first       *)
(* message.                                                                       *)
EXTENDS NttBridge

CONSTANTS chainA, chainB, managerA, managerB, alice, stray

MCStartBalances == [u \in Users |-> 3]

MCForeignVAAs ==
    {[emitterChain |-> chainA, emitter |-> stray, sourceManager |-> managerA,
      recipientManager |-> managerB,
      message |-> [source |-> chainA, sequence |-> 0, sender |-> alice, amount |-> 1,
                   recipient |-> alice, toChain |-> chainB]]}
================================================================================
