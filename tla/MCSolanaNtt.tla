------------------------------ MODULE MCSolanaNtt ------------------------------
(* The program with a peer on one chain.  MCMessages disagree: two contents under  *)
(* one id, as a faulty transceiver would present.                                  *)
EXTENDS SolanaNtt

CONSTANTS chainS, chainB, alice

Message(id, amount) ==
    [source |-> chainB, sequence |-> id, amount |-> amount, recipient |-> alice,
     toChain |-> chainS]

MCMessages == {Message(0, 1), Message(0, 2)}

MCStartBalances == [u \in Users |-> 2]
================================================================================
