------------------------------ MODULE MCNttManager ------------------------------
(* One manager and everything that can call it.  Two messages of another chain   *)
(* are presented, by transceivers of which none is enabled at first, and by the  *)
(* one manager there, which is no peer until the owner sets it.                  *)
EXTENDS NttManager

CONSTANTS chainA, chainB, alice

MCMessages ==
    {[source |-> chainB, sequence |-> n - 1, sender |-> alice, amount |-> n,
      recipient |-> alice, toChain |-> chainA] : n \in {1, 2}}

MCStartBalances == [u \in Users |-> 3]
================================================================================
