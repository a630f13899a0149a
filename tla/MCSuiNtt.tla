-------------------------------- MODULE MCSuiNtt --------------------------------
(* The manager with a peer on one chain and two messages that disagree under one id. *)
EXTENDS SuiNtt

CONSTANTS chainS, chainB

Message(amount) == [source |-> chainB, sequence |-> 0, amount |-> amount, toChain |-> chainS]

MCMessages == {Message(1), Message(2)}
================================================================================
