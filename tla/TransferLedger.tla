----------------------------- MODULE TransferLedger -----------------------------
(***************************************************************************)
(* What a pair of NTT managers promises to its users: a transfer takes the *)
(* amount out of the sender's wallet on one chain, is pending, and then    *)
(* either reaches the recipient's wallet on the other chain or comes back  *)
(* to the sender, once.  How tokens are locked, burned and minted, which   *)
(* transceivers attest and where a transfer waits is in NttBridge, which   *)
(* implements this specification.                                          *)
(***************************************************************************)
EXTENDS Integers

CONSTANTS
    Transfers,      \* [source, sequence, sender, amount, recipient, toChain]
    StartWallets    \* chain -> user -> tokens

VARIABLES
    wallets,        \* chain -> user -> tokens
    pending         \* transfers taken and not settled

ledgerVars == <<wallets, pending>>

Credit(chain, user, amount) ==
    wallets' = [wallets EXCEPT ![chain][user] = @ + amount]

Init ==
    /\ wallets = StartWallets
    /\ pending = {}

Start(tr) ==
    /\ tr \notin pending
    /\ wallets[tr.source][tr.sender] >= tr.amount
    /\ Credit(tr.source, tr.sender, -tr.amount)
    /\ pending' = pending \cup {tr}

Pay(tr) ==
    /\ tr \in pending
    /\ Credit(tr.toChain, tr.recipient, tr.amount)
    /\ pending' = pending \ {tr}

Refund(tr) ==
    /\ tr \in pending
    /\ Credit(tr.source, tr.sender, tr.amount)
    /\ pending' = pending \ {tr}

Next == \E tr \in Transfers : Start(tr) \/ Pay(tr) \/ Refund(tr)

Spec == Init /\ [][Next]_ledgerVars
================================================================================
