--------------------------- MODULE InboundTransfers ---------------------------
(***************************************************************************)
(* What a manager promises of the messages that arrive, whichever chain    *)
(* the manager is on: transceivers vote for a message, it leaves           *)
(* NotApproved in the same step as the vote that makes the quorum (or      *)
(* later, if a change of the registry made it), and it is paid once, at    *)
(* once or after it has been queued.  The quorum counts the transceivers   *)
(* enabled at that time.  Votes and status never go back, and a step for   *)
(* one message leaves all others alone.                                    *)
(***************************************************************************)
EXTENDS Integers, FiniteSets

CONSTANTS
    Transceivers,
    Messages,
    VotesOfDisabled   \* whether transceivers that are not enabled may vote

VARIABLES
    votes,      \* message -> transceivers that attested to it
    status,     \* message -> "NotApproved", "Queued" or "Paid"
    enabled,    \* transceivers enabled now
    threshold

vars == <<votes, status, enabled, threshold>>

TypeOK ==
    /\ votes \in [Messages -> SUBSET Transceivers]
    /\ status \in [Messages -> {"NotApproved", "Queued", "Paid"}]
    /\ enabled \subseteq Transceivers
    /\ threshold \in Nat

Init ==
    /\ votes = [m \in Messages |-> {}]
    /\ status = [m \in Messages |-> "NotApproved"]
    /\ enabled \subseteq Transceivers
    /\ threshold \in Nat

Quorum(voters) == Cardinality(voters \cap enabled) >= threshold

Executed == {"Queued", "Paid"}

(* A transaction that votes may go on to complete what was queued before. *)
Vote(m, t) ==
    /\ t \in enabled \/ VotesOfDisabled
    /\ votes' = [votes EXCEPT ![m] = @ \cup {t}]
    /\ \/ UNCHANGED status
       \/ /\ status[m] = "NotApproved"
          /\ Quorum(votes'[m])
          /\ \E s \in Executed : status' = [status EXCEPT ![m] = s]
       \/ /\ status[m] = "Queued"
          /\ status' = [status EXCEPT ![m] = "Paid"]
    /\ UNCHANGED <<enabled, threshold>>

Execute(m) ==
    /\ status[m] = "NotApproved"
    /\ Quorum(votes[m])
    /\ \E s \in Executed : status' = [status EXCEPT ![m] = s]
    /\ UNCHANGED <<votes, enabled, threshold>>

Complete(m) ==
    /\ status[m] = "Queued"
    /\ status' = [status EXCEPT ![m] = "Paid"]
    /\ UNCHANGED <<votes, enabled, threshold>>

Administer ==
    /\ enabled' \subseteq Transceivers
    /\ threshold' \in Nat
    /\ UNCHANGED <<votes, status>>

Next ==
    \/ \E m \in Messages, t \in Transceivers : Vote(m, t)
    \/ \E m \in Messages : Execute(m) \/ Complete(m)
    \/ Administer

Spec == Init /\ [][Next]_vars

================================================================================
