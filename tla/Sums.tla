--------------------------------- MODULE Sums ---------------------------------
(* Sums of amounts, for the properties that compare what was taken with what was
   given. *)
EXTENDS Functions

(* The amounts of a set of messages, queue entries or items. *)
SumOfAmounts(S) == SumFunction([x \in S |-> x.amount])

================================================================================
