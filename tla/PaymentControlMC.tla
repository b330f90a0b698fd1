--------------------------- MODULE PaymentControlMC ---------------------------
(* Instances of PaymentControl for TLC. *)
EXTENDS PaymentControl, TLC

CONSTANTS o1, r1, r2, w1, w2, clerk, manager, owner, cash, card, wallet

\* The card is settled through another channel, the wallet through the same.
Classes == [m \in Methods |-> IF m = card THEN "bank" ELSE "drawer"]

\* A sale of two pounds.
TwoPounds == [o \in Orders |-> 2]

Symmetries == Permutations(Workers) \cup Permutations(Requests)
===============================================================================
