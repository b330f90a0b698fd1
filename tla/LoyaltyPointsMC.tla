---------------------------- MODULE LoyaltyPointsMC ----------------------------
(* Instances of LoyaltyPoints for TLC. *)
EXTENDS LoyaltyPoints, TLC

CONSTANTS o1, o2, ann, w1, w2

\* One customer places all orders; an order earns one point.
OneOwner == [o \in Orders |-> ann]
OnePoint == [o \in Orders |-> 1]

\* Enough for one reward.
OneReward == [c \in Customers |-> 1]

Symmetries == Permutations(Workers)
===============================================================================
