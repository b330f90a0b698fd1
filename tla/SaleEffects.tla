----------------------------- MODULE SaleEffects -----------------------------
(***************************************************************************)
(* What the orders context promises about the stock, whatever happens to   *)
(* its commands: an order takes its portion out of the branch once, and    *)
(* its cancellation puts the same portion back once.                       *)
(***************************************************************************)
EXTENDS Integers

CONSTANTS Orders, Items, Opening, Portions

VARIABLES effect,   \* what the order has done to the stock so far
          portion,  \* what it took
          stock     \* what the branch holds

saleVars == <<effect, portion, stock>>

SaleInit ==
  /\ effect = [o \in Orders |-> "none"]
  /\ portion = [o \in Orders |-> [i \in Items |-> 0]]
  /\ stock = Opening

Sell(o) ==
  \E p \in Portions :
    /\ effect[o] = "none"
    /\ effect' = [effect EXCEPT ![o] = "sold"]
    /\ portion' = [portion EXCEPT ![o] = p]
    /\ stock' = [i \in Items |-> stock[i] - p[i]]

Undo(o) ==
  /\ effect[o] = "sold"
  /\ effect' = [effect EXCEPT ![o] = "undone"]
  /\ stock' = [i \in Items |-> stock[i] + portion[o][i]]
  /\ UNCHANGED portion

SaleNext == \E o \in Orders : Sell(o) \/ Undo(o)

SaleSpec == SaleInit /\ [][SaleNext]_saleVars
=============================================================================
