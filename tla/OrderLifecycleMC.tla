--------------------------- MODULE OrderLifecycleMC ---------------------------
(* Instances of OrderLifecycle for TLC. *)
EXTENDS OrderLifecycle, TLC

CONSTANTS o1, o2, w1, w2, dough, k1

\* Two versions of the dish, the second takes more of its ingredient.
TwoRecipes == {[i \in Items |-> 1], [i \in Items |-> 2]}

\* Two portions only, of a stock that is one short.
OneRecipe == {[i \in Items |-> 2]}
OneUnit   == [i \in Items |-> 1]
ThreeUnits == [i \in Items |-> 3]

\* A stocktake, or a return, takes two units and may be made good again.
TwoOrNone == {-2, 0}

WorkerSymmetry == Permutations(Workers)
=============================================================================
