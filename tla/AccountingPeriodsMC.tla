------------------------- MODULE AccountingPeriodsMC -------------------------
(* Instances of AccountingPeriods for TLC. *)
EXTENDS AccountingPeriods, TLC

CONSTANTS w1, w2, m1, a1

WorkerSymmetry == Permutations(Workers)
=============================================================================
