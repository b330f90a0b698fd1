---------------------------- MODULE OfflineSalesMC ----------------------------
(* Instances of OfflineSales for TLC. *)
EXTENDS OfflineSales

CONSTANTS c1, c2, t1
=============================================================================
