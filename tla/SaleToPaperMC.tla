---------------------------- MODULE SaleToPaperMC ----------------------------
(* Instances of SaleToPaper for TLC. *)
EXTENDS SaleToPaper

CONSTANTS c1, a1, a2

Papers == Ids \X (Automatic \cup OnDemand)
=============================================================================
