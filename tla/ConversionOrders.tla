--------------------------- MODULE ConversionOrders ---------------------------
(***************************************************************************)
(* Production: a conversion order takes the items of its recipe out of the *)
(* stock when it starts and puts one item in when it is completed.  Every  *)
(* command locks the order first and checks its status before it moves     *)
(* anything.  The unique index of their movements is a second defence      *)
(* that never has to refuse one.                                           *)
(***************************************************************************)
EXTENDS StockLedger

CONSTANTS Conversions,
          Sorted,  \* the input lines in the order of their items' ids
          Output   \* the item a conversion makes

ASSUME ConversionsAssumption ==
  /\ Conversions \subseteq Documents
  /\ Sorted \in [Conversions -> Seq(Items)]
  /\ \A c \in Conversions : Range(Sorted[c]) = ItemsOf(c)
  /\ \A c \in Conversions :
       \A m, n \in 1..Len(Sorted[c]) : Sorted[c][m] = Sorted[c][n] => m = n
  /\ Output \in [Conversions -> Items]

\* lockRow, findById and the check of the status; then the lines to move.
BeginConversion(w, c, op, from, qty, items, noCheck) ==
  /\ Open(w, c) /\ Unlocked(c)
  /\ row[c].status \in from
  /\ cmd' = [cmd EXCEPT ![w] = Opened(op, "moving", c, qty, items, noCheck, NoDocument, {c})]
  /\ UNCHANGED <<live, stock, papers>>

RegisterConversion(w, c) ==
  /\ New(c)
  /\ Revise(w, c, "registerConversion", {"none"})

ApproveConversion(w, c) ==
  BeginConversion(w, c, "approveConversion", {"DRAFT"}, 0, <<>>, FALSE)

\* Mutant of Start: the order is read without a lock.
StartUnlocked(w, c) ==
  /\ Open(w, c)
  /\ row[c].status = "APPROVED"
  /\ \E q \in 1..MaxQuantity, approved \in BOOLEAN :
       cmd' = [cmd EXCEPT ![w] =
                 Opened("start", "moving", c, -q, Sorted[c], approved, NoDocument, {})]
  /\ UNCHANGED <<live, stock, papers>>

\* The ingredients, planned or as reported, in the order of their ids.
Start(w, c) ==
  \E q \in 1..MaxQuantity, approved \in BOOLEAN :
    BeginConversion(w, c, "start", {"APPROVED"}, -q, Sorted[c], approved)

Started(w) ==
  /\ Ready(w, "start")
  /\ Save(w, Row("IN_PROGRESS", -cmd[w].qty, 0))
  /\ Settle(w)
  /\ UNCHANGED <<entries, consumed>>

\* What was made; a variance only calls for a reason.
CompleteConversion(w, c) ==
  \E q \in 1..MaxQuantity :
    BeginConversion(w, c, "complete", {"IN_PROGRESS"}, q, <<Output[c]>>, TRUE)

Completed(w) ==
  /\ Ready(w, "complete")
  /\ row' = [d \in Documents |->
       IF d = cmd[w].doc THEN Row("COMPLETED", cmd[w].seen.qty, cmd[w].qty)
       ELSE IF Stored(w, d) THEN NewBatch(w)
       ELSE row[d]]
  /\ Posted(cmd[w].doc, OneIf(cmd[w].doc \in Journaled))
  /\ Settle(w)
  /\ UNCHANGED <<stale, consumed>>

\* What an order in progress took goes back, in the order of its lines.
CancelConversion(w, c) ==
  \/ BeginConversion(w, c, "cancelConversion", {"DRAFT", "APPROVED"}, 0, <<>>, FALSE)
  \/ BeginConversion(w, c, "cancelConversion", {"IN_PROGRESS"}, row[c].qty, Lines[c], TRUE)

ConversionBegin(w) ==
  \E c \in Conversions :
    \/ RegisterConversion(w, c) \/ ApproveConversion(w, c)
    \/ Start(w, c) \/ CompleteConversion(w, c) \/ CancelConversion(w, c)

ConversionStep(w) ==
  \/ Revised(w, "registerConversion", "DRAFT")
  \/ Revised(w, "approveConversion", "APPROVED")
  \/ Revised(w, "cancelConversion", "CANCELLED")
  \/ Started(w) \/ Completed(w)

=============================================================================
