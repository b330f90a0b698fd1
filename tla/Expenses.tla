------------------------------- MODULE Expenses -------------------------------
(***************************************************************************)
(* Expenses: registered, perhaps posted at once, submitted, edited and     *)
(* cancelled, and posted by the review.  They move no stock; every command *)
(* reads the row without a lock, and the posting is not the postOnce of    *)
(* the other documents.  Journaled are those whose accounts are there.     *)
(***************************************************************************)
EXTENDS StockLedger

CONSTANT Expenses

ASSUME ExpensesAssumption ==
  /\ Expenses \subseteq Documents
  /\ \A x \in Expenses : Lines[x] = <<>>

\* Posted at once if that was asked for and can be done, else left to the review.
RegisterExpense(w, x) ==
  /\ Open(w, x) /\ New(x)
  /\ \E q \in 1..MaxQuantity, status \in {"DRAFT", "SUBMITTED", "POSTED"} :
       /\ status = "POSTED" => x \in Journaled
       /\ row' = [row EXCEPT ![x] = Row(status, q, 0)]
       /\ Posted(x, OneIf(status = "POSTED"))
  /\ UNCHANGED <<live, stock, stale, consumed, cmd>>

EditExpense(w, x) ==
  /\ Open(w, x)
  /\ row[x].status = "SUBMITTED"
  /\ \E q \in 1..MaxQuantity :
       cmd' = [cmd EXCEPT ![w] =
                 Opened("editExpense", "moving", x, q, <<>>, FALSE, NoDocument, {})]
  /\ UNCHANGED <<live, stock, papers>>

Edited(w) ==
  /\ Ready(w, "editExpense")
  /\ Save(w, Row("SUBMITTED", cmd[w].qty, 0))
  /\ Settle(w)
  /\ UNCHANGED <<entries, consumed>>

\* Mutant of ReviewExpense: the status is not looked at before the entry is posted.
ReviewAnyExpense(w, x) ==
  x \in Journaled /\ Revise(w, x, "reviewExpense", {"DRAFT", "SUBMITTED", "POSTED", "CANCELLED"})

\* AccountNotFoundError, ExpenseNotSubmittedError.
ReviewExpense(w, x) == x \in Journaled /\ Revise(w, x, "reviewExpense", {"SUBMITTED"})

Reviewed(w) ==
  /\ Ready(w, "reviewExpense")
  /\ Save(w, Row("POSTED", cmd[w].seen.qty, 0))
  /\ Posted(cmd[w].doc, 1)
  /\ Settle(w)
  /\ UNCHANGED consumed

ExpenseBegin(w) ==
  \E x \in Expenses :
    \/ RegisterExpense(w, x) \/ EditExpense(w, x) \/ ReviewExpense(w, x)
    \/ Revise(w, x, "submitExpense", {"DRAFT"})
    \/ Revise(w, x, "cancelExpense", {"DRAFT", "SUBMITTED"})

ExpenseStep(w) ==
  \/ Edited(w) \/ Reviewed(w)
  \/ Revised(w, "submitExpense", "SUBMITTED")
  \/ Revised(w, "cancelExpense", "CANCELLED")

=============================================================================
