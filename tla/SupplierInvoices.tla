--------------------------- MODULE SupplierInvoices ---------------------------
(***************************************************************************)
(* Supplier invoices and their payments.  An approval locks the invoice; a *)
(* payment and a cancellation read it without.                             *)
(***************************************************************************)
EXTENDS StockLedger

CONSTANTS Invoices,
          Invoiced  \* total of an invoice; one in Journaled has a variance

ASSUME InvoicesAssumption ==
  /\ Invoices \subseteq Documents
  /\ Invoiced \in [Invoices -> Nat]

Undecided == {"MATCHED", "VARIANCE_PENDING"}

Payable == {"APPROVED", "PARTIALLY_PAID"}

\* lockRow; an approved invoice is answered and no more.
Approve(w, v) ==
  /\ Open(w, v) /\ Unlocked(v)
  /\ row[v].status \in Undecided
  /\ cmd' = [cmd EXCEPT ![w] = Opened("approveInvoice", "moving", v, 0, <<>>, FALSE, NoDocument, {v})]
  /\ UNCHANGED <<live, stock, papers>>

\* The journal of the variance, whose id the invoice keeps.
Approved(w) ==
  LET variance == OneIf(cmd[w].doc \in Journaled) IN
  /\ Ready(w, "approveInvoice")
  /\ Save(w, Row("APPROVED", row[cmd[w].doc].qty, variance))
  /\ Posted(cmd[w].doc, variance)
  /\ Settle(w)
  /\ UNCHANGED consumed

\* Only an invoice without payments.
CancelInvoice(w, v) ==
  /\ Open(w, v)
  /\ row[v].status \in Undecided \cup {"APPROVED"}
  /\ row[v].qty = 0
  /\ cmd' = [cmd EXCEPT ![w] = Opened("cancelInvoice", "moving", v, 0, <<>>, FALSE, NoDocument, {})]
  /\ UNCHANGED <<live, stock, papers>>

\* The entry that the invoice names is reversed, unless it has been already.
InvoiceCancelled(w) ==
  LET v == cmd[w].doc IN
  /\ Ready(w, "cancelInvoice")
  /\ cmd[w].seen.got <= entries[v]
  /\ Save(w, Row("CANCELLED", row[v].qty, cmd[w].seen.got))
  /\ Posted(v, -cmd[w].seen.got)
  /\ Settle(w)
  /\ UNCHANGED consumed

\* JournalEntryAlreadyReversedError.
AlreadyReversed(w) ==
  /\ Ready(w, "cancelInvoice")
  /\ cmd[w].seen.got > entries[cmd[w].doc]
  /\ Rollback(w)

\* Mutant of Pay: the payments made before are forgotten.
PayAny(w, v) ==
  /\ Open(w, v)
  /\ row[v].status \in Payable
  /\ \E q \in 1..MaxQuantity :
       /\ q <= Invoiced[v]
       /\ cmd' = [cmd EXCEPT ![w] = Opened("pay", "moving", v, q, <<>>, FALSE, NoDocument, {})]
  /\ UNCHANGED <<live, stock, papers>>

Pay(w, v) ==
  /\ Open(w, v)
  /\ row[v].status \in Payable
  /\ \E q \in 1..MaxQuantity :
       /\ row[v].qty + q <= Invoiced[v]
       /\ cmd' = [cmd EXCEPT ![w] = Opened("pay", "moving", v, q, <<>>, FALSE, NoDocument, {})]
  /\ UNCHANGED <<live, stock, papers>>

\* The payment with its own entry; the payments are added up again for the status.
Paid(w) ==
  LET v == cmd[w].doc
      paid == row[v].qty + cmd[w].qty IN
  /\ Ready(w, "pay")
  /\ Save(w, Row(IF paid >= Invoiced[v] THEN "PAID" ELSE "PARTIALLY_PAID", paid,
                 cmd[w].seen.got))
  /\ Settle(w)
  /\ UNCHANGED <<entries, consumed>>

InvoiceBegin(w) ==
  \E v \in Invoices : Approve(w, v) \/ CancelInvoice(w, v) \/ Pay(w, v)

InvoiceStep(w) == Approved(w) \/ InvoiceCancelled(w) \/ AlreadyReversed(w) \/ Paid(w)

=============================================================================
