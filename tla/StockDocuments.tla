---------------------------- MODULE StockDocuments ----------------------------
(***************************************************************************)
(* The documents of inventory, procurement, production, cash purchases,    *)
(* expenses and WhatsApp together, over one stock.                         *)
(***************************************************************************)
EXTENDS StockTransfers, GoodsReceipts, SupplierInvoices, ConversionOrders, CashPurchases,
        Expenses, PendingOrders

\* A document is of one kind, and its batches come with a receipt or a conversion.
ASSUME KindsAssumption ==
  /\ Transfers \cap (Stocktakes \cup Adjustments) = {}
  /\ Stocktakes \cap Adjustments = {}
  /\ (Transfers \cup Stocktakes \cup Adjustments) \cap
       (Orders \cup Receipts \cup Returns \cup Batches \cup Invoices \cup Conversions
         \cup Purchases \cup Expenses \cup PendingOrders) = {}
  /\ (Orders \cup Receipts \cup Returns \cup Batches) \cap
       (Invoices \cup Conversions \cup Purchases \cup Expenses \cup PendingOrders) = {}
  /\ Orders \cap (Receipts \cup Returns \cup Batches) = {}
  /\ Receipts \cap (Returns \cup Batches) = {}
  /\ Returns \cap Batches = {}
  /\ Invoices \cap (Conversions \cup Purchases \cup Expenses \cup PendingOrders) = {}
  /\ Conversions \cap (Purchases \cup Expenses \cup PendingOrders) = {}
  /\ Purchases \cap (Expenses \cup PendingOrders) = {}
  /\ Expenses \cap PendingOrders = {}
  /\ SourceOf \in [Batches -> Receipts \cup Conversions]

Ops ==
  {"none", "approve", "reject", "cancel", "dispatch", "receive", "count", "adjust",
   "send", "cancelOrder", "register", "confirm", "writeOff", "expire", "post", "cancelReturn",
   "approveInvoice", "cancelInvoice", "pay", "registerConversion", "approveConversion",
   "start", "complete", "cancelConversion", "note", "buy", "rejectPurchase", "editExpense",
   "reviewExpense", "submitExpense", "cancelExpense", "confirmPending", "confirmed",
   "rejectPending"}

Commands ==
  [op : Ops, stage : {"idle", "locking", "counting", "moving", "saving"},
   doc : Documents \cup {NoDocument}, seen : Rows, qty : Int, items : Seq(Items), line : Nat,
   waived : BOOLEAN, wants : Documents \cup {NoDocument}, locked : SUBSET Documents,
   held : SUBSET Keys, wrote : [Keys -> Int], moves : [Keys -> Int],
   system : [Items -> Int]]

TypeOK ==
  /\ live \in Scenarios
  /\ balance \in [Keys -> Int]
  /\ total \in [Keys -> Int]
  /\ moved \in [Documents -> [Keys -> Int]]
  /\ row \in [Documents -> Rows]
  /\ stale \subseteq live
  /\ entries \in [Documents -> Int]
  /\ consumed \in [Documents -> Nat]
  /\ cmd \in [Workers -> Commands]
  /\ \A w \in Workers : cmd[w].stage = "idle" <=> cmd[w] = NoCommand

\* Before anyone has worked on it.
Blank(d) ==
  IF d \in Transfers THEN Row("SUBMITTED", 0, 0)
  ELSE IF d \in Orders THEN Row("DRAFT", 0, 0)
  ELSE IF d \in Returns THEN Row("DRAFT", Returned[d], 0)
  ELSE IF d \in Invoices THEN Row(IF d \in Journaled THEN "VARIANCE_PENDING" ELSE "MATCHED", 0, 0)
  ELSE Row("none", 0, 0)

Init ==
  /\ live \in Scenarios
  /\ balance = [k \in Keys |-> Opening]
  /\ total = [k \in Keys |-> Opening]
  /\ moved = [d \in Documents |-> Zero]
  /\ row = [d \in Documents |-> Blank(d)]
  /\ stale = {}
  /\ entries = [d \in Documents |-> 0]
  /\ consumed = [d \in Documents |-> 0]
  /\ cmd = [w \in Workers |-> NoCommand]

Begin(w) ==
  \/ TransferBegin(w) \/ ReceiptBegin(w) \/ InvoiceBegin(w)
  \/ ConversionBegin(w) \/ PurchaseBegin(w) \/ ExpenseBegin(w) \/ PendingBegin(w)

Step(w) ==
  \/ MoveLine(w) \/ SkipLine(w) \/ Short(w)
  \/ TransferStep(w) \/ ReceiptStep(w) \/ InvoiceStep(w)
  \/ ConversionStep(w) \/ PurchaseStep(w) \/ ExpenseStep(w) \/ PendingStep(w)

Next == \E w \in Workers : Begin(w) \/ Step(w) \/ Victim(w) \/ Fail(w) \/ CutOff(w)

Spec == Init /\ [][Next]_vars

\* A request goes on, lock after lock, and a deadlock is detected.
Fairness == \A w \in Workers : SF_vars(Step(w)) /\ WF_vars(Victim(w))

FairSpec == Spec /\ Fairness

-----------------------------------------------------------------------------
(* Properties.                                                              *)

\* stock-movement.aggregate.ts: every balance is exactly the sum of its movements,
\* however many documents move it at once.
BalanceIsSumOfMovements == \A k \in Keys : balance[k] = total[k]

Lists(d, k, b) == k[1] = b /\ k[2] \in ItemsOf(d)

Left(t, k) ==
  IF Lists(t, k, At[t]) /\ row[t].status \in {"DISPATCHED", "RECEIVED"} THEN row[t].qty ELSE 0

Arrived(t, k) ==
  IF Lists(t, k, Destination[t]) /\ row[t].status = "RECEIVED" THEN row[t].got ELSE 0

\* dispatch and receive write the movements before they look at the status: a
\* transfer nevertheless moved what it says, once out and once in, and nothing if
\* it was refused, rejected or cancelled.  Except for one that was saved over a
\* row that somebody else had changed.
TransferMovesWhatItSays ==
  \A t \in Transfers \ stale : \A k \in Keys : moved[t][k] = Arrived(t, k) - Left(t, k)

\* A document is in the stock and in the journal once, if it is done, and not before.
MovesOnce(d, done, sign) ==
  /\ entries[d] = OneIf(done /\ d \in Journaled)
  /\ \A k \in Keys :
       moved[d][k] = IF done /\ Lists(d, k, At[d]) THEN sign * row[d].qty ELSE 0

\* confirm-goods-receipt: stock and journal have a receipt once, if it is confirmed
\* and not before, also when it is confirmed twice at the same time.
ReceiptIsStockedOnce == \A r \in Receipts : MovesOnce(r, row[r].status = "CONFIRMED", 1)

\* post-purchase-return, confirm-purchase, review-expense, confirm-pending-order: the
\* same for goods that go back, what was bought for cash, expenses, and orders that came
\* in by WhatsApp, unless a command that reads the document without a lock (another
\* posting or confirmation, a cancellation, an edit, a rejection) read it before the
\* change, or the confirmation was cut off before it had saved the pending order.
UnlockedDocumentsCountOnce ==
  /\ \A p \in Returns \ stale : MovesOnce(p, row[p].status = "POSTED", -1)
  /\ \A u \in Purchases \ stale : MovesOnce(u, row[u].status = "CONFIRMED", 1)
  /\ \A x \in Expenses \ stale : MovesOnce(x, row[x].status = "POSTED", 0)
  /\ \A g \in PendingOrders \ stale :
       MovesOnce(g, row[g].status = "CONFIRMED" \/ \E w \in Workers : Saving(w, g), -1)

\* BL-03, start, complete and cancel of a conversion order: whoever starts, completes
\* or cancels it at the same time, the stock lacks its ingredients once from the start
\* on, has its product once when it is complete, and is as before when it is cancelled.
ConversionTakesAndMakesOnce ==
  \A c \in Conversions :
    /\ entries[c] = OneIf(row[c].status = "COMPLETED" /\ c \in Journaled)
    /\ \A k \in Keys :
         moved[c][k] =
           (IF row[c].status = "COMPLETED" /\ k = <<At[c], Output[c]>> THEN row[c].got ELSE 0)
           - (IF row[c].status \in {"IN_PROGRESS", "COMPLETED"} /\ Lists(c, k, At[c])
              THEN row[c].qty ELSE 0)

\* receipt-quantity-guard.ts: no item of an order is received beyond what was
\* ordered, over all its receipts and whoever confirms them.
ReceivedWithinOrdered ==
  \A o \in Orders : \A i \in ItemsOf(o) : ReceivedBy(o, i, Receipts) <= Ordered[o]

AllReceived(o) == \A i \in ItemsOf(o) : ReceivedBy(o, i, Receipts) >= Ordered[o]

Begun(o) == \E i \in ItemsOf(o) : ReceivedBy(o, i, Receipts) > 0

\* purchase-order.aggregate.ts: the status of an order is that of its receipts.  An
\* order that was cancelled is not looked at again, and one that was saved over
\* another's change may show too little, never too much.
OrderShowsReceipts ==
  \A o \in Orders :
    /\ row[o].status = "RECEIVED" => AllReceived(o)
    /\ row[o].status = "PARTIALLY_RECEIVED" => Begun(o)
    /\ o \notin stale /\ row[o].status \in {"DRAFT", "SENT"} => ~Begun(o)
    /\ o \notin stale /\ row[o].status = "PARTIALLY_RECEIVED" => ~AllReceived(o)

BatchSize(b) ==
  IF SourceOf[b] \in Conversions THEN row[SourceOf[b]].got ELSE row[SourceOf[b]].qty

\* inventory-batch.aggregate.ts: a batch is there with its receipt or conversion, and
\* what came in is what remains of it and what was written off; unless two write-offs
\* read it together.
BatchIsAccountedFor ==
  \A b \in Batches :
    /\ row[b].status = "none" <=> row[SourceOf[b]].status \notin {"CONFIRMED", "COMPLETED"}
    /\ b \notin stale /\ row[b].status # "none" =>
         row[b].qty >= 0 /\ row[b].qty + consumed[b] = BatchSize(b)

\* register-supplier-payment, cancel-supplier-invoice: an invoice is not paid beyond
\* its total, one of nothing but free goods is never paid, a cancelled one is not paid
\* at all, and its variance is in the journal from the approval to the cancellation;
\* unless two commands read it together.
InvoiceIsSettled ==
  \A v \in Invoices \ stale :
    /\ row[v].qty <= Invoiced[v]
    /\ row[v].status = "PAID" <=> row[v].qty > 0 /\ row[v].qty = Invoiced[v]
    /\ row[v].qty > 0 => row[v].status \in {"PARTIALLY_PAID", "PAID"}
    /\ entries[v] = OneIf(v \in Journaled /\ row[v].status \in Payable \cup {"PAID"})

\* Every command ends: whatever locks it waits for are given back, and commands
\* that wait for each other are told apart by the database.
EveryCommandEnds == \A w \in Workers : cmd[w].stage # "idle" ~> cmd[w].stage = "idle"

=============================================================================
