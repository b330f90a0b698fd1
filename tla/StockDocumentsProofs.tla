------------------------- MODULE StockDocumentsProofs -------------------------
(***************************************************************************)
(* Proofs about StockDocuments.  What a command works on and has found     *)
(* there does not change while it runs; so a document is what its commands *)
(* have made of it, one after the other, unless one was saved over         *)
(* another.                                                                *)
(***************************************************************************)
EXTENDS StockDocuments, FiniteSums, TLAPS

-----------------------------------------------------------------------------
(* Commands.                                                                *)

TransferOps == {"approve", "reject", "cancel", "dispatch", "receive"}
StocktakeOps == {"count"}
AdjustmentOps == {"adjust"}
OrderOps == {"send", "cancelOrder"}
ReceiptOps == {"register", "confirm"}
BatchOps == {"writeOff", "expire"}
ReturnOps == {"post", "cancelReturn"}
InvoiceOps == {"approveInvoice", "cancelInvoice", "pay"}
ConversionOps == {"registerConversion", "approveConversion", "start", "complete", "cancelConversion"}
PurchaseOps == {"note", "buy", "rejectPurchase"}
ExpenseOps == {"editExpense", "reviewExpense", "submitExpense", "cancelExpense"}
PendingOps == {"confirmPending", "confirmed", "rejectPending"}

TransferCommand(c) ==
  \/ c.op \in {"approve", "reject"} /\ c.seen.status = "SUBMITTED" /\ c.items = <<>>
  \/ c.op = "cancel" /\ c.seen.status \in {"SUBMITTED", "APPROVED"} /\ c.items = <<>>
  \/ c.op = "dispatch" /\ -c.qty \in Nat /\ c.items = Lines[c.doc]
  \/ c.op = "receive" /\ c.qty \in Nat /\ c.items = Lines[c.doc]

OrderCommand(c) ==
  \/ c.op = "send" /\ c.seen.status = "DRAFT"
  \/ c.op = "cancelOrder" /\ c.seen.status \in {"DRAFT", "SENT"}

ReceiptCommand(c) ==
  \/ /\ c.op = "register" /\ c.stage = "moving" /\ c.seen.status = "none"
     /\ c.qty \in Nat /\ c.items = <<>>
  \/ /\ c.op = "confirm" /\ c.seen.status = "DRAFT"
     /\ c.qty = c.seen.qty /\ c.items = Lines[c.doc] /\ c.doc \in c.locked
     /\ c.wants = OrderOf[c.doc]
     /\ \/ c.stage = "locking" /\ c.wants # NoDocument
        \/ c.stage = "moving" /\ LocksOf(c.doc) \subseteq c.locked

BatchCommand(c) ==
  /\ c.seen.status = "active" /\ c.items = <<>>
  /\ c.qty \in Nat /\ c.qty <= c.seen.qty
  /\ \/ c.op = "expire" /\ c.qty = 0
     \/ c.op = "writeOff"

ReturnCommand(c) ==
  /\ c.seen.status = "DRAFT"
  /\ \/ c.op = "post" /\ c.qty = -c.seen.qty /\ c.items = Lines[c.doc]
     \/ c.op = "cancelReturn" /\ c.items = <<>>

InvoiceCommand(c) ==
  /\ c.items = <<>>
  /\ \/ c.op = "approveInvoice" /\ c.seen.status \in Undecided
     \/ /\ c.op = "cancelInvoice" /\ c.seen.qty = 0
        /\ c.seen.status \in Undecided \cup {"APPROVED"}
     \/ /\ c.op = "pay" /\ c.seen.status \in Payable
        /\ c.qty \in Nat \ {0} /\ c.seen.qty + c.qty <= Invoiced[c.doc]

ConversionCommand(c) ==
  \/ c.op = "registerConversion" /\ c.seen.status = "none" /\ c.items = <<>>
  \/ /\ c.doc \in c.locked
     /\ \/ c.op = "approveConversion" /\ c.seen.status = "DRAFT" /\ c.items = <<>>
        \/ /\ c.op = "start" /\ c.seen.status = "APPROVED"
           /\ -c.qty \in Nat /\ c.items = Sorted[c.doc]
        \/ /\ c.op = "complete" /\ c.seen.status = "IN_PROGRESS"
           /\ c.qty \in Nat /\ c.items = <<Output[c.doc]>>
        \/ /\ c.op = "cancelConversion"
           /\ \/ c.seen.status \in {"DRAFT", "APPROVED"} /\ c.items = <<>>
              \/ c.seen.status = "IN_PROGRESS" /\ c.qty = c.seen.qty /\ c.items = Lines[c.doc]

PurchaseCommand(c) ==
  \/ c.op = "note" /\ c.seen.status \in {"none", "PENDING"} /\ c.items = <<>>
  \/ c.op = "buy" /\ c.seen.status \in {"none", "PENDING"} /\ c.items = Lines[c.doc]
  \/ c.op = "rejectPurchase" /\ c.seen.status = "PENDING" /\ c.items = <<>>

ExpenseCommand(c) ==
  /\ c.items = <<>>
  /\ \/ c.op = "editExpense" /\ c.seen.status = "SUBMITTED"
     \/ c.op = "reviewExpense" /\ c.seen.status = "SUBMITTED" /\ c.doc \in Journaled
     \/ c.op = "submitExpense" /\ c.seen.status = "DRAFT"
     \/ c.op = "cancelExpense" /\ c.seen.status \in {"DRAFT", "SUBMITTED"}

PendingCommand(c) ==
  /\ c.seen.status = "PENDING"
  /\ \/ c.op = "confirmPending" /\ c.qty = -c.seen.qty /\ c.items = Lines[c.doc]
     \/ c.op = "rejectPending" /\ c.items = <<>>
     \/ c.op = "confirmed"

\* A command is of one kind of document.
Belongs(c) ==
  /\ c.op \in TransferOps => c.doc \in Transfers
  /\ c.op \in StocktakeOps => c.doc \in Stocktakes
  /\ c.op \in AdjustmentOps => c.doc \in Adjustments
  /\ c.op \in OrderOps => c.doc \in Orders
  /\ c.op \in ReceiptOps => c.doc \in Receipts
  /\ c.op \in BatchOps => c.doc \in Batches
  /\ c.op \in ReturnOps => c.doc \in Returns
  /\ c.op \in InvoiceOps => c.doc \in Invoices
  /\ c.op \in ConversionOps => c.doc \in Conversions
  /\ c.op \in PurchaseOps => c.doc \in Purchases
  /\ c.op \in ExpenseOps => c.doc \in Expenses
  /\ c.op \in PendingOps => c.doc \in PendingOrders

\* What a command works on, and what it has found there.
Works(c) ==
  /\ Belongs(c)
  /\ c.doc \in Transfers => TransferCommand(c)
  /\ c.doc \in Stocktakes => c.op = "count"
  /\ c.doc \in Adjustments => c.op = "adjust"
  /\ c.doc \in Orders => OrderCommand(c)
  /\ c.doc \in Receipts => ReceiptCommand(c)
  /\ c.doc \in Batches => BatchCommand(c)
  /\ c.doc \in Returns => ReturnCommand(c)
  /\ c.doc \in Invoices => InvoiceCommand(c)
  /\ c.doc \in Conversions => ConversionCommand(c)
  /\ c.doc \in Purchases => PurchaseCommand(c)
  /\ c.doc \in Expenses => ExpenseCommand(c)
  /\ c.doc \in PendingOrders => PendingCommand(c)

Staged(c) ==
  /\ c.stage = "idle" <=> c = NoCommand
  /\ c.stage # "idle" => c.doc \in live
  /\ c.line \in 1..(Len(c.items) + 1)
  /\ c.stage = "locking" => c.op = "confirm" /\ c.doc \in Receipts
  /\ c.stage = "counting" => c.op = "count"
  /\ c.stage = "saving" <=> c.op = "confirmed"
  /\ c.stage = "saving" => c.doc \in PendingOrders

Sound(c) == Staged(c) /\ Works(c)

Form ==
  /\ TypeOK
  /\ \A w \in Workers : Sound(cmd[w])

\* Where a command moves stock.
Branch(c) == IF c.op = "receive" THEN Destination[c.doc] ELSE At[c.doc]

\* The lines that have been moved; a stocktake moves what it finds.
LinesMoved(c) ==
  c.op # "count" =>
    \A k \in Keys :
      c.moves[k] = IF (\E n \in 1..(c.line - 1) : c.items[n] = k[2]) /\ k[1] = Branch(c)
                   THEN c.qty ELSE 0

\* A balance that is held is not moved by others, and is written as it was read.
Fits(c) ==
  /\ LinesMoved(c)
  /\ \A k \in Keys : IF k \in c.held THEN c.wrote[k] = balance[k] + c.moves[k] ELSE c.moves[k] = 0

BalancesHeld ==
  \A w \in Workers : Fits(cmd[w]) /\ \A v \in Workers \ {w} : cmd[v].held \cap cmd[w].held = {}

StockInv == BalancesHeld /\ BalanceIsSumOfMovements

\* A receipt and a conversion have one command at a time.
OneAtATime ==
  \A w \in Workers :
    cmd[w].doc \in Receipts \cup Conversions =>
      /\ row[cmd[w].doc] = cmd[w].seen
      /\ \A v \in Workers \ {w} : cmd[v].doc # cmd[w].doc

ReceiptRows ==
  \A r \in Receipts : row[r].status \in {"none", "DRAFT", "CONFIRMED"} /\ row[r].qty \in Nat

-----------------------------------------------------------------------------
(* Constants.                                                               *)

LEMMA DocumentsOf ==
  /\ Transfers \subseteq Documents /\ Stocktakes \subseteq Documents
  /\ Adjustments \subseteq Documents /\ Orders \subseteq Documents
  /\ Receipts \subseteq Documents /\ Returns \subseteq Documents
  /\ Batches \subseteq Documents /\ Invoices \subseteq Documents
  /\ Conversions \subseteq Documents /\ Purchases \subseteq Documents
  /\ Expenses \subseteq Documents /\ PendingOrders \subseteq Documents
BY LedgerAssumption, TransfersAssumption, ReceiptsAssumption, InvoicesAssumption,
   ConversionsAssumption, PurchasesAssumption, ExpensesAssumption, PendingAssumption

\* Nothing is no document, so it is of no kind.
LEMMA NoKind ==
  NoDocument \notin
    Transfers \cup Stocktakes \cup Adjustments \cup Orders \cup Receipts \cup Returns \cup Batches
      \cup Invoices \cup Conversions \cup Purchases \cup Expenses \cup PendingOrders
BY DocumentsOf, LedgerAssumption

LEMMA LinesTyped ==
  /\ <<>> \in Seq(Items) /\ Len(<<>>) = 0
  /\ \A d \in Documents : Lines[d] \in Seq(Items)
  /\ \A c \in Conversions : /\ Sorted[c] \in Seq(Items)
                            /\ <<Output[c]>> \in Seq(Items)
<1>1. <<>> \in Seq(Items) /\ Len(<<>>) = 0
  OBVIOUS
<1>2. \A d \in Documents : Lines[d] \in Seq(Items)
  BY LedgerAssumption
<1>3. \A c \in Conversions : Output[c] \in Items /\ Sorted[c] \in Seq(Items)
  BY ConversionsAssumption
<1>4. \A i \in Items : <<i>> \in Seq(Items)
  OBVIOUS
<1> QED
  BY <1>1, <1>2, <1>3, <1>4

LEMMA IdleCommand == NoCommand \in Commands /\ NoCommand.stage = "idle" /\ Sound(NoCommand)
<1>1. /\ NoCommand.op = "none" /\ NoCommand.stage = "idle" /\ NoCommand.doc = NoDocument
      /\ NoCommand.items = <<>> /\ NoCommand.line = 1
  BY DEF NoCommand
<1>2. NoCommand \in Commands
  <2>1. Row("none", 0, 0) \in Rows
    BY DEF Row, Rows, Statuses
  <2>2. Zero \in [Keys -> Int] /\ [i \in Items |-> 0] \in [Items -> Int]
    BY DEF Zero
  <2>3. "none" \in Ops
    BY DEF Ops
  <2>4. FALSE \in BOOLEAN
    OBVIOUS
  <2> QED
    BY <2>1, <2>2, <2>3, <2>4, LinesTyped DEF NoCommand, Commands
<1> QED
  BY <1>1, <1>2, NoKind, LinesTyped
  DEF Sound, Staged, Works, Belongs, TransferOps, StocktakeOps, AdjustmentOps, OrderOps,
      ReceiptOps, BatchOps, ReturnOps, InvoiceOps, ConversionOps, PurchaseOps, ExpenseOps,
      PendingOps

\* A command that has just read its document.
Typed(c) ==
  /\ c = Opened(c.op, c.stage, c.doc, c.qty, c.items, c.waived, c.wants, c.locked)
  /\ c.op \in Ops /\ c.op # "confirmed" /\ c.stage \in {"locking", "counting", "moving"}
  /\ c.doc \in Documents /\ c.qty \in Int /\ c.items \in Seq(Items) /\ c.waived \in BOOLEAN
  /\ c.wants \in Documents \cup {NoDocument} /\ c.locked \subseteq Documents

LEMMA OpenedCommand ==
  ASSUME TypeOK, NEW c, Typed(c)
  PROVE  /\ c \in Commands /\ c.seen = row[c.doc] /\ c.line = 1
         /\ c.held = {} /\ c.moves = Zero /\ c.wrote = Zero
         /\ c.line \in 1..(Len(c.items) + 1) /\ c # NoCommand
<1>1. /\ c.seen = row[c.doc] /\ c.line = 1 /\ c.held = {} /\ c.moves = Zero /\ c.wrote = Zero
  BY DEF Opened, Typed
<1>2. row[c.doc] \in Rows
  BY DEF TypeOK, Typed
<1>3. c \in Commands
  <2>1. Zero \in [Keys -> Int] /\ [i \in Items |-> 0] \in [Items -> Int]
    BY DEF Zero
  <2> QED
    BY <1>2, <2>1 DEF Opened, Commands, Typed
<1>4. c # NoCommand
  BY IdleCommand DEF Typed
<1>5. Len(c.items) \in Nat
  BY DEF Typed
<1> QED
  BY <1>1, <1>3, <1>4, <1>5

\* A document is of one kind.
LEMMA WorksOn ==
  ASSUME NEW c
  PROVE  /\ c.doc \in Transfers /\ TransferCommand(c) => Works(c)
         /\ c.doc \in Stocktakes /\ c.op = "count" => Works(c)
         /\ c.doc \in Adjustments /\ c.op = "adjust" => Works(c)
         /\ c.doc \in Orders /\ OrderCommand(c) => Works(c)
         /\ c.doc \in Receipts /\ ReceiptCommand(c) => Works(c)
         /\ c.doc \in Batches /\ BatchCommand(c) => Works(c)
         /\ c.doc \in Returns /\ ReturnCommand(c) => Works(c)
         /\ c.doc \in Invoices /\ InvoiceCommand(c) => Works(c)
         /\ c.doc \in Conversions /\ ConversionCommand(c) => Works(c)
         /\ c.doc \in Purchases /\ PurchaseCommand(c) => Works(c)
         /\ c.doc \in Expenses /\ ExpenseCommand(c) => Works(c)
         /\ c.doc \in PendingOrders /\ PendingCommand(c) => Works(c)
<1>1. ASSUME c.doc \in Transfers, TransferCommand(c) PROVE Works(c)
  <2>1. c.op \in TransferOps
    BY <1>1 DEF TransferCommand, TransferOps
  <2> QED
    BY <1>1, <2>1, KindsAssumption
    DEF Works, Belongs, TransferOps, StocktakeOps, AdjustmentOps, OrderOps, ReceiptOps, BatchOps,
         ReturnOps, InvoiceOps, ConversionOps, PurchaseOps, ExpenseOps, PendingOps
<1>2. ASSUME c.doc \in Stocktakes, c.op = "count" PROVE Works(c)
  <2>1. c.op \in StocktakeOps
    BY <1>2 DEF StocktakeOps
  <2> QED
    BY <1>2, <2>1, KindsAssumption
    DEF Works, Belongs, TransferOps, StocktakeOps, AdjustmentOps, OrderOps, ReceiptOps, BatchOps,
         ReturnOps, InvoiceOps, ConversionOps, PurchaseOps, ExpenseOps, PendingOps
<1>3. ASSUME c.doc \in Adjustments, c.op = "adjust" PROVE Works(c)
  <2>1. c.op \in AdjustmentOps
    BY <1>3 DEF AdjustmentOps
  <2> QED
    BY <1>3, <2>1, KindsAssumption
    DEF Works, Belongs, TransferOps, StocktakeOps, AdjustmentOps, OrderOps, ReceiptOps, BatchOps,
         ReturnOps, InvoiceOps, ConversionOps, PurchaseOps, ExpenseOps, PendingOps
<1>4. ASSUME c.doc \in Orders, OrderCommand(c) PROVE Works(c)
  <2>1. c.op \in OrderOps
    BY <1>4 DEF OrderCommand, OrderOps
  <2> QED
    BY <1>4, <2>1, KindsAssumption
    DEF Works, Belongs, TransferOps, StocktakeOps, AdjustmentOps, OrderOps, ReceiptOps, BatchOps,
         ReturnOps, InvoiceOps, ConversionOps, PurchaseOps, ExpenseOps, PendingOps
<1>5. ASSUME c.doc \in Receipts, ReceiptCommand(c) PROVE Works(c)
  <2>1. c.op \in ReceiptOps
    BY <1>5 DEF ReceiptCommand, ReceiptOps
  <2> QED
    BY <1>5, <2>1, KindsAssumption
    DEF Works, Belongs, TransferOps, StocktakeOps, AdjustmentOps, OrderOps, ReceiptOps, BatchOps,
         ReturnOps, InvoiceOps, ConversionOps, PurchaseOps, ExpenseOps, PendingOps
<1>6. ASSUME c.doc \in Batches, BatchCommand(c) PROVE Works(c)
  <2>1. c.op \in BatchOps
    BY <1>6 DEF BatchCommand, BatchOps
  <2> QED
    BY <1>6, <2>1, KindsAssumption
    DEF Works, Belongs, TransferOps, StocktakeOps, AdjustmentOps, OrderOps, ReceiptOps, BatchOps,
         ReturnOps, InvoiceOps, ConversionOps, PurchaseOps, ExpenseOps, PendingOps
<1>7. ASSUME c.doc \in Returns, ReturnCommand(c) PROVE Works(c)
  <2>1. c.op \in ReturnOps
    BY <1>7 DEF ReturnCommand, ReturnOps
  <2> QED
    BY <1>7, <2>1, KindsAssumption
    DEF Works, Belongs, TransferOps, StocktakeOps, AdjustmentOps, OrderOps, ReceiptOps, BatchOps,
         ReturnOps, InvoiceOps, ConversionOps, PurchaseOps, ExpenseOps, PendingOps
<1>8. ASSUME c.doc \in Invoices, InvoiceCommand(c) PROVE Works(c)
  <2>1. c.op \in InvoiceOps
    BY <1>8 DEF InvoiceCommand, InvoiceOps
  <2> QED
    BY <1>8, <2>1, KindsAssumption
    DEF Works, Belongs, TransferOps, StocktakeOps, AdjustmentOps, OrderOps, ReceiptOps, BatchOps,
         ReturnOps, InvoiceOps, ConversionOps, PurchaseOps, ExpenseOps, PendingOps
<1>9. ASSUME c.doc \in Conversions, ConversionCommand(c) PROVE Works(c)
  <2>1. c.op \in ConversionOps
    BY <1>9 DEF ConversionCommand, ConversionOps
  <2> QED
    BY <1>9, <2>1, KindsAssumption
    DEF Works, Belongs, TransferOps, StocktakeOps, AdjustmentOps, OrderOps, ReceiptOps, BatchOps,
         ReturnOps, InvoiceOps, ConversionOps, PurchaseOps, ExpenseOps, PendingOps
<1>10. ASSUME c.doc \in Purchases, PurchaseCommand(c) PROVE Works(c)
  <2>1. c.op \in PurchaseOps
    BY <1>10 DEF PurchaseCommand, PurchaseOps
  <2> QED
    BY <1>10, <2>1, KindsAssumption
    DEF Works, Belongs, TransferOps, StocktakeOps, AdjustmentOps, OrderOps, ReceiptOps, BatchOps,
         ReturnOps, InvoiceOps, ConversionOps, PurchaseOps, ExpenseOps, PendingOps
<1>11. ASSUME c.doc \in Expenses, ExpenseCommand(c) PROVE Works(c)
  <2>1. c.op \in ExpenseOps
    BY <1>11 DEF ExpenseCommand, ExpenseOps
  <2> QED
    BY <1>11, <2>1, KindsAssumption
    DEF Works, Belongs, TransferOps, StocktakeOps, AdjustmentOps, OrderOps, ReceiptOps, BatchOps,
         ReturnOps, InvoiceOps, ConversionOps, PurchaseOps, ExpenseOps, PendingOps
<1>12. ASSUME c.doc \in PendingOrders, PendingCommand(c) PROVE Works(c)
  <2>1. c.op \in PendingOps
    BY <1>12 DEF PendingCommand, PendingOps
  <2> QED
    BY <1>12, <2>1, KindsAssumption
    DEF Works, Belongs, TransferOps, StocktakeOps, AdjustmentOps, OrderOps, ReceiptOps, BatchOps,
         ReturnOps, InvoiceOps, ConversionOps, PurchaseOps, ExpenseOps, PendingOps
<1> QED
  BY <1>1, <1>2, <1>3, <1>4, <1>5, <1>6, <1>7, <1>8, <1>9, <1>10, <1>11, <1>12

-----------------------------------------------------------------------------
(* The steps.                                                               *)

Only(w, c) ==
  /\ cmd' = [cmd EXCEPT ![w] = c]
  /\ UNCHANGED <<live, stock, papers>>

\* A command that begins, and what it has asked before.
Begins(w, c) ==
  /\ cmd[w].stage = "idle" /\ c \in Commands /\ Sound(c)
  /\ c.doc \in Documents \ stale /\ c.seen = row[c.doc]
  /\ c.line = 1 /\ c.held = {} /\ c.moves = Zero
  /\ c.op \in {"register", "registerConversion"} => New(c.doc)
  /\ \A d \in c.locked : Unlocked(d)
  /\ c.op = "register" => \A o \in LocksOf(c.doc) : row[o].status \in Receivable
  /\ c.op = "confirm" /\ c.stage = "moving" => LocksOf(c.doc) = {}
  /\ c.op # "confirmed"
  /\ Only(w, c)

LEMMA BeginsOn ==
  ASSUME TypeOK, NEW w \in Workers, NEW c, Typed(c), Works(c), Open(w, c.doc),
         c.stage = "locking" => c.op = "confirm" /\ c.doc \in Receipts,
         c.stage = "counting" => c.op = "count",
         c.op \in {"register", "registerConversion"} => New(c.doc),
         \A e \in c.locked : Unlocked(e),
         c.op = "register" => \A o \in LocksOf(c.doc) : row[o].status \in Receivable,
         c.op = "confirm" /\ c.stage = "moving" => LocksOf(c.doc) = {},
         cmd' = [cmd EXCEPT ![w] = c], UNCHANGED <<live, stock, papers>>
  PROVE  \E k : Begins(w, k)
<1>1. /\ c \in Commands /\ c.seen = row[c.doc] /\ c.line = 1
      /\ c.held = {} /\ c.moves = Zero /\ c.wrote = Zero
      /\ c.line \in 1..(Len(c.items) + 1) /\ c # NoCommand
  BY OpenedCommand
<1>2. /\ c.doc \in live /\ c.doc \notin stale /\ cmd[w].stage = "idle"
      /\ c.stage \in {"locking", "counting", "moving"} /\ c.op # "confirmed" /\ c.doc \in Documents
  BY DEF Open, Typed
<1>3. Sound(c)
  BY <1>1, <1>2 DEF Sound, Staged
<1>4. Only(w, c)
  BY DEF Only
<1>5. Begins(w, c)
  BY <1>1, <1>2, <1>3, <1>4 DEF Begins
<1> QED
  BY <1>5

-----------------------------------------------------------------------------
(* What begins.                                                             *)

\* A decision that is read and saved later.
LEMMA ReviseBegins ==
  ASSUME TypeOK, NEW w \in Workers, NEW d \in Documents, NEW op \in Ops, NEW from,
         op \notin {"confirmed", "register", "confirm", "count"},
         op = "registerConversion" => New(d),
         Revise(w, d, op, from),
         \A c : c.op = op /\ c.doc = d /\ c.seen.status \in from /\ c.items = <<>>
                  /\ c.locked = {} => Works(c)
  PROVE  \E c : Begins(w, c)
<1>1. PICK c : c = Opened(op, "moving", d, 0, <<>>, FALSE, NoDocument, {})
  OBVIOUS
<1>2. /\ Open(w, d) /\ row[d].status \in from
      /\ cmd' = [cmd EXCEPT ![w] = c] /\ UNCHANGED <<live, stock, papers>>
  BY <1>1 DEF Revise
<1>3. /\ Typed(c)
      /\ c.op = op /\ c.stage = "moving" /\ c.doc = d /\ c.seen = row[d]
      /\ c.items = <<>> /\ c.locked = {}
  BY <1>1, LinesTyped DEF Opened, Typed
<1>4. Works(c)
  BY <1>2, <1>3, Zenon
<1> QED
  BY <1>2, <1>3, <1>4, BeginsOn

LEMMA NegatedTyped == \A q \in Quantities \cup {-n : n \in Quantities} : q \in Int
BY TransfersAssumption

LEMMA TransferBegins ==
  ASSUME Form, NEW w \in Workers, TransferBegin(w)
  PROVE  \E c : Begins(w, c)
<1> TypeOK
  BY DEF Form
<1>1. ASSUME NEW t \in Transfers, Revise(w, t, "approve", {"SUBMITTED"})
      PROVE  \E c : Begins(w, c)
  <2>1. \A c : c.op = "approve" /\ c.doc = t /\ c.seen.status \in {"SUBMITTED"}
                 /\ c.items = <<>> /\ c.locked = {} => Works(c)
    BY WorksOn DEF TransferCommand
  <2> QED
    BY <1>1, <2>1, DocumentsOf, ReviseBegins DEF Ops
<1>2. ASSUME NEW t \in Transfers, Revise(w, t, "reject", {"SUBMITTED"})
      PROVE  \E c : Begins(w, c)
  <2>1. \A c : c.op = "reject" /\ c.doc = t /\ c.seen.status \in {"SUBMITTED"}
                 /\ c.items = <<>> /\ c.locked = {} => Works(c)
    BY WorksOn DEF TransferCommand
  <2> QED
    BY <1>2, <2>1, DocumentsOf, ReviseBegins DEF Ops
<1>3. ASSUME NEW t \in Transfers, Revise(w, t, "cancel", {"SUBMITTED", "APPROVED"})
      PROVE  \E c : Begins(w, c)
  <2>1. \A c : c.op = "cancel" /\ c.doc = t /\ c.seen.status \in {"SUBMITTED", "APPROVED"}
                 /\ c.items = <<>> /\ c.locked = {} => Works(c)
    BY WorksOn DEF TransferCommand
  <2> QED
    BY <1>3, <2>1, DocumentsOf, ReviseBegins DEF Ops
<1>4. ASSUME NEW t \in Transfers, Dispatch(w, t)
      PROVE  \E c : Begins(w, c)
  <2>1. PICK q \in Quantities, approved \in BOOLEAN :
          cmd' = [cmd EXCEPT ![w] =
                    Opened("dispatch", "moving", t, -q, Lines[t], approved, NoDocument, {})]
    BY <1>4 DEF Dispatch
  <2>2. PICK c : c = Opened("dispatch", "moving", t, -q, Lines[t], approved, NoDocument, {})
    OBVIOUS
  <2>3. t \in Documents /\ q \in Nat /\ Lines[t] \in Seq(Items)
    BY <1>4, <2>1, DocumentsOf, LinesTyped, TransfersAssumption
  <2>4. /\ Typed(c) /\ c.op = "dispatch" /\ c.stage = "moving" /\ c.doc = t /\ c.seen = row[t]
        /\ c.qty = -q /\ c.items = Lines[t] /\ c.wants = NoDocument /\ c.locked = {}
    BY <2>2, <2>3, LinesTyped DEF Opened, Typed, Ops
  <2>5. Works(c)
    BY <1>4, <2>1, <2>3, <2>4, WorksOn DEF TransferCommand, Dispatch
  <2> QED
    BY <1>4, <2>1, <2>2, <2>4, <2>5, BeginsOn DEF Dispatch
<1>5. ASSUME NEW t \in Transfers, Receive(w, t)
      PROVE  \E c : Begins(w, c)
  <2>1. PICK q \in Quantities :
          cmd' = [cmd EXCEPT ![w] =
                    Opened("receive", "moving", t, q, Lines[t], TRUE, NoDocument, {})]
    BY <1>5 DEF Receive
  <2>2. PICK c : c = Opened("receive", "moving", t, q, Lines[t], TRUE, NoDocument, {})
    OBVIOUS
  <2>3. t \in Documents /\ q \in Nat /\ Lines[t] \in Seq(Items)
    BY <1>5, <2>1, DocumentsOf, LinesTyped, TransfersAssumption
  <2>4. /\ Typed(c) /\ c.op = "receive" /\ c.stage = "moving" /\ c.doc = t /\ c.seen = row[t]
        /\ c.qty = q /\ c.items = Lines[t] /\ c.wants = NoDocument /\ c.locked = {}
    BY <2>2, <2>3, LinesTyped DEF Opened, Typed, Ops
  <2>5. Works(c)
    BY <1>5, <2>1, <2>3, <2>4, WorksOn DEF TransferCommand, Receive
  <2> QED
    BY <1>5, <2>1, <2>2, <2>4, <2>5, BeginsOn DEF Receive
<1>6. ASSUME NEW s \in Stocktakes, Count(w, s)
      PROVE  \E c : Begins(w, c)
  <2>1. PICK q \in Quantities :
          cmd' = [cmd EXCEPT ![w] =
                    Opened("count", "counting", s, q, Lines[s], TRUE, NoDocument, {})]
    BY <1>6 DEF Count
  <2>2. PICK c : c = Opened("count", "counting", s, q, Lines[s], TRUE, NoDocument, {})
    OBVIOUS
  <2>3. s \in Documents /\ q \in Nat /\ Lines[s] \in Seq(Items)
    BY <1>6, <2>1, DocumentsOf, LinesTyped, TransfersAssumption
  <2>4. /\ Typed(c) /\ c.op = "count" /\ c.stage = "counting" /\ c.doc = s /\ c.seen = row[s]
        /\ c.qty = q /\ c.items = Lines[s] /\ c.wants = NoDocument /\ c.locked = {}
    BY <2>2, <2>3, LinesTyped DEF Opened, Typed, Ops
  <2>5. Works(c)
    BY <1>6, <2>1, <2>3, <2>4, WorksOn DEF TransferCommand, Count
  <2> QED
    BY <1>6, <2>1, <2>2, <2>4, <2>5, BeginsOn DEF Count
<1>7. ASSUME NEW a \in Adjustments, Adjust(w, a)
      PROVE  \E c : Begins(w, c)
  <2>1. PICK q \in Quantities \cup {-n : n \in Quantities}, approved \in BOOLEAN :
          cmd' = [cmd EXCEPT ![w] =
                    Opened("adjust", "moving", a, q, Lines[a], approved, NoDocument, {})]
    BY <1>7 DEF Adjust
  <2>2. PICK c : c = Opened("adjust", "moving", a, q, Lines[a], approved, NoDocument, {})
    OBVIOUS
  <2>3. a \in Documents /\ q \in Int /\ Lines[a] \in Seq(Items)
    BY <1>7, <2>1, DocumentsOf, LinesTyped, NegatedTyped
  <2>4. /\ Typed(c) /\ c.op = "adjust" /\ c.stage = "moving" /\ c.doc = a /\ c.seen = row[a]
        /\ c.qty = q /\ c.items = Lines[a] /\ c.wants = NoDocument /\ c.locked = {}
    BY <2>2, <2>3, LinesTyped DEF Opened, Typed, Ops
  <2>5. Works(c)
    BY <1>7, <2>1, <2>3, <2>4, WorksOn DEF TransferCommand, Adjust
  <2> QED
    BY <1>7, <2>1, <2>2, <2>4, <2>5, BeginsOn DEF Adjust
<1> QED
  BY <1>1, <1>2, <1>3, <1>4, <1>5, <1>6, <1>7 DEF TransferBegin

LEMMA ReceiptBegins ==
  ASSUME Form, NEW w \in Workers, ReceiptBegin(w)
  PROVE  \E c : Begins(w, c)
<1> TypeOK
  BY DEF Form
<1>1. ASSUME NEW o \in Orders, SendOrder(w, o)
      PROVE  \E c : Begins(w, c)
  <2>1. \A c : c.op = "send" /\ c.doc = o /\ c.seen.status \in {"DRAFT"}
                 /\ c.items = <<>> /\ c.locked = {} => Works(c)
    BY WorksOn DEF OrderCommand
  <2> QED
    BY <1>1, <2>1, DocumentsOf, ReviseBegins DEF Ops, SendOrder
<1>2. ASSUME NEW o \in Orders, CancelOrder(w, o)
      PROVE  \E c : Begins(w, c)
  <2>1. \A c : c.op = "cancelOrder" /\ c.doc = o /\ c.seen.status \in {"DRAFT", "SENT"}
                 /\ c.items = <<>> /\ c.locked = {} => Works(c)
    BY WorksOn DEF OrderCommand
  <2> QED
    BY <1>2, <2>1, DocumentsOf, ReviseBegins DEF Ops, CancelOrder
<1>3. ASSUME NEW r \in Receipts, Register(w, r)
      PROVE  \E c : Begins(w, c)
  <2>1. PICK q \in 1..MaxQuantity :
          cmd' = [cmd EXCEPT ![w] =
                    Opened("register", "moving", r, q, <<>>, FALSE, NoDocument, LocksOf(r))]
    BY <1>3 DEF Register
  <2>2. PICK c : c = Opened("register", "moving", r, q, <<>>, FALSE, NoDocument, LocksOf(r))
    OBVIOUS
  <2>3. r \in Documents /\ q \in Nat /\ LocksOf(r) \subseteq Documents
    BY <1>3, <2>1, DocumentsOf, LedgerAssumption, ReceiptsAssumption DEF LocksOf
  <2>4. /\ Typed(c) /\ c.op = "register" /\ c.stage = "moving" /\ c.doc = r /\ c.seen = row[r]
        /\ c.qty = q /\ c.items = <<>> /\ c.wants = NoDocument /\ c.locked = LocksOf(r)
    BY <2>2, <2>3, LinesTyped DEF Opened, Typed, Ops
  <2>5. Works(c)
    BY <1>3, <2>1, <2>3, <2>4, WorksOn DEF ReceiptCommand, New, Register
  <2> QED
    BY <1>3, <2>1, <2>2, <2>4, <2>5, BeginsOn DEF Register
<1>4. ASSUME NEW r \in Receipts, Confirm(w, r)
      PROVE  \E c : Begins(w, c)
  <2>1. PICK stage \in {"moving", "locking"} :
          /\ stage = IF LocksOf(r) = {} THEN "moving" ELSE "locking"
          /\ cmd' = [cmd EXCEPT ![w] =
                       Opened("confirm", stage, r, row[r].qty, Lines[r], TRUE, OrderOf[r], {r})]
    BY <1>4 DEF Confirm
  <2>2. PICK c : c = Opened("confirm", stage, r, row[r].qty, Lines[r], TRUE, OrderOf[r], {r})
    OBVIOUS
  <2>3. r \in Documents /\ row[r].qty \in Int /\ Lines[r] \in Seq(Items)
        /\ OrderOf[r] \in Documents \cup {NoDocument}
    BY <1>4, DocumentsOf, LinesTyped, ReceiptsAssumption DEF TypeOK, Rows
  <2>4. /\ Typed(c) /\ c.op = "confirm" /\ c.stage = stage /\ c.doc = r /\ c.seen = row[r]
        /\ c.qty = row[r].qty /\ c.items = Lines[r] /\ c.wants = OrderOf[r] /\ c.locked = {r}
    BY <2>2, <2>3, LinesTyped DEF Opened, Typed, Ops
  <2>5. /\ stage = "locking" => OrderOf[r] # NoDocument
        /\ stage = "moving" => LocksOf(r) = {}
    BY <2>1 DEF LocksOf
  <2>6. Works(c)
    BY <1>4, <2>3, <2>4, <2>5, WorksOn DEF ReceiptCommand, Confirm
  <2> QED
    BY <1>4, <2>1, <2>2, <2>4, <2>5, <2>6, BeginsOn DEF Confirm
<1>5. ASSUME NEW b \in Batches, WriteOff(w, b)
      PROVE  \E c : Begins(w, c)
  <2>1. PICK q \in 0..MaxQuantity, op \in {"expire", "writeOff"} :
          /\ q <= row[b].qty
          /\ op = IF q = 0 THEN "expire" ELSE "writeOff"
          /\ cmd' = [cmd EXCEPT ![w] = Opened(op, "moving", b, q, <<>>, FALSE, NoDocument, {})]
    BY <1>5 DEF WriteOff
  <2>2. PICK c : c = Opened(op, "moving", b, q, <<>>, FALSE, NoDocument, {})
    OBVIOUS
  <2>3. b \in Documents /\ q \in Nat /\ (op = "expire" => q = 0)
    BY <2>1, DocumentsOf, LedgerAssumption
  <2>4. /\ Typed(c) /\ c.op = op /\ c.stage = "moving" /\ c.doc = b /\ c.seen = row[b]
        /\ c.qty = q /\ c.items = <<>> /\ c.wants = NoDocument /\ c.locked = {}
    BY <2>2, <2>3, LinesTyped DEF Opened, Typed, Ops
  <2>5. Works(c)
    BY <1>5, <2>1, <2>3, <2>4, WorksOn DEF BatchCommand, WriteOff
  <2> QED
    BY <1>5, <2>1, <2>2, <2>4, <2>5, BeginsOn DEF WriteOff
<1>6. ASSUME NEW p \in Returns, PostReturn(w, p)
      PROVE  \E c : Begins(w, c)
  <2>1. cmd' = [cmd EXCEPT ![w] =
                    Opened("post", "moving", p, -row[p].qty, Lines[p], TRUE, NoDocument, {})]
    BY <1>6 DEF PostReturn
  <2>2. PICK c : c = Opened("post", "moving", p, -row[p].qty, Lines[p], TRUE, NoDocument, {})
    OBVIOUS
  <2>3. p \in Documents /\ row[p].qty \in Int /\ Lines[p] \in Seq(Items)
    BY <1>6, DocumentsOf, LinesTyped DEF TypeOK, Rows
  <2>4. /\ Typed(c) /\ c.op = "post" /\ c.stage = "moving" /\ c.doc = p /\ c.seen = row[p]
        /\ c.qty = -row[p].qty /\ c.items = Lines[p] /\ c.wants = NoDocument /\ c.locked = {}
    BY <2>2, <2>3, LinesTyped DEF Opened, Typed, Ops
  <2>5. Works(c)
    BY <1>6, <2>1, <2>3, <2>4, WorksOn DEF ReturnCommand, PostReturn
  <2> QED
    BY <1>6, <2>1, <2>2, <2>4, <2>5, BeginsOn DEF PostReturn
<1>7. ASSUME NEW p \in Returns, Revise(w, p, "cancelReturn", {"DRAFT"})
      PROVE  \E c : Begins(w, c)
  <2>1. \A c : c.op = "cancelReturn" /\ c.doc = p /\ c.seen.status \in {"DRAFT"}
                 /\ c.items = <<>> /\ c.locked = {} => Works(c)
    BY WorksOn DEF ReturnCommand
  <2> QED
    BY <1>7, <2>1, DocumentsOf, ReviseBegins DEF Ops
<1> QED
  BY <1>1, <1>2, <1>3, <1>4, <1>5, <1>6, <1>7 DEF ReceiptBegin

LEMMA InvoiceBegins ==
  ASSUME Form, NEW w \in Workers, InvoiceBegin(w)
  PROVE  \E c : Begins(w, c)
<1> TypeOK
  BY DEF Form
<1>1. ASSUME NEW v \in Invoices, Approve(w, v)
      PROVE  \E c : Begins(w, c)
  <2>1. cmd' = [cmd EXCEPT ![w] =
                    Opened("approveInvoice", "moving", v, 0, <<>>, FALSE, NoDocument, {v})]
    BY <1>1 DEF Approve
  <2>2. PICK c : c = Opened("approveInvoice", "moving", v, 0, <<>>, FALSE, NoDocument, {v})
    OBVIOUS
  <2>3. v \in Documents
    BY <1>1, DocumentsOf
  <2>4. /\ Typed(c) /\ c.op = "approveInvoice" /\ c.stage = "moving" /\ c.doc = v /\ c.seen = row[v]
        /\ c.qty = 0 /\ c.items = <<>> /\ c.wants = NoDocument /\ c.locked = {v}
    BY <2>2, <2>3, LinesTyped DEF Opened, Typed, Ops
  <2>5. Works(c)
    BY <1>1, <2>1, <2>3, <2>4, WorksOn DEF InvoiceCommand, Approve
  <2> QED
    BY <1>1, <2>1, <2>2, <2>4, <2>5, BeginsOn DEF Approve
<1>2. ASSUME NEW v \in Invoices, CancelInvoice(w, v)
      PROVE  \E c : Begins(w, c)
  <2>1. cmd' = [cmd EXCEPT ![w] =
                    Opened("cancelInvoice", "moving", v, 0, <<>>, FALSE, NoDocument, {})]
    BY <1>2 DEF CancelInvoice
  <2>2. PICK c : c = Opened("cancelInvoice", "moving", v, 0, <<>>, FALSE, NoDocument, {})
    OBVIOUS
  <2>3. v \in Documents
    BY <1>2, DocumentsOf
  <2>4. /\ Typed(c) /\ c.op = "cancelInvoice" /\ c.stage = "moving" /\ c.doc = v /\ c.seen = row[v]
        /\ c.qty = 0 /\ c.items = <<>> /\ c.wants = NoDocument /\ c.locked = {}
    BY <2>2, <2>3, LinesTyped DEF Opened, Typed, Ops
  <2>5. Works(c)
    BY <1>2, <2>1, <2>3, <2>4, WorksOn DEF InvoiceCommand, CancelInvoice
  <2> QED
    BY <1>2, <2>1, <2>2, <2>4, <2>5, BeginsOn DEF CancelInvoice
<1>3. ASSUME NEW v \in Invoices, Pay(w, v)
      PROVE  \E c : Begins(w, c)
  <2>1. PICK q \in 1..MaxQuantity :
          row[v].qty + q <= Invoiced[v] /\ cmd' = [cmd EXCEPT ![w] =
                    Opened("pay", "moving", v, q, <<>>, FALSE, NoDocument, {})]
    BY <1>3 DEF Pay
  <2>2. PICK c : c = Opened("pay", "moving", v, q, <<>>, FALSE, NoDocument, {})
    OBVIOUS
  <2>3. v \in Documents /\ q \in Nat \ {0}
    BY <1>3, <2>1, DocumentsOf, LedgerAssumption
  <2>4. /\ Typed(c) /\ c.op = "pay" /\ c.stage = "moving" /\ c.doc = v /\ c.seen = row[v]
        /\ c.qty = q /\ c.items = <<>> /\ c.wants = NoDocument /\ c.locked = {}
    BY <2>2, <2>3, LinesTyped DEF Opened, Typed, Ops
  <2>5. Works(c)
    BY <1>3, <2>1, <2>3, <2>4, WorksOn DEF InvoiceCommand, Pay
  <2> QED
    BY <1>3, <2>1, <2>2, <2>4, <2>5, BeginsOn DEF Pay
<1> QED
  BY <1>1, <1>2, <1>3 DEF InvoiceBegin

LEMMA ConversionBegins ==
  ASSUME Form, NEW w \in Workers, ConversionBegin(w)
  PROVE  \E c : Begins(w, c)
<1> TypeOK
  BY DEF Form
<1>1. ASSUME NEW d \in Conversions, RegisterConversion(w, d)
      PROVE  \E c : Begins(w, c)
  <2>1. \A c : c.op = "registerConversion" /\ c.doc = d /\ c.seen.status \in {"none"}
                 /\ c.items = <<>> /\ c.locked = {} => Works(c)
    BY WorksOn DEF ConversionCommand
  <2> QED
    BY <1>1, <2>1, DocumentsOf, ReviseBegins DEF Ops, RegisterConversion
<1>2. ASSUME NEW d \in Conversions, ApproveConversion(w, d)
      PROVE  \E c : Begins(w, c)
  <2>1. cmd' = [cmd EXCEPT ![w] =
                    Opened("approveConversion", "moving", d, 0, <<>>, FALSE, NoDocument, {d})]
    BY <1>2 DEF ApproveConversion, BeginConversion
  <2>2. PICK c : c = Opened("approveConversion", "moving", d, 0, <<>>, FALSE, NoDocument, {d})
    OBVIOUS
  <2>3. d \in Documents
    BY <1>2, DocumentsOf
  <2>4. /\ Typed(c) /\ c.op = "approveConversion" /\ c.stage = "moving" /\ c.doc = d /\ c.seen = row[d]
        /\ c.qty = 0 /\ c.items = <<>> /\ c.wants = NoDocument /\ c.locked = {d}
    BY <2>2, <2>3, LinesTyped DEF Opened, Typed, Ops
  <2>5. Works(c)
    BY <1>2, <2>1, <2>3, <2>4, WorksOn DEF ConversionCommand, BeginConversion, ApproveConversion
  <2> QED
    BY <1>2, <2>1, <2>2, <2>4, <2>5, BeginsOn DEF ApproveConversion, BeginConversion
<1>3. ASSUME NEW d \in Conversions, Start(w, d)
      PROVE  \E c : Begins(w, c)
  <2>1. PICK q \in 1..MaxQuantity, approved \in BOOLEAN :
          cmd' = [cmd EXCEPT ![w] =
                    Opened("start", "moving", d, -q, Sorted[d], approved, NoDocument, {d})]
    BY <1>3 DEF Start, BeginConversion
  <2>2. PICK c : c = Opened("start", "moving", d, -q, Sorted[d], approved, NoDocument, {d})
    OBVIOUS
  <2>3. d \in Documents /\ q \in Nat /\ Sorted[d] \in Seq(Items)
    BY <1>3, <2>1, DocumentsOf, LedgerAssumption, LinesTyped
  <2>4. /\ Typed(c) /\ c.op = "start" /\ c.stage = "moving" /\ c.doc = d /\ c.seen = row[d]
        /\ c.qty = -q /\ c.items = Sorted[d] /\ c.wants = NoDocument /\ c.locked = {d}
    BY <2>2, <2>3, LinesTyped DEF Opened, Typed, Ops
  <2>5. Works(c)
    BY <1>3, <2>1, <2>3, <2>4, WorksOn DEF ConversionCommand, BeginConversion, Start
  <2> QED
    BY <1>3, <2>1, <2>2, <2>4, <2>5, BeginsOn DEF Start, BeginConversion
<1>4. ASSUME NEW d \in Conversions, CompleteConversion(w, d)
      PROVE  \E c : Begins(w, c)
  <2>1. PICK q \in 1..MaxQuantity :
          cmd' = [cmd EXCEPT ![w] =
                    Opened("complete", "moving", d, q, <<Output[d]>>, TRUE, NoDocument, {d})]
    BY <1>4 DEF CompleteConversion, BeginConversion
  <2>2. PICK c : c = Opened("complete", "moving", d, q, <<Output[d]>>, TRUE, NoDocument, {d})
    OBVIOUS
  <2>3. d \in Documents /\ q \in Nat /\ <<Output[d]>> \in Seq(Items)
    BY <1>4, <2>1, DocumentsOf, LedgerAssumption, LinesTyped
  <2>4. /\ Typed(c) /\ c.op = "complete" /\ c.stage = "moving" /\ c.doc = d /\ c.seen = row[d]
        /\ c.qty = q /\ c.items = <<Output[d]>> /\ c.wants = NoDocument /\ c.locked = {d}
    BY <2>2, <2>3, LinesTyped DEF Opened, Typed, Ops
  <2>5. Works(c)
    BY <1>4, <2>1, <2>3, <2>4, WorksOn DEF ConversionCommand, BeginConversion, CompleteConversion
  <2> QED
    BY <1>4, <2>1, <2>2, <2>4, <2>5, BeginsOn DEF CompleteConversion, BeginConversion
<1>5. ASSUME NEW d \in Conversions, BeginConversion(w, d, "cancelConversion", {"DRAFT", "APPROVED"}, 0, <<>>, FALSE)
      PROVE  \E c : Begins(w, c)
  <2>1. cmd' = [cmd EXCEPT ![w] =
                    Opened("cancelConversion", "moving", d, 0, <<>>, FALSE, NoDocument, {d})]
    BY <1>5 DEF BeginConversion
  <2>2. PICK c : c = Opened("cancelConversion", "moving", d, 0, <<>>, FALSE, NoDocument, {d})
    OBVIOUS
  <2>3. d \in Documents
    BY <1>5, DocumentsOf
  <2>4. /\ Typed(c) /\ c.op = "cancelConversion" /\ c.stage = "moving" /\ c.doc = d /\ c.seen = row[d]
        /\ c.qty = 0 /\ c.items = <<>> /\ c.wants = NoDocument /\ c.locked = {d}
    BY <2>2, <2>3, LinesTyped DEF Opened, Typed, Ops
  <2>5. Works(c)
    BY <1>5, <2>1, <2>3, <2>4, WorksOn DEF ConversionCommand, BeginConversion
  <2> QED
    BY <1>5, <2>1, <2>2, <2>4, <2>5, BeginsOn DEF BeginConversion
<1>6. ASSUME NEW d \in Conversions, BeginConversion(w, d, "cancelConversion", {"IN_PROGRESS"}, row[d].qty, Lines[d], TRUE)
      PROVE  \E c : Begins(w, c)
  <2>1. cmd' = [cmd EXCEPT ![w] =
                    Opened("cancelConversion", "moving", d, row[d].qty, Lines[d], TRUE, NoDocument, {d})]
    BY <1>6 DEF BeginConversion
  <2>2. PICK c : c = Opened("cancelConversion", "moving", d, row[d].qty, Lines[d], TRUE, NoDocument, {d})
    OBVIOUS
  <2>3. d \in Documents /\ row[d].qty \in Int /\ Lines[d] \in Seq(Items)
    BY <1>6, DocumentsOf, LinesTyped DEF TypeOK, Rows
  <2>4. /\ Typed(c) /\ c.op = "cancelConversion" /\ c.stage = "moving" /\ c.doc = d /\ c.seen = row[d]
        /\ c.qty = row[d].qty /\ c.items = Lines[d] /\ c.wants = NoDocument /\ c.locked = {d}
    BY <2>2, <2>3, LinesTyped DEF Opened, Typed, Ops
  <2>5. Works(c)
    BY <1>6, <2>1, <2>3, <2>4, WorksOn DEF ConversionCommand, BeginConversion
  <2> QED
    BY <1>6, <2>1, <2>2, <2>4, <2>5, BeginsOn DEF BeginConversion
<1> QED
  BY <1>1, <1>2, <1>3, <1>4, <1>5, <1>6 DEF ConversionBegin, CancelConversion

LEMMA PurchaseBegins ==
  ASSUME Form, NEW w \in Workers, PurchaseBegin(w)
  PROVE  \E c : Begins(w, c)
<1> TypeOK
  BY DEF Form
<1>1. ASSUME NEW u \in Purchases, NEW q \in Nat, Open(w, u), row[u].status \in {"none", "PENDING"},
             cmd' = [cmd EXCEPT ![w] = Opened("note", "moving", u, q, <<>>, FALSE, NoDocument, {})],
             UNCHANGED <<live, stock, papers>>
      PROVE  \E c : Begins(w, c)
  <2>1. PICK c : c = Opened("note", "moving", u, q, <<>>, FALSE, NoDocument, {})
    OBVIOUS
  <2>2. /\ Typed(c) /\ c.op = "note" /\ c.stage = "moving" /\ c.doc = u /\ c.seen = row[u]
        /\ c.items = <<>> /\ c.locked = {}
    BY <1>1, <2>1, DocumentsOf, LinesTyped DEF Opened, Typed, Ops
  <2>3. Works(c)
    BY <1>1, <2>2, WorksOn DEF PurchaseCommand
  <2> QED
    BY <1>1, <2>1, <2>2, <2>3, BeginsOn
<1>2. ASSUME NEW u \in Purchases, NEW q \in Int, NEW locked \in {{}, {u}}, Open(w, u),
             row[u].status \in {"none", "PENDING"}, locked = {u} => Unlocked(u),
             cmd' = [cmd EXCEPT ![w] =
                       Opened("buy", "moving", u, q, Lines[u], TRUE, NoDocument, locked)],
             UNCHANGED <<live, stock, papers>>
      PROVE  \E c : Begins(w, c)
  <2>1. PICK c : c = Opened("buy", "moving", u, q, Lines[u], TRUE, NoDocument, locked)
    OBVIOUS
  <2>2. u \in Documents /\ Lines[u] \in Seq(Items) /\ locked \subseteq Documents
    BY <1>2, DocumentsOf, LinesTyped
  <2>3. /\ Typed(c) /\ c.op = "buy" /\ c.stage = "moving" /\ c.doc = u /\ c.seen = row[u]
        /\ c.items = Lines[u] /\ c.locked = locked
    BY <1>2, <2>1, <2>2 DEF Opened, Typed, Ops
  <2>4. Works(c)
    BY <1>2, <2>3, WorksOn DEF PurchaseCommand
  <2> QED
    BY <1>2, <2>1, <2>3, <2>4, BeginsOn
<1>3. ASSUME NEW u \in Purchases, RegisterPurchase(w, u)
      PROVE  \E c : Begins(w, c)
  <2>1. PICK q \in 1..MaxQuantity :
          \/ cmd' = [cmd EXCEPT ![w] = Opened("note", "moving", u, q, <<>>, FALSE, NoDocument, {})]
          \/ cmd' = [cmd EXCEPT ![w] = Opened("buy", "moving", u, q, Lines[u], TRUE, NoDocument, {})]
    BY <1>3 DEF RegisterPurchase
  <2>2. q \in Nat /\ q \in Int
    BY <2>1, LedgerAssumption
  <2>3. Open(w, u) /\ row[u].status \in {"none", "PENDING"} /\ UNCHANGED <<live, stock, papers>>
    BY <1>3 DEF RegisterPurchase, New
  <2> QED
    BY <1>1, <1>2, <1>3, <2>1, <2>2, <2>3
<1>4. ASSUME NEW u \in Purchases, ConfirmPurchase(w, u)
      PROVE  \E c : Begins(w, c)
  <2>1. row[u].qty \in Int
    BY <1>4, DocumentsOf DEF TypeOK, Rows
  <2> QED
    BY <1>2, <1>4, <2>1 DEF ConfirmPurchase
<1>5. ASSUME NEW u \in Purchases, EditPurchase(w, u)
      PROVE  \E c : Begins(w, c)
  <2>1. 1..MaxQuantity \subseteq Nat
    BY LedgerAssumption
  <2> QED
    BY <1>1, <1>5, <2>1 DEF EditPurchase
<1>6. ASSUME NEW u \in Purchases, Revise(w, u, "rejectPurchase", {"PENDING"})
      PROVE  \E c : Begins(w, c)
  <2>1. \A c : c.op = "rejectPurchase" /\ c.doc = u /\ c.seen.status \in {"PENDING"}
                 /\ c.items = <<>> /\ c.locked = {} => Works(c)
    BY WorksOn DEF PurchaseCommand
  <2> QED
    BY <1>6, <2>1, DocumentsOf, ReviseBegins DEF Ops
<1> QED
  BY <1>3, <1>4, <1>5, <1>6 DEF PurchaseBegin

\* A document that is filed in one step.
Files(w, d, new, n) ==
  /\ Open(w, d)
  /\ \/ /\ d \in Expenses /\ New(d) /\ new.status \in {"DRAFT", "SUBMITTED", "POSTED"}
        /\ n = OneIf(new.status = "POSTED") /\ (new.status = "POSTED" => d \in Journaled)
     \/ /\ d \in PendingOrders /\ n = 0 /\ new.status \in {"DRAFT", "PENDING"}
        /\ New(d) \/ row[d].status = "DRAFT"
  /\ row' = [row EXCEPT ![d] = new]
  /\ entries' = [entries EXCEPT ![d] = @ + n]
  /\ UNCHANGED <<live, stock, stale, consumed, cmd>>

LEMMA ExpenseBegins ==
  ASSUME Form, NEW w \in Workers, ExpenseBegin(w)
  PROVE  \/ \E c : Begins(w, c)
         \/ \E d \in Documents, new \in Rows, n \in {0, 1} : Files(w, d, new, n)
<1> TypeOK
  BY DEF Form
<1>1. ASSUME NEW x \in Expenses, RegisterExpense(w, x)
      PROVE  \E d \in Documents, new \in Rows, n \in {0, 1} : Files(w, d, new, n)
  <2>1. PICK q \in 1..MaxQuantity, status \in {"DRAFT", "SUBMITTED", "POSTED"} :
          /\ status = "POSTED" => x \in Journaled
          /\ row' = [row EXCEPT ![x] = Row(status, q, 0)]
          /\ Posted(x, OneIf(status = "POSTED"))
    BY <1>1 DEF RegisterExpense
  <2>2. q \in Nat
    BY <2>1, LedgerAssumption
  <2>3. PICK new \in Rows : new = Row(status, q, 0)
    <3>1. status \in Statuses /\ q \in Int /\ 0 \in Nat
      BY <2>1, <2>2 DEF Statuses
    <3>2. Row(status, q, 0) \in Rows
      BY <3>1 DEF Row, Rows
    <3> QED
      BY <3>2, Zenon
  <2>4. PICK n \in {0, 1} : n = OneIf(status = "POSTED")
    BY DEF OneIf
  <2>5. new.status = status
    BY <2>3 DEF Row
  <2>6. Files(w, x, new, n)
    BY <1>1, <2>1, <2>3, <2>4, <2>5 DEF RegisterExpense, Files, Posted
  <2> QED
    BY <1>1, <2>6, DocumentsOf
<1>2. ASSUME NEW x \in Expenses, EditExpense(w, x)
      PROVE  \E c : Begins(w, c)
  <2>1. PICK q \in 1..MaxQuantity :
          cmd' = [cmd EXCEPT ![w] =
                    Opened("editExpense", "moving", x, q, <<>>, FALSE, NoDocument, {})]
    BY <1>2 DEF EditExpense
  <2>2. PICK c : c = Opened("editExpense", "moving", x, q, <<>>, FALSE, NoDocument, {})
    OBVIOUS
  <2>3. x \in Documents /\ q \in Nat
    BY <1>2, <2>1, DocumentsOf, LedgerAssumption
  <2>4. /\ Typed(c) /\ c.op = "editExpense" /\ c.stage = "moving" /\ c.doc = x /\ c.seen = row[x]
        /\ c.qty = q /\ c.items = <<>> /\ c.wants = NoDocument /\ c.locked = {}
    BY <2>2, <2>3, LinesTyped DEF Opened, Typed, Ops
  <2>5. Works(c)
    BY <1>2, <2>1, <2>3, <2>4, WorksOn DEF ExpenseCommand, EditExpense
  <2> QED
    BY <1>2, <2>1, <2>2, <2>4, <2>5, BeginsOn DEF EditExpense
<1>3. ASSUME NEW x \in Expenses, ReviewExpense(w, x)
      PROVE  \E c : Begins(w, c)
  <2>1. \A c : c.op = "reviewExpense" /\ c.doc = x /\ c.seen.status \in {"SUBMITTED"}
                 /\ c.items = <<>> /\ c.locked = {} => Works(c)
    BY <1>3, WorksOn DEF ExpenseCommand, ReviewExpense
  <2> QED
    BY <1>3, <2>1, DocumentsOf, ReviseBegins DEF Ops, ReviewExpense
<1>4. ASSUME NEW x \in Expenses, Revise(w, x, "submitExpense", {"DRAFT"})
      PROVE  \E c : Begins(w, c)
  <2>1. \A c : c.op = "submitExpense" /\ c.doc = x /\ c.seen.status \in {"DRAFT"}
                 /\ c.items = <<>> /\ c.locked = {} => Works(c)
    BY WorksOn DEF ExpenseCommand
  <2> QED
    BY <1>4, <2>1, DocumentsOf, ReviseBegins DEF Ops
<1>5. ASSUME NEW x \in Expenses, Revise(w, x, "cancelExpense", {"DRAFT", "SUBMITTED"})
      PROVE  \E c : Begins(w, c)
  <2>1. \A c : c.op = "cancelExpense" /\ c.doc = x /\ c.seen.status \in {"DRAFT", "SUBMITTED"}
                 /\ c.items = <<>> /\ c.locked = {} => Works(c)
    BY WorksOn DEF ExpenseCommand
  <2> QED
    BY <1>5, <2>1, DocumentsOf, ReviseBegins DEF Ops
<1> QED
  BY <1>1, <1>2, <1>3, <1>4, <1>5 DEF ExpenseBegin

LEMMA PendingBegins ==
  ASSUME Form, NEW w \in Workers, PendingBegin(w)
  PROVE  \/ \E c : Begins(w, c)
         \/ \E d \in Documents, new \in Rows, n \in {0, 1} : Files(w, d, new, n)
<1> TypeOK
  BY DEF Form
<1>1. ASSUME NEW g \in PendingOrders, NEW status \in {"DRAFT", "PENDING"}, NEW q \in Int, Open(w, g),
             New(g) \/ row[g].status = "DRAFT", Filed(g, status, q)
      PROVE  \E d \in Documents, new \in Rows, n \in {0, 1} : Files(w, d, new, n)
  <2>1. PICK new \in Rows : new = Row(status, q, 0)
    BY <1>1 DEF Row, Rows, Statuses
  <2>2. new.status = status
    BY <2>1 DEF Row
  <2>3. entries' = [entries EXCEPT ![g] = @ + 0]
    <3>1. entries' = entries /\ entries \in [Documents -> Int] /\ g \in Documents
      BY <1>1, DocumentsOf DEF TypeOK, Filed
    <3> QED
      BY <3>1
  <2>4. Files(w, g, new, 0)
    BY <1>1, <2>1, <2>2, <2>3 DEF Filed, Files
  <2> QED
    BY <1>1, <2>4, DocumentsOf
<1>2. ASSUME NEW g \in PendingOrders, Collect(w, g) \/ SubmitDraft(w, g) \/ RegisterPending(w, g)
      PROVE  \E d \in Documents, new \in Rows, n \in {0, 1} : Files(w, d, new, n)
  <2>1. row[g].qty \in Int
    BY <1>2, DocumentsOf DEF TypeOK, Rows
  <2>2. 0..MaxQuantity \subseteq Int /\ 1..MaxQuantity \subseteq Int
    BY LedgerAssumption
  <2> QED
    BY <1>1, <1>2, <2>1, <2>2 DEF Collect, SubmitDraft, RegisterPending
<1>3. ASSUME NEW g \in PendingOrders, ConfirmPending(w, g)
      PROVE  \E c : Begins(w, c)
  <2>1. cmd' = [cmd EXCEPT ![w] =
                    Opened("confirmPending", "moving", g, -row[g].qty, Lines[g], FALSE, NoDocument, {})]
    BY <1>3 DEF ConfirmPending
  <2>2. PICK c : c = Opened("confirmPending", "moving", g, -row[g].qty, Lines[g], FALSE, NoDocument, {})
    OBVIOUS
  <2>3. g \in Documents /\ row[g].qty \in Int /\ Lines[g] \in Seq(Items)
    BY <1>3, DocumentsOf, LinesTyped DEF TypeOK, Rows
  <2>4. /\ Typed(c) /\ c.op = "confirmPending" /\ c.stage = "moving" /\ c.doc = g /\ c.seen = row[g]
        /\ c.qty = -row[g].qty /\ c.items = Lines[g] /\ c.wants = NoDocument /\ c.locked = {}
    BY <2>2, <2>3, LinesTyped DEF Opened, Typed, Ops
  <2>5. Works(c)
    BY <1>3, <2>1, <2>3, <2>4, WorksOn DEF PendingCommand, ConfirmPending
  <2> QED
    BY <1>3, <2>1, <2>2, <2>4, <2>5, BeginsOn DEF ConfirmPending
<1>4. ASSUME NEW g \in PendingOrders, Revise(w, g, "rejectPending", {"PENDING"})
      PROVE  \E c : Begins(w, c)
  <2>1. \A c : c.op = "rejectPending" /\ c.doc = g /\ c.seen.status \in {"PENDING"}
                 /\ c.items = <<>> /\ c.locked = {} => Works(c)
    BY WorksOn DEF PendingCommand
  <2> QED
    BY <1>4, <2>1, DocumentsOf, ReviseBegins DEF Ops
<1> QED
  BY <1>2, <1>3, <1>4 DEF PendingBegin

\* What begins opens a transaction, or files a document.
LEMMA WhatBegins ==
  ASSUME Form, NEW w \in Workers, Begin(w)
  PROVE  \/ \E c : Begins(w, c)
         \/ \E d \in Documents, new \in Rows, n \in {0, 1} : Files(w, d, new, n)
BY TransferBegins, ReceiptBegins, InvoiceBegins, ConversionBegins, PurchaseBegins, ExpenseBegins,
   PendingBegins DEF Begin

-----------------------------------------------------------------------------
(* What goes on.                                                            *)

\* The commands and the documents they work on.
LEMMA InCommand ==
  ASSUME Form, NEW w \in Workers
  PROVE  /\ cmd[w] \in Commands /\ Works(cmd[w]) /\ Staged(cmd[w])
         /\ cmd[w].qty \in Int /\ cmd[w].items \in Seq(Items) /\ cmd[w].line \in Nat
         /\ cmd[w].seen \in Rows /\ cmd[w].seen.status \in Statuses
         /\ cmd[w].seen.qty \in Int /\ cmd[w].seen.got \in Nat
         /\ cmd[w].moves \in [Keys -> Int] /\ cmd[w].wrote \in [Keys -> Int]
         /\ cmd[w].held \subseteq Keys /\ cmd[w].locked \subseteq Documents
         /\ cmd[w].system \in [Items -> Int]
         /\ cmd[w].stage # "idle" => cmd[w].doc \in Documents /\ cmd[w].doc \in live
<1>1. cmd[w] \in Commands /\ Works(cmd[w]) /\ Staged(cmd[w]) /\ live \subseteq Documents
  BY LedgerAssumption DEF Form, TypeOK, Sound
<1>2. cmd[w].seen \in Rows
  BY <1>1 DEF Commands
<1>3. cmd[w].seen.status \in Statuses /\ cmd[w].seen.qty \in Int /\ cmd[w].seen.got \in Nat
  BY <1>2 DEF Rows
<1>4. cmd[w].stage # "idle" => cmd[w].doc \in live
  BY <1>1 DEF Staged
<1> QED
  BY <1>1, <1>2, <1>3, <1>4 DEF Commands

\* What a commit leaves alone.
Posts(w) ==
  /\ entries' \in [Documents -> Int]
  /\ \A d \in Documents \ {cmd[w].doc} : entries'[d] = entries[d]

Uses(w) ==
  /\ consumed' \in [Documents -> Nat]
  /\ \A d \in Documents \ {cmd[w].doc} : consumed'[d] = consumed[d]

Writes(w) ==
  /\ row' \in [Documents -> Rows]
  /\ stale \subseteq stale' /\ stale' \subseteq stale \cup {cmd[w].doc}
  /\ \A d \in Documents \ {cmd[w].doc} :
       \/ row'[d] = row[d]
       \/ cmd[w].op \in {"confirm", "complete"} /\ Stored(w, d)
       \/ cmd[w].op = "confirm" /\ d \in LocksOf(cmd[w].doc)

Commits(w) ==
  /\ Complete(w) /\ Free(w) /\ cmd[w].op # "confirmPending"
  /\ Settle(w) /\ Posts(w) /\ Uses(w) /\ Writes(w)

LEMMA Untouched ==
  ASSUME Form, NEW w \in Workers
  PROVE  /\ UNCHANGED entries => Posts(w)
         /\ UNCHANGED consumed => Uses(w)
BY DEF Form, TypeOK, Posts, Uses

LEMMA EntriesPosted ==
  ASSUME Form, NEW w \in Workers, NEW n \in Int, Posted(cmd[w].doc, n)
  PROVE  Posts(w)
<1>1. entries \in [Documents -> Int] /\ entries' = [entries EXCEPT ![cmd[w].doc] = @ + n]
  BY DEF Form, TypeOK, Posted
<1>2. \A d \in Documents : entries'[d] = IF d = cmd[w].doc THEN entries[d] + n ELSE entries[d]
  BY <1>1
<1>3. \A d \in Documents : entries[d] \in Int /\ entries[d] + n \in Int
  BY <1>1
<1>4. \A d \in Documents : entries'[d] \in Int
  BY <1>2, <1>3
<1>5. entries' \in [Documents -> Int]
  BY <1>1, <1>4
<1> QED
  BY <1>2, <1>5 DEF Posts

LEMMA RowSaved ==
  ASSUME Form, NEW w \in Workers, NEW new \in Rows, Save(w, new)
  PROVE  Writes(w)
<1>1. row \in [Documents -> Rows] /\ row' = [row EXCEPT ![cmd[w].doc] = new]
      /\ (stale' = stale \/ stale' = stale \cup {cmd[w].doc})
  BY DEF Form, TypeOK, Save
<1> QED
  BY <1>1 DEF Writes

LEMMA RowTyped ==
  ASSUME NEW status \in Statuses, NEW qty \in Int, NEW got \in Nat
  PROVE  /\ Row(status, qty, got) \in Rows
         /\ Row(status, qty, got).status = status
         /\ Row(status, qty, got).qty = qty /\ Row(status, qty, got).got = got
BY DEF Row, Rows

LEMMA OneOrNone ==
  ASSUME NEW condition
  PROVE  /\ OneIf(condition) \in {0, 1}
         /\ OneIf(condition) \in Int /\ OneIf(condition) \in Nat
BY DEF OneIf

LEMMA RevisedCommits ==
  ASSUME Form, NEW w \in Workers, NEW op \in Ops, op # "confirmPending", NEW status \in Statuses,
         Revised(w, op, status)
  PROVE  Commits(w)
<1>1. Row(status, cmd[w].seen.qty, cmd[w].seen.got) \in Rows
  BY InCommand, RowTyped
<1>2. /\ Ready(w, op) /\ Settle(w) /\ UNCHANGED <<entries, consumed>>
      /\ Save(w, Row(status, cmd[w].seen.qty, cmd[w].seen.got))
  BY DEF Revised
<1> QED
  BY <1>1, <1>2, RowSaved, Untouched DEF Commits, Ready

LEMMA DocumentCommits ==
  ASSUME Form, NEW w \in Workers,
         TransferStep(w) \/ InvoiceStep(w) \/ PurchaseStep(w) \/ ExpenseStep(w)
  PROVE  \/ CountLine(w)
         \/ Complete(w) /\ Rollback(w)
         \/ Commits(w)
<1>1. CASE Revised(w, "approve", "APPROVED")
  BY <1>1, RevisedCommits DEF Ops, Statuses
<1>2. CASE Revised(w, "reject", "REJECTED")
  BY <1>2, RevisedCommits DEF Ops, Statuses
<1>3. CASE Revised(w, "cancel", "CANCELLED")
  BY <1>3, RevisedCommits DEF Ops, Statuses
<1>4. CASE Revised(w, "adjust", "RECORDED")
  BY <1>4, RevisedCommits DEF Ops, Statuses
<1>5. CASE Revised(w, "rejectPurchase", "REJECTED")
  BY <1>5, RevisedCommits DEF Ops, Statuses
<1>6. CASE Revised(w, "submitExpense", "SUBMITTED")
  BY <1>6, RevisedCommits DEF Ops, Statuses
<1>7. CASE Revised(w, "cancelExpense", "CANCELLED")
  BY <1>7, RevisedCommits DEF Ops, Statuses
<1>8. CASE Dispatched(w)
  <2>1. /\ Ready(w, "dispatch") /\ Settle(w) /\ Save(w, Row("DISPATCHED", -cmd[w].qty, cmd[w].seen.got))
        /\ UNCHANGED entries /\ UNCHANGED consumed
    BY <1>8 DEF Dispatched
  <2>2. "DISPATCHED" \in Statuses /\ -cmd[w].qty \in Int /\ cmd[w].seen.got \in Nat
    BY InCommand DEF Statuses
  <2>3. Row("DISPATCHED", -cmd[w].qty, cmd[w].seen.got) \in Rows
    BY <2>2, RowTyped, Zenon
  <2> QED
    BY <2>1, <2>3, RowSaved, Untouched DEF Commits, Ready
<1>9. CASE Received(w)
  <2>1. /\ Ready(w, "receive") /\ Settle(w) /\ Save(w, Row("RECEIVED", cmd[w].seen.qty, cmd[w].qty))
        /\ UNCHANGED entries /\ UNCHANGED consumed
    BY <1>9 DEF Received
  <2>2. "RECEIVED" \in Statuses /\ cmd[w].seen.qty \in Int /\ cmd[w].qty \in Nat
    BY <2>1, InCommand DEF Statuses, Ready, Works, Belongs, TransferOps, TransferCommand
  <2>3. Row("RECEIVED", cmd[w].seen.qty, cmd[w].qty) \in Rows
    BY <2>2, RowTyped, Zenon
  <2> QED
    BY <2>1, <2>3, RowSaved, Untouched DEF Commits, Ready
<1>10. CASE Counted(w)
  <2>1. PICK n \in Nat :
          /\ Ready(w, "count") /\ Settle(w) /\ Save(w, Row("RECORDED", cmd[w].qty, 0))
          /\ Posted(cmd[w].doc, n) /\ UNCHANGED consumed
    <3>1. Cardinality(cmd[w].held) \in Nat
      BY InCommand, LedgerAssumption, FS_Subset, FS_CardinalityType
    <3> QED
      BY <1>10, <3>1 DEF Counted
  <2>2. "RECORDED" \in Statuses /\ cmd[w].qty \in Int /\ 0 \in Nat
    BY InCommand DEF Statuses
  <2>3. Row("RECORDED", cmd[w].qty, 0) \in Rows
    BY <2>2, RowTyped, Zenon
  <2>4. n \in Int
    OBVIOUS
  <2> QED
    BY <2>1, <2>3, <2>4, RowSaved, EntriesPosted, Untouched DEF Commits, Ready
<1>11. CASE Approved(w)
  <2>1. /\ Ready(w, "approveInvoice") /\ Settle(w) /\ Save(w, Row("APPROVED", row[cmd[w].doc].qty, OneIf(cmd[w].doc \in Journaled)))
        /\ Posted(cmd[w].doc, OneIf(cmd[w].doc \in Journaled)) /\ UNCHANGED consumed
    BY <1>11 DEF Approved
  <2>2. "APPROVED" \in Statuses /\ row[cmd[w].doc].qty \in Int /\ OneIf(cmd[w].doc \in Journaled) \in Nat
    BY <2>1, InCommand DEF OneIf, Statuses, Ready, Complete, Form, TypeOK, Rows
  <2>3. Row("APPROVED", row[cmd[w].doc].qty, OneIf(cmd[w].doc \in Journaled)) \in Rows
    BY <2>2, RowTyped, Zenon
  <2>4. OneIf(cmd[w].doc \in Journaled) \in Int
    BY DEF OneIf
  <2> QED
    BY <2>1, <2>3, <2>4, RowSaved, EntriesPosted, Untouched DEF Commits, Ready
<1>12. CASE InvoiceCancelled(w)
  <2>1. /\ Ready(w, "cancelInvoice") /\ Settle(w) /\ Save(w, Row("CANCELLED", row[cmd[w].doc].qty, cmd[w].seen.got))
        /\ Posted(cmd[w].doc, -cmd[w].seen.got) /\ UNCHANGED consumed
    BY <1>12 DEF InvoiceCancelled
  <2>2. "CANCELLED" \in Statuses /\ row[cmd[w].doc].qty \in Int /\ cmd[w].seen.got \in Nat
    BY <2>1, InCommand DEF Statuses, Ready, Complete, Form, TypeOK, Rows
  <2>3. Row("CANCELLED", row[cmd[w].doc].qty, cmd[w].seen.got) \in Rows
    BY <2>2, RowTyped, Zenon
  <2>4. -cmd[w].seen.got \in Int
    BY InCommand
  <2> QED
    BY <2>1, <2>3, <2>4, RowSaved, EntriesPosted, Untouched DEF Commits, Ready
<1>13. CASE Paid(w)
  <2>1. /\ Ready(w, "pay") /\ Settle(w) /\ Save(w, Row(IF row[cmd[w].doc].qty + cmd[w].qty >= Invoiced[cmd[w].doc] THEN "PAID" ELSE "PARTIALLY_PAID", row[cmd[w].doc].qty + cmd[w].qty, cmd[w].seen.got))
        /\ UNCHANGED entries /\ UNCHANGED consumed
    BY <1>13 DEF Paid
  <2>2. row[cmd[w].doc].qty + cmd[w].qty \in Int /\ cmd[w].seen.got \in Nat
        /\ (IF row[cmd[w].doc].qty + cmd[w].qty >= Invoiced[cmd[w].doc] THEN "PAID"
            ELSE "PARTIALLY_PAID") \in Statuses
    BY <2>1, InCommand DEF Statuses, Ready, Complete, Form, TypeOK, Rows
  <2>3. Row(IF row[cmd[w].doc].qty + cmd[w].qty >= Invoiced[cmd[w].doc] THEN "PAID" ELSE "PARTIALLY_PAID", row[cmd[w].doc].qty + cmd[w].qty, cmd[w].seen.got) \in Rows
    BY <2>2, RowTyped, Zenon
  <2> QED
    BY <2>1, <2>3, RowSaved, Untouched DEF Commits, Ready
<1>14. CASE Bought(w)
  <2>1. /\ Ready(w, "buy") /\ Settle(w) /\ Save(w, Row("CONFIRMED", cmd[w].qty, 0))
        /\ Posted(cmd[w].doc, OneIf(cmd[w].doc \in Journaled /\ Lines[cmd[w].doc] # <<>>)) /\ UNCHANGED consumed
    BY <1>14 DEF Bought
  <2>2. "CONFIRMED" \in Statuses /\ cmd[w].qty \in Int /\ 0 \in Nat
    BY InCommand DEF Statuses
  <2>3. Row("CONFIRMED", cmd[w].qty, 0) \in Rows
    BY <2>2, RowTyped, Zenon
  <2>4. OneIf(cmd[w].doc \in Journaled /\ Lines[cmd[w].doc] # <<>>) \in Int
    BY OneOrNone
  <2> QED
    BY <2>1, <2>3, <2>4, RowSaved, EntriesPosted, Untouched DEF Commits, Ready
<1>15. CASE Noted(w)
  <2>1. /\ Ready(w, "note") /\ Settle(w) /\ Save(w, Row("PENDING", cmd[w].qty, 0))
        /\ UNCHANGED entries /\ UNCHANGED consumed
    BY <1>15 DEF Noted
  <2>2. "PENDING" \in Statuses /\ cmd[w].qty \in Int /\ 0 \in Nat
    BY InCommand DEF Statuses
  <2>3. Row("PENDING", cmd[w].qty, 0) \in Rows
    BY <2>2, RowTyped, Zenon
  <2> QED
    BY <2>1, <2>3, RowSaved, Untouched DEF Commits, Ready
<1>16. CASE Edited(w)
  <2>1. /\ Ready(w, "editExpense") /\ Settle(w) /\ Save(w, Row("SUBMITTED", cmd[w].qty, 0))
        /\ UNCHANGED entries /\ UNCHANGED consumed
    BY <1>16 DEF Edited
  <2>2. "SUBMITTED" \in Statuses /\ cmd[w].qty \in Int /\ 0 \in Nat
    BY InCommand DEF Statuses
  <2>3. Row("SUBMITTED", cmd[w].qty, 0) \in Rows
    BY <2>2, RowTyped, Zenon
  <2> QED
    BY <2>1, <2>3, RowSaved, Untouched DEF Commits, Ready
<1>17. CASE Reviewed(w)
  <2>1. /\ Ready(w, "reviewExpense") /\ Settle(w) /\ Save(w, Row("POSTED", cmd[w].seen.qty, 0))
        /\ Posted(cmd[w].doc, 1) /\ UNCHANGED consumed
    BY <1>17 DEF Reviewed
  <2>2. "POSTED" \in Statuses /\ cmd[w].seen.qty \in Int /\ 0 \in Nat
    BY InCommand DEF Statuses
  <2>3. Row("POSTED", cmd[w].seen.qty, 0) \in Rows
    BY <2>2, RowTyped, Zenon
  <2>4. 1 \in Int
    BY SMT
  <2> QED
    BY <2>1, <2>3, <2>4, RowSaved, EntriesPosted, Untouched DEF Commits, Ready
<1>18. CASE CountLine(w)
  BY <1>18
<1>19. CASE Refused(w) \/ AlreadyReversed(w)
  BY <1>19 DEF Refused, Misplaced, AlreadyReversed, Ready
<1> QED
  BY <1>1, <1>2, <1>3, <1>4, <1>5, <1>6, <1>7, <1>8, <1>9, <1>10, <1>11, <1>12, <1>13, <1>14, <1>15, <1>16, <1>17, <1>18, <1>19
  DEF TransferStep, InvoiceStep, PurchaseStep, ExpenseStep

LEMMA ConfirmedCommits ==
  ASSUME Form, NEW w \in Workers, Confirmed(w)
  PROVE  Commits(w)
<1> DEFINE r == cmd[w].doc
<1>1. /\ Ready(w, "confirm") /\ Settle(w) /\ Posted(r, OneIf(r \in Journaled))
      /\ UNCHANGED <<stale, consumed>>
      /\ row' = [d \in Documents |->
           IF d = r THEN Row("CONFIRMED", cmd[w].seen.qty, 0)
           ELSE IF Stored(w, d) THEN NewBatch(w)
           ELSE IF d \in LocksOf(r) THEN Row(Progress(d, r), row[d].qty, row[d].got)
           ELSE row[d]]
  BY DEF Confirmed
<1>2. "CONFIRMED" \in Statuses /\ "active" \in Statuses
  BY DEF Statuses
<1>3. Row("CONFIRMED", cmd[w].seen.qty, 0) \in Rows
  BY <1>2, InCommand, RowTyped
<1>4. NewBatch(w) \in Rows
  BY <1>2, InCommand, RowTyped DEF NewBatch
<1>5. ASSUME NEW d \in Documents
      PROVE  row[d] \in Rows /\ Row(Progress(d, r), row[d].qty, row[d].got) \in Rows
  <2>1. row[d] \in Rows
    BY DEF Form, TypeOK
  <2>2. row[d].status \in Statuses /\ row[d].qty \in Int /\ row[d].got \in Nat
    BY <2>1 DEF Rows
  <2>3. Progress(d, r) \in Statuses
    <3>1. "RECEIVED" \in Statuses /\ "PARTIALLY_RECEIVED" \in Statuses
      BY DEF Statuses
    <3> QED
      BY <2>2, <3>1 DEF Progress
  <2> QED
    BY <2>1, <2>2, <2>3, RowTyped
<1>6. row' \in [Documents -> Rows]
  BY <1>1, <1>3, <1>4, <1>5
<1>7. Writes(w)
  BY <1>1, <1>6 DEF Writes, Ready
<1>8. OneIf(r \in Journaled) \in Int
  BY DEF OneIf
<1>9. Posts(w)
  BY <1>1, <1>8, EntriesPosted
<1> HIDE DEF r
<1> QED
  BY <1>1, <1>7, <1>9, Untouched DEF Commits, Ready

LEMMA CompletedCommits ==
  ASSUME Form, NEW w \in Workers, Completed(w)
  PROVE  Commits(w)
<1> DEFINE c == cmd[w].doc
<1>1. /\ Ready(w, "complete") /\ Settle(w) /\ Posted(c, OneIf(c \in Journaled))
      /\ UNCHANGED <<stale, consumed>>
      /\ row' = [d \in Documents |->
           IF d = c THEN Row("COMPLETED", cmd[w].seen.qty, cmd[w].qty)
           ELSE IF Stored(w, d) THEN NewBatch(w)
           ELSE row[d]]
  BY DEF Completed
<1>2. "COMPLETED" \in Statuses /\ "active" \in Statuses
  BY DEF Statuses
<1>3. cmd[w].qty \in Nat
  BY <1>1, InCommand DEF Ready, Works, Belongs, ConversionOps, ConversionCommand
<1>4. Row("COMPLETED", cmd[w].seen.qty, cmd[w].qty) \in Rows
  BY <1>2, <1>3, InCommand, RowTyped
<1>5. NewBatch(w) \in Rows
  BY <1>2, InCommand, RowTyped DEF NewBatch
<1>6. row' \in [Documents -> Rows]
  BY <1>1, <1>4, <1>5 DEF Form, TypeOK
<1>7. Writes(w)
  BY <1>1, <1>6 DEF Writes, Ready
<1>8. OneIf(c \in Journaled) \in Int
  BY DEF OneIf
<1>9. Posts(w)
  BY <1>1, <1>8, EntriesPosted
<1> HIDE DEF c
<1> QED
  BY <1>1, <1>7, <1>9, Untouched DEF Commits, Ready

LEMMA ReceiptCommits ==
  ASSUME Form, NEW w \in Workers, ReceiptStep(w)
  PROVE  \/ LockOrder(w)
         \/ cmd[w].stage = "locking" /\ Rollback(w)
         \/ Commits(w)
<1>1. CASE Revised(w, "send", "SENT")
  BY <1>1, RevisedCommits DEF Ops, Statuses
<1>2. CASE Revised(w, "cancelOrder", "CANCELLED")
  BY <1>2, RevisedCommits DEF Ops, Statuses
<1>3. CASE Revised(w, "cancelReturn", "CANCELLED")
  BY <1>3, RevisedCommits DEF Ops, Statuses
<1>4. CASE Revised(w, "expire", "expired")
  BY <1>4, RevisedCommits DEF Ops, Statuses
<1>5. CASE Registered(w)
  <2>1. /\ Ready(w, "register") /\ Settle(w) /\ Save(w, Row("DRAFT", cmd[w].qty, 0))
        /\ UNCHANGED entries /\ UNCHANGED consumed
    BY <1>5 DEF Registered
  <2>2. "DRAFT" \in Statuses /\ cmd[w].qty \in Int /\ 0 \in Nat
    BY InCommand DEF Statuses
  <2>3. Row("DRAFT", cmd[w].qty, 0) \in Rows
    BY <2>2, RowTyped, Zenon
  <2> QED
    BY <2>1, <2>3, RowSaved, Untouched DEF Commits, Ready
<1>6. CASE PostedReturn(w)
  <2>1. /\ Ready(w, "post") /\ Settle(w) /\ Save(w, Row("POSTED", cmd[w].seen.qty, 0))
        /\ Posted(cmd[w].doc, OneIf(cmd[w].doc \in Journaled)) /\ UNCHANGED consumed
    BY <1>6 DEF PostedReturn
  <2>2. "POSTED" \in Statuses /\ cmd[w].seen.qty \in Int /\ 0 \in Nat
    BY InCommand DEF Statuses
  <2>3. Row("POSTED", cmd[w].seen.qty, 0) \in Rows
    BY <2>2, RowTyped, Zenon
  <2>4. OneIf(cmd[w].doc \in Journaled) \in Int
    BY OneOrNone
  <2> QED
    BY <2>1, <2>3, <2>4, RowSaved, EntriesPosted, Untouched DEF Commits, Ready
<1>7. CASE WrittenOff(w)
  <2>1. PICK left \in Int, status \in {"depleted", "active"} :
          /\ Ready(w, "writeOff") /\ Settle(w) /\ Save(w, Row(status, left, 0))
          /\ consumed' = [consumed EXCEPT ![cmd[w].doc] = @ + cmd[w].qty] /\ UNCHANGED entries
    BY <1>7, InCommand DEF WrittenOff
  <2>2. status \in Statuses /\ 0 \in Nat
    BY <2>1 DEF Statuses
  <2>3. Row(status, left, 0) \in Rows
    BY <2>2, RowTyped, Zenon
  <2>4. cmd[w].qty \in Nat
    BY <2>1, InCommand DEF Ready, Works, Belongs, BatchOps, BatchCommand
  <2>5. Uses(w)
    <3>1. consumed \in [Documents -> Nat]
      BY DEF Form, TypeOK
    <3>2. \A d \in Documents :
            consumed'[d] = IF d = cmd[w].doc THEN consumed[d] + cmd[w].qty ELSE consumed[d]
      BY <2>1, <3>1
    <3>3. \A d \in Documents : consumed[d] \in Nat /\ consumed[d] + cmd[w].qty \in Nat
      BY <2>4, <3>1
    <3>4. consumed' \in [Documents -> Nat]
      BY <2>1, <3>1, <3>2, <3>3
    <3> QED
      BY <3>2, <3>4 DEF Uses
  <2> QED
    BY <2>1, <2>3, <2>5, RowSaved, Untouched DEF Commits, Ready
<1>8. CASE Confirmed(w)
  BY <1>8, ConfirmedCommits
<1>9. CASE LockOrder(w) \/ TooMuch(w)
  BY <1>9 DEF TooMuch
<1> QED
  BY <1>1, <1>2, <1>3, <1>4, <1>5, <1>6, <1>7, <1>8, <1>9 DEF ReceiptStep

LEMMA ConversionCommits ==
  ASSUME Form, NEW w \in Workers, ConversionStep(w)
  PROVE  Commits(w)
<1>1. CASE Revised(w, "registerConversion", "DRAFT")
  BY <1>1, RevisedCommits DEF Ops, Statuses
<1>2. CASE Revised(w, "approveConversion", "APPROVED")
  BY <1>2, RevisedCommits DEF Ops, Statuses
<1>3. CASE Revised(w, "cancelConversion", "CANCELLED")
  BY <1>3, RevisedCommits DEF Ops, Statuses
<1>4. CASE Started(w)
  <2>1. /\ Ready(w, "start") /\ Settle(w) /\ Save(w, Row("IN_PROGRESS", -cmd[w].qty, 0))
        /\ UNCHANGED entries /\ UNCHANGED consumed
    BY <1>4 DEF Started
  <2>2. "IN_PROGRESS" \in Statuses /\ -cmd[w].qty \in Int /\ 0 \in Nat
    BY InCommand DEF Statuses
  <2>3. Row("IN_PROGRESS", -cmd[w].qty, 0) \in Rows
    BY <2>2, RowTyped, Zenon
  <2> QED
    BY <2>1, <2>3, RowSaved, Untouched DEF Commits, Ready
<1>5. CASE Completed(w)
  BY <1>5, CompletedCommits
<1> QED
  BY <1>1, <1>2, <1>3, <1>4, <1>5 DEF ConversionStep

LEMMA PendingCommits ==
  ASSUME Form, NEW w \in Workers, PendingStep(w)
  PROVE  OrderRegistered(w) \/ SaveConfirmed(w) \/ Commits(w)
BY RevisedCommits DEF PendingStep, Ops, Statuses

RollsBack(w) == cmd[w].stage \notin {"idle", "saving"} /\ Rollback(w)

\* Whoever waits has not come to the saving.
LEMMA WhatGoesOn ==
  ASSUME Form, NEW w \in Workers, Step(w) \/ Victim(w) \/ Fail(w)
  PROVE  \/ MoveLine(w) \/ SkipLine(w) \/ CountLine(w) \/ LockOrder(w)
         \/ RollsBack(w)
         \/ Step(w) /\ Commits(w)
         \/ OrderRegistered(w) \/ SaveConfirmed(w)
<1>1. CASE MoveLine(w) \/ SkipLine(w) \/ Short(w)
  BY <1>1 DEF Short, RollsBack, Moving
<1>2. CASE Victim(w)
  <2>1. PICK u \in Workers : WaitsFor(w, u)
    BY <1>2 DEF Victim, Deadlocked
  <2> QED
    BY <1>2, <2>1 DEF WaitsFor, Victim, RollsBack, Moving, Complete
<1>3. CASE Fail(w)
  BY <1>3 DEF Fail, RollsBack
<1>4. Complete(w) => cmd[w].stage \notin {"idle", "saving"}
  BY DEF Complete
<1>5. cmd[w].stage = "locking" => cmd[w].stage \notin {"idle", "saving"}
  OBVIOUS
<1> QED
  BY <1>1, <1>2, <1>3, <1>4, <1>5, DocumentCommits, ReceiptCommits, ConversionCommits, PendingCommits
  DEF Step, RollsBack

-----------------------------------------------------------------------------
(* Types.                                                                   *)

StockTyped ==
  /\ balance \in [Keys -> Int]
  /\ total \in [Keys -> Int]
  /\ moved \in [Documents -> [Keys -> Int]]

PapersTyped ==
  /\ row \in [Documents -> Rows]
  /\ stale \subseteq live
  /\ entries \in [Documents -> Int]
  /\ consumed \in [Documents -> Nat]

LEMMA CommandForm ==
  ASSUME Form, NEW w \in Workers, NEW c \in Commands, Sound(c),
         cmd' = [cmd EXCEPT ![w] = c], UNCHANGED live, StockTyped', PapersTyped'
  PROVE  Form'
<1>1. live' \in Scenarios /\ cmd \in [Workers -> Commands] /\ cmd' \in [Workers -> Commands]
  BY DEF Form, TypeOK
<1>2. \A v \in Workers : cmd'[v] = IF v = w THEN c ELSE cmd[v]
  BY <1>1
<1>3. \A v \in Workers : Sound(cmd'[v])
  BY <1>2 DEF Form
<1>4. \A v \in Workers : Sound(cmd[v])'
  BY <1>3 DEF Sound, Staged
<1>5. \A v \in Workers : cmd'[v].stage = "idle" <=> cmd'[v] = NoCommand
  BY <1>3 DEF Sound, Staged
<1>6. TypeOK'
  BY <1>1, <1>5 DEF TypeOK, StockTyped, PapersTyped
<1> QED
  BY <1>4, <1>6 DEF Form

LEMMA TypedParts == ASSUME Form PROVE StockTyped /\ PapersTyped
BY DEF Form, TypeOK, StockTyped, PapersTyped

LEMMA UnchangedParts ==
  ASSUME Form, UNCHANGED live
  PROVE  /\ UNCHANGED stock => StockTyped'
         /\ UNCHANGED papers => PapersTyped'
BY TypedParts DEF StockTyped, PapersTyped, stock, papers

LEMMA OnlyForm ==
  ASSUME Form, NEW w \in Workers, NEW c \in Commands, Sound(c), Only(w, c)
  PROVE  Form'
BY UnchangedParts, CommandForm DEF Only

LEMMA FiledForm ==
  ASSUME Form, NEW w \in Workers, NEW d \in Documents, NEW new \in Rows, NEW n \in {0, 1},
         Files(w, d, new, n)
  PROVE  Form'
<1>1. /\ row' = [row EXCEPT ![d] = new] /\ entries' = [entries EXCEPT ![d] = @ + n]
      /\ UNCHANGED <<live, stock, stale, consumed, cmd>>
  BY DEF Files
<1>2. n \in Int
  OBVIOUS
<1>3. PapersTyped'
  BY <1>1, <1>2, TypedParts DEF PapersTyped
<1>4. StockTyped'
  BY <1>1, UnchangedParts
<1>5. TypeOK'
  BY <1>1, <1>3, <1>4 DEF Form, TypeOK, StockTyped, PapersTyped
<1>6. \A v \in Workers : Sound(cmd[v])'
  BY <1>1 DEF Form, Sound, Staged, Works
<1> QED
  BY <1>5, <1>6 DEF Form

LEMMA LineTyped ==
  ASSUME Form, NEW w \in Workers, cmd[w].stage # "idle", cmd[w].line <= Len(cmd[w].items)
  PROVE  /\ cmd[w].line \in 1..Len(cmd[w].items)
         /\ Item(w) \in Items /\ Key(w) \in Keys /\ Delta(w) \in Int /\ After(w) \in Int
         /\ Key(w) = <<Branch(cmd[w]), Item(w)>>
<1>1. cmd[w].line \in 1..Len(cmd[w].items)
  BY InCommand DEF Staged
<1>2. Item(w) \in Items
  BY <1>1, InCommand DEF Item
<1>3. cmd[w].doc \in Documents /\ Branch(cmd[w]) \in Branches
  BY InCommand, LedgerAssumption DEF Branch
<1>4. Key(w) = <<Branch(cmd[w]), Item(w)>>
  BY DEF Key, Branch
<1>5. Key(w) \in Keys
  BY <1>2, <1>3, <1>4 DEF Keys
<1>6. Delta(w) \in Int
  BY <1>2, InCommand DEF Delta
<1>7. balance[Key(w)] \in Int
  BY <1>5 DEF Form, TypeOK
<1> QED
  BY <1>1, <1>2, <1>4, <1>5, <1>6, <1>7 DEF After

\* A line is moved.
Moves(w, c) ==
  /\ Only(w, c) /\ c \in Commands /\ Sound(c)
  /\ c.stage = "moving" /\ c.op = cmd[w].op /\ c.doc = cmd[w].doc
  /\ c.seen = cmd[w].seen /\ c.qty = cmd[w].qty /\ c.items = cmd[w].items
  /\ c.line = cmd[w].line + 1 /\ c.locked = cmd[w].locked
  /\ c.held = cmd[w].held \cup {Key(w)}
  /\ c.wrote = [cmd[w].wrote EXCEPT ![Key(w)] = After(w)]
  /\ c.moves = [cmd[w].moves EXCEPT ![Key(w)] = Delta(w)]

LEMMA MovedLine ==
  ASSUME Form, NEW w \in Workers, MoveLine(w)
  PROVE  \E c : Moves(w, c)
<1>1. PICK c : c = [cmd[w] EXCEPT !.line = @ + 1, !.held = @ \cup {Key(w)},
                                  !.wrote[Key(w)] = After(w), !.moves[Key(w)] = Delta(w)]
  OBVIOUS
<1>2. cmd[w].stage = "moving" /\ cmd[w].line <= Len(cmd[w].items)
  BY DEF MoveLine, Moving
<1>3. Only(w, c)
  BY <1>1 DEF MoveLine, Only, Form, TypeOK, Commands
<1>4. /\ c.stage = cmd[w].stage /\ c.op = cmd[w].op /\ c.doc = cmd[w].doc
      /\ c.seen = cmd[w].seen /\ c.qty = cmd[w].qty /\ c.items = cmd[w].items
      /\ c.line = cmd[w].line + 1 /\ c.locked = cmd[w].locked /\ c.wants = cmd[w].wants
      /\ c.held = cmd[w].held \cup {Key(w)}
      /\ c.wrote = [cmd[w].wrote EXCEPT ![Key(w)] = After(w)]
      /\ c.moves = [cmd[w].moves EXCEPT ![Key(w)] = Delta(w)]
  BY <1>1, InCommand DEF Commands
<1>5. /\ Key(w) \in Keys /\ After(w) \in Int /\ Delta(w) \in Int
      /\ cmd[w].line \in 1..Len(cmd[w].items)
  BY <1>2, LineTyped
<1>6. c \in Commands
  <2>1. /\ cmd[w] \in Commands /\ cmd[w].line + 1 \in Nat
        /\ cmd[w].held \cup {Key(w)} \in SUBSET Keys
    BY <1>5, InCommand
  <2>2. /\ [cmd[w].wrote EXCEPT ![Key(w)] = After(w)] \in [Keys -> Int]
        /\ [cmd[w].moves EXCEPT ![Key(w)] = Delta(w)] \in [Keys -> Int]
    BY <1>5, InCommand
  <2> QED
    BY <1>1, <2>1, <2>2 DEF Commands
<1>7. Works(c)
  BY <1>4, InCommand
  DEF Works, Belongs, TransferCommand, OrderCommand, ReceiptCommand, BatchCommand, ReturnCommand,
      InvoiceCommand, ConversionCommand, PurchaseCommand, ExpenseCommand, PendingCommand
<1>8. Staged(c)
  BY <1>2, <1>4, <1>5, InCommand, IdleCommand DEF Staged
<1> QED
  BY <1>2, <1>3, <1>4, <1>6, <1>7, <1>8 DEF Moves, Sound

\* A line is left out, or looked at; or the order of a receipt is locked.
Passes(w, c) ==
  /\ Only(w, c) /\ c \in Commands /\ Sound(c)
  /\ c.stage \in {"moving", "counting"} /\ c.op = cmd[w].op /\ c.doc = cmd[w].doc
  /\ c.seen = cmd[w].seen /\ c.qty = cmd[w].qty /\ c.items = cmd[w].items
  /\ c.held = cmd[w].held /\ c.wrote = cmd[w].wrote /\ c.moves = cmd[w].moves
  /\ cmd[w].locked \subseteq c.locked
  /\ \/ cmd[w].op = "count" /\ c.locked = cmd[w].locked
     \/ Moving(w) /\ c.line = cmd[w].line + 1 /\ cmd[w].qty = 0 /\ c.locked = cmd[w].locked
     \/ /\ cmd[w].op = "confirm" /\ cmd[w].stage = "locking" /\ c.line = cmd[w].line
        /\ Free(w) /\ Within(cmd[w].wants, cmd[w].doc, cmd[w].qty)
        /\ c.locked = cmd[w].locked \cup {cmd[w].wants}

LEMMA SkippedLine ==
  ASSUME Form, NEW w \in Workers, SkipLine(w)
  PROVE  \E c : Passes(w, c)
<1>1. PICK c : c = [cmd[w] EXCEPT !.line = @ + 1]
  OBVIOUS
<1>2. Moving(w) /\ cmd[w].stage = "moving" /\ cmd[w].line <= Len(cmd[w].items) /\ Delta(w) = 0
  BY DEF SkipLine, Moving
<1>3. Only(w, c)
  BY <1>1 DEF SkipLine, Only, Form, TypeOK, Commands
<1>4. /\ c.stage = cmd[w].stage /\ c.op = cmd[w].op /\ c.doc = cmd[w].doc
      /\ c.seen = cmd[w].seen /\ c.qty = cmd[w].qty /\ c.items = cmd[w].items
      /\ c.line = cmd[w].line + 1 /\ c.locked = cmd[w].locked /\ c.wants = cmd[w].wants
      /\ c.held = cmd[w].held /\ c.wrote = cmd[w].wrote /\ c.moves = cmd[w].moves
  BY <1>1, InCommand DEF Commands
<1>5. cmd[w].line \in 1..Len(cmd[w].items)
  BY <1>2, LineTyped
<1>6. c \in Commands
  <2>1. cmd[w] \in Commands /\ cmd[w].line + 1 \in Nat
    BY <1>5, InCommand
  <2> QED
    BY <1>1, <2>1 DEF Commands
<1>7. Works(c)
  BY <1>4, InCommand
  DEF Works, Belongs, TransferCommand, OrderCommand, ReceiptCommand, BatchCommand, ReturnCommand,
      InvoiceCommand, ConversionCommand, PurchaseCommand, ExpenseCommand, PendingCommand
<1>8. Staged(c)
  BY <1>2, <1>4, <1>5, InCommand, IdleCommand DEF Staged
<1>9. cmd[w].op # "count" => cmd[w].qty = 0
  BY <1>2 DEF Delta
<1> QED
  BY <1>2, <1>3, <1>4, <1>6, <1>7, <1>8, <1>9 DEF Passes, Sound

LEMMA CountedLine ==
  ASSUME Form, NEW w \in Workers, CountLine(w)
  PROVE  \E c : Passes(w, c)
<1>1. PICK c : c = IF cmd[w].line <= Len(cmd[w].items)
                   THEN [cmd[w] EXCEPT !.system[Item(w)] = balance[Key(w)], !.line = @ + 1]
                   ELSE [cmd[w] EXCEPT !.stage = "moving", !.line = 1]
  OBVIOUS
<1>2. cmd[w].stage = "counting" /\ cmd[w].op = "count"
  BY InCommand DEF CountLine, Counting, Staged
<1>3. Only(w, c)
  BY <1>1 DEF CountLine, Only, Form, TypeOK, Commands
<1>4. /\ c.stage \in {"moving", "counting"} /\ c.op = cmd[w].op /\ c.doc = cmd[w].doc
      /\ c.seen = cmd[w].seen /\ c.qty = cmd[w].qty /\ c.items = cmd[w].items
      /\ c.locked = cmd[w].locked /\ c.wants = cmd[w].wants
      /\ c.held = cmd[w].held /\ c.wrote = cmd[w].wrote /\ c.moves = cmd[w].moves
  BY <1>1, <1>2, InCommand DEF Commands
<1>5. c \in Commands /\ c.line \in 1..(Len(c.items) + 1)
  <2>1. cmd[w] \in Commands /\ Len(cmd[w].items) \in Nat
    BY InCommand
  <2>2. CASE cmd[w].line <= Len(cmd[w].items)
    <3>1. cmd[w].line \in 1..Len(cmd[w].items) /\ Key(w) \in Keys
      BY <1>2, <2>2, LineTyped
    <3>2. balance[Key(w)] \in Int
      BY <3>1 DEF Form, TypeOK
    <3>3. [cmd[w].system EXCEPT ![Item(w)] = balance[Key(w)]] \in [Items -> Int]
      BY <3>2, InCommand
    <3>4. c = [cmd[w] EXCEPT !.system[Item(w)] = balance[Key(w)], !.line = @ + 1]
      BY <1>1, <2>2
    <3>5. cmd[w].line + 1 \in Nat
      BY <3>1
    <3>6. c \in Commands
      BY <2>1, <3>3, <3>4, <3>5 DEF Commands
    <3>7. c.line = cmd[w].line + 1
      BY <2>1, <3>4 DEF Commands
    <3> QED
      BY <1>4, <2>1, <3>1, <3>6, <3>7
  <2>3. CASE ~(cmd[w].line <= Len(cmd[w].items))
    <3>1. c = [cmd[w] EXCEPT !.stage = "moving", !.line = 1]
      BY <1>1, <2>3
    <3>2. c \in Commands
      BY <2>1, <3>1 DEF Commands
    <3>3. c.line = 1
      BY <2>1, <3>1 DEF Commands
    <3> QED
      BY <1>4, <2>1, <3>2, <3>3
  <2> QED
    BY <2>2, <2>3
<1>6. cmd[w].doc \in Stocktakes
  BY <1>2, InCommand DEF Works, Belongs, StocktakeOps
<1>7. Works(c)
  BY <1>2, <1>4, <1>6, WorksOn
<1>8. Staged(c)
  BY <1>2, <1>4, <1>5, InCommand, IdleCommand DEF Staged
<1> QED
  BY <1>2, <1>3, <1>4, <1>5, <1>7, <1>8 DEF Passes, Sound

LEMMA LockedOrder ==
  ASSUME Form, NEW w \in Workers, LockOrder(w)
  PROVE  \E c : Passes(w, c)
<1>1. PICK c : c = [cmd[w] EXCEPT !.stage = "moving", !.locked = @ \cup {cmd[w].wants}]
  OBVIOUS
<1>2. /\ cmd[w].stage = "locking" /\ cmd[w].op = "confirm" /\ cmd[w].doc \in Receipts
      /\ Free(w) /\ Within(cmd[w].wants, cmd[w].doc, cmd[w].qty)
  BY InCommand DEF LockOrder, Staged
<1>3. Only(w, c)
  BY <1>1 DEF LockOrder, Only, Form, TypeOK, Commands
<1>4. /\ c.stage = "moving" /\ c.op = cmd[w].op /\ c.doc = cmd[w].doc
      /\ c.seen = cmd[w].seen /\ c.qty = cmd[w].qty /\ c.items = cmd[w].items
      /\ c.line = cmd[w].line /\ c.locked = cmd[w].locked \cup {cmd[w].wants}
      /\ c.wants = cmd[w].wants
      /\ c.held = cmd[w].held /\ c.wrote = cmd[w].wrote /\ c.moves = cmd[w].moves
  BY <1>1, InCommand DEF Commands
<1>5. ReceiptCommand(cmd[w])
  BY <1>2, InCommand DEF Works
<1>6. cmd[w].wants \in Documents /\ LocksOf(c.doc) \subseteq c.locked
  BY <1>2, <1>4, <1>5, DocumentsOf, ReceiptsAssumption DEF ReceiptCommand, LocksOf
<1>7. c \in Commands
  BY <1>1, <1>6, InCommand DEF Commands
<1>8. ReceiptCommand(c)
  BY <1>2, <1>4, <1>5, <1>6 DEF ReceiptCommand
<1>9. Works(c)
  BY <1>2, <1>4, <1>8, WorksOn
<1>10. Staged(c)
  BY <1>2, <1>4, InCommand, IdleCommand DEF Staged
<1> QED
  BY <1>2, <1>3, <1>4, <1>7, <1>9, <1>10 DEF Passes, Sound

LEMMA RecordedTyped ==
  ASSUME Form, NEW w \in Workers, cmd[w].stage # "idle", Recorded(w)
  PROVE  /\ StockTyped'
         /\ \A k \in Keys :
              /\ balance'[k] = IF k \in cmd[w].held THEN cmd[w].wrote[k] ELSE balance[k]
              /\ total'[k] = total[k] + cmd[w].moves[k]
              /\ moved'[cmd[w].doc][k] = moved[cmd[w].doc][k] + cmd[w].moves[k]
         /\ \A d \in Documents \ {cmd[w].doc} : moved'[d] = moved[d]
<1>1. /\ balance' = [k \in Keys |-> IF k \in cmd[w].held THEN cmd[w].wrote[k] ELSE balance[k]]
      /\ total' = [k \in Keys |-> total[k] + cmd[w].moves[k]]
      /\ moved' = [moved EXCEPT ![cmd[w].doc] =
                     [k \in Keys |-> moved[cmd[w].doc][k] + cmd[w].moves[k]]]
  BY DEF Recorded
<1>2. /\ balance \in [Keys -> Int] /\ total \in [Keys -> Int]
      /\ moved \in [Documents -> [Keys -> Int]] /\ cmd[w].doc \in Documents
      /\ cmd[w].moves \in [Keys -> Int] /\ cmd[w].wrote \in [Keys -> Int]
  BY InCommand DEF Form, TypeOK
<1>3. balance' \in [Keys -> Int]
  BY <1>1, <1>2
<1>4. total' \in [Keys -> Int]
  BY <1>1, <1>2
<1>5. [k \in Keys |-> moved[cmd[w].doc][k] + cmd[w].moves[k]] \in [Keys -> Int]
  BY <1>2
<1>6. moved' \in [Documents -> [Keys -> Int]]
  BY <1>1, <1>2, <1>5
<1>7. \A k \in Keys : moved'[cmd[w].doc][k] = moved[cmd[w].doc][k] + cmd[w].moves[k]
  BY <1>1, <1>2
<1> QED
  BY <1>1, <1>2, <1>3, <1>4, <1>6, <1>7 DEF StockTyped

LEMMA CommittedForm ==
  ASSUME Form, NEW w \in Workers, Commits(w)
  PROVE  Form'
<1>1. cmd[w].stage # "idle" /\ cmd[w].doc \in live
  BY InCommand DEF Commits, Complete
<1>2. /\ cmd' = [cmd EXCEPT ![w] = NoCommand] /\ UNCHANGED live /\ StockTyped'
  BY <1>1, RecordedTyped DEF Commits, Settle
<1>3. PapersTyped'
  <2>1. row' \in [Documents -> Rows] /\ entries' \in [Documents -> Int]
        /\ consumed' \in [Documents -> Nat]
    BY DEF Commits, Writes, Posts, Uses
  <2>2. stale' \subseteq live'
    BY <1>1, <1>2 DEF Commits, Writes, Form, TypeOK
  <2> QED
    BY <2>1, <2>2 DEF PapersTyped
<1> QED
  BY <1>2, <1>3, IdleCommand, CommandForm

\* Only the request of a confirmed pending order goes on after its transaction.
LEMMA RegisteredOrder ==
  ASSUME Form, NEW w \in Workers, OrderRegistered(w)
  PROVE  /\ cmd[w].stage = "moving" /\ cmd[w].doc \in PendingOrders
         /\ \E c \in Commands :
              /\ cmd' = [cmd EXCEPT ![w] = c] /\ Sound(c)
              /\ c.stage = "saving" /\ c.op = "confirmed"
              /\ c.doc = cmd[w].doc /\ c.seen = cmd[w].seen
              /\ c.held = {} /\ c.locked = {} /\ c.moves = Zero /\ c.items = <<>> /\ c.line = 1
         /\ Form'
<1>1. cmd[w].op = "confirmPending" /\ cmd[w].stage = "moving"
  BY DEF OrderRegistered, Ready, Complete
<1>2. cmd[w].doc \in PendingOrders /\ cmd[w].seen.status = "PENDING"
  BY <1>1, InCommand DEF Works, Belongs, PendingOps, PendingCommand
<1>3. PICK c : c = [NoCommand EXCEPT !.stage = "saving", !.op = "confirmed",
                                     !.doc = cmd[w].doc, !.seen = cmd[w].seen]
  OBVIOUS
<1>4. cmd' = [cmd EXCEPT ![w] = c]
  BY <1>3 DEF OrderRegistered
<1>5. /\ c.stage = "saving" /\ c.op = "confirmed" /\ c.doc = cmd[w].doc /\ c.seen = cmd[w].seen
      /\ c.held = {} /\ c.locked = {} /\ c.moves = Zero /\ c.items = <<>> /\ c.line = 1
  BY <1>3 DEF NoCommand
<1>6. c \in Commands
  <2>1. cmd[w].doc \in Documents /\ cmd[w].seen \in Rows /\ NoCommand \in Commands
    BY <1>1, InCommand, IdleCommand
  <2> QED
    BY <1>3, <2>1 DEF Commands, Ops
<1>7. Works(c)
  BY <1>2, <1>5, WorksOn DEF PendingCommand
<1>8. Sound(c)
  BY <1>1, <1>2, <1>5, <1>7, InCommand, IdleCommand, LinesTyped DEF Sound, Staged
<1>9. Form'
  <2>1. UNCHANGED live /\ StockTyped'
    BY <1>1, RecordedTyped DEF OrderRegistered
  <2>2. entries' \in [Documents -> Int]
    BY EntriesPosted, OneOrNone DEF OrderRegistered, Posts
  <2>3. stale' \subseteq live'
    BY <1>1, <2>1, InCommand DEF OrderRegistered, Form, TypeOK
  <2>4. PapersTyped'
    BY <2>2, <2>3 DEF OrderRegistered, PapersTyped, Form, TypeOK
  <2> QED
    BY <1>4, <1>6, <1>8, <2>1, <2>4, CommandForm
<1> QED
  BY <1>1, <1>2, <1>4, <1>5, <1>6, <1>8, <1>9

LEMMA SavedForm ==
  ASSUME Form, NEW w \in Workers, SaveConfirmed(w) \/ CutOff(w)
  PROVE  /\ Form' /\ cmd[w].doc \in PendingOrders /\ cmd[w].op = "confirmed"
         /\ UNCHANGED <<stock, entries, consumed>> /\ cmd' = [cmd EXCEPT ![w] = NoCommand]
         /\ Writes(w)
<1>1. cmd[w].stage = "saving" /\ cmd[w].doc \in PendingOrders /\ cmd[w].op = "confirmed"
      /\ cmd[w].doc \in live
  BY InCommand DEF SaveConfirmed, CutOff, Staged
<1>2. UNCHANGED <<live, stock, entries, consumed>> /\ cmd' = [cmd EXCEPT ![w] = NoCommand]
  BY DEF SaveConfirmed, CutOff
<1>3. Writes(w)
  <2>1. CASE SaveConfirmed(w)
    <3>1. "CONFIRMED" \in Statuses /\ cmd[w].seen.qty \in Int /\ 0 \in Nat
      BY InCommand DEF Statuses
    <3>2. Row("CONFIRMED", cmd[w].seen.qty, 0) \in Rows
      BY <3>1, RowTyped, Zenon
    <3> QED
      BY <2>1, <3>2, RowSaved DEF SaveConfirmed
  <2>2. CASE CutOff(w)
    BY <2>2 DEF CutOff, Writes, Form, TypeOK
  <2> QED
    BY <2>1, <2>2
<1>4. PapersTyped'
  BY <1>1, <1>2, <1>3, TypedParts DEF Writes, PapersTyped
<1> QED
  BY <1>1, <1>2, <1>3, <1>4, UnchangedParts, IdleCommand, CommandForm

LEMMA RolledBackForm ==
  ASSUME Form, NEW w \in Workers, RollsBack(w)
  PROVE  Form'
BY IdleCommand, OnlyForm DEF RollsBack, Rollback, Only

\* Everything that can happen.
LEMMA WhatHappens ==
  ASSUME Form, Next
  PROVE  \E w \in Workers :
           \/ \E c : Begins(w, c)
           \/ \E d \in Documents, new \in Rows, n \in {0, 1} : Files(w, d, new, n)
           \/ MoveLine(w) /\ \E c : Moves(w, c)
           \/ \E c : Passes(w, c)
           \/ RollsBack(w)
           \/ Step(w) /\ Commits(w)
           \/ OrderRegistered(w)
           \/ SaveConfirmed(w) \/ CutOff(w)
<1>1. PICK w \in Workers : Begin(w) \/ Step(w) \/ Victim(w) \/ Fail(w) \/ CutOff(w)
  BY DEF Next
<1>2. CASE Begin(w)
  BY <1>2, WhatBegins
<1>3. CASE Step(w) \/ Victim(w) \/ Fail(w)
  BY <1>3, WhatGoesOn, MovedLine, SkippedLine, CountedLine, LockedOrder
<1> QED
  BY <1>1, <1>2, <1>3

LEMMA FormStep ==
  ASSUME Form, [Next]_vars
  PROVE  Form'
<1>1. CASE Next
  BY <1>1, WhatHappens, OnlyForm, FiledForm, RolledBackForm, CommittedForm, RegisteredOrder, SavedForm
  DEF Begins, Moves, Passes
<1>2. CASE UNCHANGED vars
  BY <1>2 DEF vars, stock, papers, Form, TypeOK, Sound, Staged, Works
<1> QED
  BY <1>1, <1>2

LEMMA InitForm == Init => Form
<1> SUFFICES ASSUME Init PROVE Form
  OBVIOUS
<1>1. \A d \in Documents : Blank(d) \in Rows
  <2>1. \A p \in Returns : Returned[p] \in Int
    BY ReceiptsAssumption
  <2> QED
    BY <2>1 DEF Blank, Row, Rows, Statuses
<1>2. Zero \in [Keys -> Int] /\ Opening \in Int
  BY LedgerAssumption DEF Zero
<1>3. TypeOK
  BY <1>1, <1>2, IdleCommand DEF Init, TypeOK
<1> QED
  BY <1>3, IdleCommand DEF Init, Form

\* TypeOK: every document, balance and command has its type throughout, and what a
\* command works on and has found there stays so while it runs.
THEOREM DocumentsTyped == Spec => []TypeOK
<1>1. Spec => []Form
  BY InitForm, FormStep, PTL DEF Spec
<1>2. Form => TypeOK
  BY DEF Form
<1> QED
  BY <1>1, <1>2, PTL

-----------------------------------------------------------------------------
(* The stock.                                                               *)

LEMMA HeldAfter ==
  ASSUME Form, BalancesHeld, NEW w \in Workers, NEW c, cmd' = [cmd EXCEPT ![w] = c],
         UNCHANGED balance, Fits(c), \A v \in Workers \ {w} : cmd[v].held \cap c.held = {}
  PROVE  BalancesHeld'
<1>1. \A v \in Workers : cmd'[v] = IF v = w THEN c ELSE cmd[v]
  BY DEF Form, TypeOK
<1>2. \A v \in Workers : Fits(cmd'[v])
  BY <1>1 DEF BalancesHeld
<1>3. \A v \in Workers : Fits(cmd[v])'
  BY <1>2 DEF Fits, LinesMoved, Branch
<1>4. \A u, v \in Workers : u # v => cmd'[u].held \cap cmd'[v].held = {}
  BY <1>1 DEF BalancesHeld
<1> QED
  BY <1>3, <1>4 DEF BalancesHeld

\* Before the first line nothing is held.
LEMMA NothingHeld ==
  ASSUME NEW c, c.held = {}, c.moves = Zero, c.line = 1
  PROVE  Fits(c)
<1>1. \A k \in Keys : c.moves[k] = 0
  BY DEF Zero
<1>2. 1..(c.line - 1) = {}
  OBVIOUS
<1> QED
  BY <1>1, <1>2 DEF Fits, LinesMoved

LEMMA NoCommandFits ==
  /\ NoCommand.held = {} /\ NoCommand.locked = {} /\ NoCommand.moves = Zero
  /\ NoCommand.doc = NoDocument /\ NoCommand.line = 1 /\ Fits(NoCommand)
<1>1. /\ NoCommand.held = {} /\ NoCommand.moves = Zero /\ NoCommand.line = 1
      /\ NoCommand.locked = {} /\ NoCommand.doc = NoDocument
  BY DEF NoCommand
<1> QED
  BY <1>1, NothingHeld

LEMMA MovesFits ==
  ASSUME Form, BalancesHeld, NEW w \in Workers, NEW c, Moves(w, c), MoveLine(w)
  PROVE  Fits(c) /\ \A v \in Workers \ {w} : cmd[v].held \cap c.held = {}
<1>1. cmd[w].stage = "moving" /\ cmd[w].line <= Len(cmd[w].items) /\ Delta(w) # 0 /\ Free(w)
  BY DEF MoveLine, Moving
<1>2. /\ cmd[w].line \in 1..Len(cmd[w].items) /\ Key(w) \in Keys
      /\ Delta(w) \in Int /\ After(w) = balance[Key(w)] + Delta(w)
      /\ Key(w) = <<Branch(cmd[w]), Item(w)>>
  BY <1>1, LineTyped DEF After
<1>3. /\ c.held = cmd[w].held \cup {Key(w)}
      /\ \A k \in Keys : c.wrote[k] = IF k = Key(w) THEN After(w) ELSE cmd[w].wrote[k]
      /\ \A k \in Keys : c.moves[k] = IF k = Key(w) THEN Delta(w) ELSE cmd[w].moves[k]
  BY InCommand DEF Moves
<1>4. \A k \in Keys : IF k \in c.held THEN c.wrote[k] = balance[k] + c.moves[k] ELSE c.moves[k] = 0
  BY <1>2, <1>3 DEF BalancesHeld, Fits
<1>5. LinesMoved(c)
  <2>1. /\ c.op = cmd[w].op /\ c.doc = cmd[w].doc /\ c.qty = cmd[w].qty /\ c.items = cmd[w].items
        /\ c.line = cmd[w].line + 1 /\ Branch(c) = Branch(cmd[w])
    BY DEF Moves, Branch
  <2>2. SUFFICES ASSUME c.op # "count", NEW k \in Keys
                 PROVE  c.moves[k] = IF (\E n \in 1..(c.line - 1) : c.items[n] = k[2])
                                          /\ k[1] = Branch(c)
                                     THEN c.qty ELSE 0
    BY DEF LinesMoved
  <2>3. /\ Delta(w) = cmd[w].qty /\ Item(w) = cmd[w].items[cmd[w].line]
        /\ cmd[w].moves[k] = IF (\E n \in 1..(cmd[w].line - 1) : cmd[w].items[n] = k[2])
                                  /\ k[1] = Branch(cmd[w])
                             THEN cmd[w].qty ELSE 0
    BY <2>1, <2>2 DEF Delta, Item, BalancesHeld, Fits, LinesMoved
  <2>4. k = <<k[1], k[2]>>
    BY DEF Keys
  <2>5. (\E n \in 1..(c.line - 1) : c.items[n] = k[2])
          <=> (\E n \in 1..(cmd[w].line - 1) : cmd[w].items[n] = k[2]) \/ Item(w) = k[2]
    BY <1>2, <2>1, <2>3
  <2>6. CASE k = Key(w)
    BY <1>2, <1>3, <2>1, <2>3, <2>4, <2>5, <2>6
  <2>7. CASE k # Key(w)
    BY <1>2, <1>3, <2>1, <2>3, <2>4, <2>5, <2>7
  <2> QED
    BY <2>6, <2>7
<1>6. \A v \in Workers \ {w} : Key(w) \notin cmd[v].held
  BY <1>1 DEF Free, WaitsFor, Moving
<1>7. \A v \in Workers \ {w} : cmd[v].held \cap c.held = {}
  BY <1>3, <1>6 DEF BalancesHeld
<1> QED
  BY <1>4, <1>5, <1>7 DEF Fits

LEMMA PassesFits ==
  ASSUME Form, BalancesHeld, NEW w \in Workers, NEW c, Passes(w, c)
  PROVE  Fits(c) /\ \A v \in Workers \ {w} : cmd[v].held \cap c.held = {}
<1>1. /\ c.op = cmd[w].op /\ c.doc = cmd[w].doc /\ c.qty = cmd[w].qty /\ c.items = cmd[w].items
      /\ c.held = cmd[w].held /\ c.wrote = cmd[w].wrote /\ c.moves = cmd[w].moves
  BY DEF Passes
<1>2. Branch(c) = Branch(cmd[w])
  BY <1>1 DEF Branch
<1>3. \/ c.op = "count"
      \/ c.line = cmd[w].line
      \/ c.qty = 0
  BY <1>1 DEF Passes
<1>4. LinesMoved(c)
  <2>1. LinesMoved(cmd[w])
    BY DEF BalancesHeld, Fits
  <2> QED
    BY <1>1, <1>2, <1>3, <2>1 DEF LinesMoved
<1> QED
  BY <1>1, <1>4 DEF BalancesHeld, Fits

LEMMA RecordedStock ==
  ASSUME Form, BalancesHeld, BalanceIsSumOfMovements, NEW w \in Workers, cmd[w].stage # "idle",
         Recorded(w), NEW c, cmd' = [cmd EXCEPT ![w] = c], c.held = {},
         c.moves = Zero, c.line = 1
  PROVE  BalancesHeld' /\ BalanceIsSumOfMovements'
<1>1. \A k \in Keys :
        /\ balance'[k] = IF k \in cmd[w].held THEN cmd[w].wrote[k] ELSE balance[k]
        /\ total'[k] = total[k] + cmd[w].moves[k]
        /\ balance[k] \in Int /\ cmd[w].moves[k] \in Int
  BY RecordedTyped, InCommand DEF Form, TypeOK
<1>2. \A k \in Keys : balance'[k] = balance[k] + cmd[w].moves[k]
  BY <1>1 DEF BalancesHeld, Fits
<1>3. BalanceIsSumOfMovements'
  BY <1>1, <1>2 DEF BalanceIsSumOfMovements
<1>4. \A v \in Workers : cmd'[v] = IF v = w THEN c ELSE cmd[v]
  BY DEF Form, TypeOK
<1>5. ASSUME NEW v \in Workers \ {w}
      PROVE  Fits(cmd[v])'
  <2>1. \A k \in cmd[v].held : balance'[k] = balance[k]
    BY <1>1, InCommand DEF BalancesHeld
  <2>2. \A k \in Keys : IF k \in cmd[v].held THEN cmd[v].wrote[k] = balance'[k] + cmd[v].moves[k]
                        ELSE cmd[v].moves[k] = 0
    BY <2>1 DEF BalancesHeld, Fits
  <2>3. LinesMoved(cmd[v])
    BY DEF BalancesHeld, Fits
  <2>4. cmd'[v] = cmd[v]
    BY <1>4
  <2> QED
    BY <2>2, <2>3, <2>4 DEF Fits, LinesMoved, Branch
<1>6. Fits(cmd[w])'
  <2>1. \A k \in Keys : c.moves[k] = 0
    BY DEF Zero
  <2>2. 1..(c.line - 1) = {} /\ cmd'[w] = c
    BY <1>4
  <2> QED
    BY <2>1, <2>2 DEF Fits, LinesMoved
<1>7. \A u, v \in Workers : u # v => cmd'[u].held \cap cmd'[v].held = {}
  BY <1>4 DEF BalancesHeld
<1> QED
  BY <1>3, <1>5, <1>6, <1>7 DEF BalancesHeld

LEMMA StockStep ==
  ASSUME Form, StockInv, [Next]_vars
  PROVE  StockInv'
<1> BalancesHeld /\ BalanceIsSumOfMovements
  BY DEF StockInv
<1>1. CASE Next
  <2>1. ASSUME NEW w \in Workers, NEW c, Begins(w, c)
        PROVE  BalancesHeld' /\ UNCHANGED stock
    <3>1. Only(w, c) /\ c.held = {} /\ c.moves = Zero /\ c.line = 1
      BY <2>1 DEF Begins
    <3> QED
      BY <3>1, NothingHeld, HeldAfter DEF Only, stock
  <2>2. ASSUME NEW w \in Workers, NEW c, Moves(w, c), MoveLine(w)
        PROVE  BalancesHeld' /\ UNCHANGED stock
    BY <2>2, MovesFits, HeldAfter DEF Moves, Only, stock
  <2>3. ASSUME NEW w \in Workers, NEW c, Passes(w, c)
        PROVE  BalancesHeld' /\ UNCHANGED stock
    BY <2>3, PassesFits, HeldAfter DEF Passes, Only, stock
  <2>4. ASSUME NEW w \in Workers, cmd' = [cmd EXCEPT ![w] = NoCommand], UNCHANGED stock
        PROVE  BalancesHeld'
    BY <2>4, NoCommandFits, HeldAfter DEF stock
  <2>5. ASSUME NEW w \in Workers, NEW d \in Documents, NEW new \in Rows, NEW n \in {0, 1},
               Files(w, d, new, n)
        PROVE  BalancesHeld' /\ UNCHANGED stock
    BY <2>5 DEF Files, stock, BalancesHeld, Fits, LinesMoved, Branch
  <2>6. ASSUME NEW w \in Workers, RollsBack(w)
        PROVE  BalancesHeld' /\ UNCHANGED stock
    BY <2>4, <2>6 DEF RollsBack, Rollback
  <2>7. ASSUME NEW w \in Workers, SaveConfirmed(w) \/ CutOff(w)
        PROVE  BalancesHeld' /\ UNCHANGED stock
    BY <2>4, <2>7, SavedForm
  <2>8. ASSUME NEW w \in Workers, Commits(w)
        PROVE  StockInv'
    <3>1. cmd[w].stage # "idle" /\ Recorded(w) /\ cmd' = [cmd EXCEPT ![w] = NoCommand]
      BY <2>8 DEF Commits, Settle, Complete
    <3> QED
      BY <3>1, NoCommandFits, RecordedStock DEF StockInv
  <2>9. ASSUME NEW w \in Workers, OrderRegistered(w)
        PROVE  StockInv'
    <3>1. PICK c \in Commands :
            cmd' = [cmd EXCEPT ![w] = c] /\ c.held = {} /\ c.moves = Zero /\ c.line = 1
      BY <2>9, RegisteredOrder
    <3>2. cmd[w].stage # "idle" /\ Recorded(w)
      BY <2>9, RegisteredOrder DEF OrderRegistered
    <3> QED
      BY <3>1, <3>2, RecordedStock DEF StockInv
  <2>10. UNCHANGED stock => BalanceIsSumOfMovements'
    BY DEF stock, BalanceIsSumOfMovements
  <2> QED
    BY <1>1, <2>1, <2>2, <2>3, <2>5, <2>6, <2>7, <2>8, <2>9, <2>10, WhatHappens DEF StockInv
<1>2. CASE UNCHANGED vars
  BY <1>2 DEF vars, stock, papers, StockInv, BalancesHeld, BalanceIsSumOfMovements, Fits,
              LinesMoved, Branch
<1> QED
  BY <1>1, <1>2

LEMMA InitStock == Init => StockInv
<1> SUFFICES ASSUME Init PROVE StockInv
  OBVIOUS
<1>1. \A w \in Workers : cmd[w] = NoCommand
  BY DEF Init
<1>2. BalancesHeld
  BY <1>1, NoCommandFits DEF BalancesHeld
<1>3. BalanceIsSumOfMovements
  BY DEF Init, BalanceIsSumOfMovements
<1> QED
  BY <1>2, <1>3 DEF StockInv

LEMMA Always == Spec => [](Form /\ BalancesHeld /\ StockInv)
<1>1. Spec => [](Form /\ StockInv)
  BY InitForm, FormStep, InitStock, StockStep, PTL DEF Spec
<1>2. StockInv => BalancesHeld
  BY DEF StockInv
<1> QED
  BY <1>1, <1>2, PTL

\* BalanceIsSumOfMovements: every balance is the sum of its movements, whatever
\* documents move it at once, because a command writes what it read under a lock that
\* it keeps until its movements are committed.
THEOREM BalancesAreTheirMovements == Spec => []BalanceIsSumOfMovements
<1>1. Form /\ StockInv => BalanceIsSumOfMovements
  BY DEF StockInv
<1> QED
  BY <1>1, Always, PTL

-----------------------------------------------------------------------------
(* Documents.                                                               *)

\* What w has done so far is recorded.
Lasting(w) == (Step(w) /\ Commits(w)) \/ OrderRegistered(w) \/ SaveConfirmed(w) \/ CutOff(w)

\* A document changes when it is filed, or with a command that works on it.
LEMMA Elsewhere ==
  ASSUME Form, [Next]_vars, NEW d \in Documents
  PROVE  \/ \E w \in Workers : Lasting(w) /\ cmd[w].doc = d
         \/ \E w \in Workers, new \in Rows, n \in {0, 1} : Files(w, d, new, n)
         \/ /\ moved'[d] = moved[d] /\ entries'[d] = entries[d] /\ consumed'[d] = consumed[d]
            /\ d \in stale' <=> d \in stale
            /\ d \notin Batches \cup Orders => row'[d] = row[d]
<1> DEFINE Same == /\ moved'[d] = moved[d] /\ entries'[d] = entries[d] /\ consumed'[d] = consumed[d]
                   /\ d \in stale' <=> d \in stale
                   /\ d \notin Batches \cup Orders => row'[d] = row[d]
<1>1. UNCHANGED <<stock, papers>> => Same
  BY DEF stock, papers
<1>2. ASSUME NEW w \in Workers, NEW e \in Documents \ {d}, NEW new \in Rows, NEW n \in {0, 1},
             Files(w, e, new, n)
      PROVE  Same
  BY <1>2 DEF Files, stock, Form, TypeOK
<1>3. ASSUME NEW w \in Workers, Writes(w), cmd[w].op \notin {"confirm", "complete"}, cmd[w].doc # d
      PROVE  row'[d] = row[d] /\ (d \in stale' <=> d \in stale)
  BY <1>3 DEF Writes
<1>4. ASSUME NEW w \in Workers, Commits(w), cmd[w].doc # d
      PROVE  Same
  <2>1. cmd[w].stage # "idle" /\ Recorded(w) /\ Posts(w) /\ Uses(w) /\ Writes(w)
    BY <1>4 DEF Commits, Settle, Complete
  <2>2. moved'[d] = moved[d]
    BY <1>4, <2>1, RecordedTyped
  <2>3. entries'[d] = entries[d] /\ consumed'[d] = consumed[d]
    BY <1>4, <2>1 DEF Posts, Uses
  <2>4. d \in stale' <=> d \in stale
    BY <1>4, <2>1 DEF Writes
  <2>5. d \notin Batches \cup Orders => row'[d] = row[d]
    <3>1. d \notin Batches => ~Stored(w, d)
      BY DEF Stored
    <3>2. cmd[w].op = "confirm" => cmd[w].doc \in Receipts
      BY InCommand DEF Works, Belongs, ReceiptOps
    <3>3. cmd[w].op = "confirm" /\ d \notin Orders => d \notin LocksOf(cmd[w].doc)
      BY <3>2, ReceiptsAssumption, DocumentsOf, LedgerAssumption DEF LocksOf
    <3> QED
      BY <1>4, <2>1, <3>1, <3>3 DEF Writes
  <2> QED
    BY <2>2, <2>3, <2>4, <2>5
<1>5. ASSUME NEW w \in Workers, OrderRegistered(w), cmd[w].doc # d
      PROVE  Same
  <2>1. cmd[w].stage # "idle"
    BY <1>5, RegisteredOrder
  <2>2. Recorded(w) /\ UNCHANGED <<row, consumed>> /\ stale \subseteq stale'
        /\ stale' \subseteq stale \cup {cmd[w].doc}
        /\ Posted(cmd[w].doc, OneIf(cmd[w].doc \in Journaled))
    BY <1>5 DEF OrderRegistered
  <2>3. moved'[d] = moved[d]
    BY <1>5, <2>1, <2>2, RecordedTyped
  <2>4. entries'[d] = entries[d]
    BY <1>5, <2>2, EntriesPosted, OneOrNone DEF Posts
  <2> QED
    BY <1>5, <2>2, <2>3, <2>4
<1>6. ASSUME NEW w \in Workers, SaveConfirmed(w) \/ CutOff(w), cmd[w].doc # d
      PROVE  Same
  <2>1. Writes(w) /\ cmd[w].op = "confirmed" /\ UNCHANGED <<stock, entries, consumed>>
    BY <1>6, SavedForm
  <2>2. row'[d] = row[d] /\ (d \in stale' <=> d \in stale)
    BY <1>3, <1>6, <2>1
  <2> QED
    BY <2>1, <2>2 DEF stock
<1>7. CASE Next
  <2>1. PICK w \in Workers :
           \/ \E c : Begins(w, c)
           \/ \E e \in Documents, new \in Rows, n \in {0, 1} : Files(w, e, new, n)
           \/ MoveLine(w) /\ \E c : Moves(w, c)
           \/ \E c : Passes(w, c)
           \/ RollsBack(w)
           \/ Step(w) /\ Commits(w)
           \/ OrderRegistered(w)
           \/ SaveConfirmed(w) \/ CutOff(w)
    BY <1>7, WhatHappens
  <2>2. CASE (\E c : Begins(w, c)) \/ (\E c : Moves(w, c)) \/ (\E c : Passes(w, c)) \/ RollsBack(w)
    BY <1>1, <2>2 DEF Begins, Moves, Passes, Only, RollsBack, Rollback
  <2>3. CASE \E e \in Documents, new \in Rows, n \in {0, 1} : Files(w, e, new, n)
    BY <1>2, <2>3
  <2>4. CASE Step(w) /\ Commits(w)
    BY <1>4, <2>4 DEF Lasting
  <2>5. CASE OrderRegistered(w) \/ SaveConfirmed(w) \/ CutOff(w)
    BY <1>5, <1>6, <2>5 DEF Lasting
  <2> QED
    BY <2>1, <2>2, <2>3, <2>4, <2>5
<1>8. CASE UNCHANGED vars
  BY <1>1, <1>8 DEF vars
<1> QED
  BY <1>7, <1>8

\* Which step commits is told by the document.
LEMMA CommittingStep ==
  ASSUME Form, NEW w \in Workers, Step(w), Commits(w)
  PROVE  /\ cmd[w].doc \in Transfers \cup Stocktakes \cup Adjustments => TransferStep(w)
         /\ cmd[w].doc \in Orders \cup Receipts \cup Batches \cup Returns => ReceiptStep(w)
         /\ cmd[w].doc \in Invoices => InvoiceStep(w)
         /\ cmd[w].doc \in Conversions => ConversionStep(w)
         /\ cmd[w].doc \in Purchases => PurchaseStep(w)
         /\ cmd[w].doc \in Expenses => ExpenseStep(w)
         /\ cmd[w].doc \in PendingOrders => PendingStep(w)
<1>1. Complete(w) /\ cmd[w].stage = "moving"
  BY DEF Commits, Complete
<1>2. Works(cmd[w]) /\ cmd[w].line \in Nat /\ Len(cmd[w].items) \in Nat
  BY InCommand
<1>3. ~MoveLine(w) /\ ~SkipLine(w) /\ ~Short(w)
  BY <1>1, <1>2 DEF MoveLine, SkipLine, Short, Moving, Complete
<1>4. TransferStep(w) => cmd[w].doc \in Transfers \cup Stocktakes \cup Adjustments
  BY <1>1, <1>2
  DEF TransferStep, Revised, Ready, Dispatched, Received, Refused, Misplaced, CountLine, Counting,
      Counted, Works, Belongs, TransferOps, StocktakeOps, AdjustmentOps
<1>5. ReceiptStep(w) => cmd[w].doc \in Orders \cup Receipts \cup Batches \cup Returns
  BY <1>1, <1>2
  DEF ReceiptStep, Revised, Ready, Registered, LockOrder, TooMuch, Confirmed, WrittenOff,
      PostedReturn, Works, Belongs, OrderOps, ReceiptOps, BatchOps, ReturnOps
<1>6. InvoiceStep(w) => cmd[w].doc \in Invoices
  BY <1>2
  DEF InvoiceStep, Ready, Approved, InvoiceCancelled, AlreadyReversed, Paid, Works, Belongs,
      InvoiceOps
<1>7. ConversionStep(w) => cmd[w].doc \in Conversions
  BY <1>2 DEF ConversionStep, Revised, Ready, Started, Completed, Works, Belongs, ConversionOps
<1>8. PurchaseStep(w) => cmd[w].doc \in Purchases
  BY <1>2 DEF PurchaseStep, Revised, Ready, Bought, Noted, Works, Belongs, PurchaseOps
<1>9. ExpenseStep(w) => cmd[w].doc \in Expenses
  BY <1>2 DEF ExpenseStep, Revised, Ready, Edited, Reviewed, Works, Belongs, ExpenseOps
<1>10. PendingStep(w) => cmd[w].doc \in PendingOrders
  BY <1>1, <1>2 DEF PendingStep, Revised, Ready, OrderRegistered, SaveConfirmed, Works, Belongs,
                    PendingOps
<1> QED
  BY <1>3, <1>4, <1>5, <1>6, <1>7, <1>8, <1>9, <1>10, KindsAssumption DEF Step

\* A command that is complete has moved all its lines.
LEMMA MovedAll ==
  ASSUME Form, BalancesHeld, NEW w \in Workers, Complete(w), cmd[w].op # "count", NEW k \in Keys
  PROVE  cmd[w].moves[k] =
           IF k[1] = Branch(cmd[w]) /\ k[2] \in Range(cmd[w].items) THEN cmd[w].qty ELSE 0
<1>1. cmd[w].line - 1 = Len(cmd[w].items) /\ cmd[w].items \in Seq(Items)
  <2>1. cmd[w].items \in Seq(Items) /\ cmd[w].line \in 1..(Len(cmd[w].items) + 1)
    BY InCommand DEF Staged
  <2>2. Len(cmd[w].items) \in Nat
    BY <2>1
  <2> QED
    BY <2>1, <2>2 DEF Complete
<1>2. Range(cmd[w].items) = {cmd[w].items[n] : n \in 1..Len(cmd[w].items)}
  BY <1>1 DEF Range
<1>3. LinesMoved(cmd[w])
  BY DEF BalancesHeld, Fits
<1>4. cmd[w].moves[k] = IF (\E n \in 1..Len(cmd[w].items) : cmd[w].items[n] = k[2])
                             /\ k[1] = Branch(cmd[w])
                        THEN cmd[w].qty ELSE 0
  BY <1>1, <1>3 DEF LinesMoved
<1> QED
  BY <1>2, <1>4

LEMMA CommittedMoves ==
  ASSUME Form, BalancesHeld, NEW w \in Workers, Complete(w), Recorded(w), cmd[w].op # "count",
         NEW k \in Keys
  PROVE  /\ moved'[cmd[w].doc][k] \in Int /\ moved[cmd[w].doc][k] \in Int /\ cmd[w].qty \in Int
         /\ cmd[w].items = <<>> => moved'[cmd[w].doc][k] = moved[cmd[w].doc][k]
         /\ Range(cmd[w].items) = ItemsOf(cmd[w].doc) =>
              moved'[cmd[w].doc][k] = moved[cmd[w].doc][k]
                + (IF Lists(cmd[w].doc, k, Branch(cmd[w])) THEN cmd[w].qty ELSE 0)
         /\ moved'[cmd[w].doc][k] = moved[cmd[w].doc][k]
              + (IF k[1] = Branch(cmd[w]) /\ k[2] \in Range(cmd[w].items) THEN cmd[w].qty ELSE 0)
<1>1. cmd[w].stage # "idle" /\ cmd[w].doc \in Documents /\ cmd[w].qty \in Int
  BY InCommand DEF Complete
<1>2. moved'[cmd[w].doc][k] = moved[cmd[w].doc][k] + cmd[w].moves[k]
  BY <1>1, RecordedTyped
<1>3. moved[cmd[w].doc][k] \in Int
  BY <1>1 DEF Form, TypeOK
<1>4. moved'[cmd[w].doc][k] = moved[cmd[w].doc][k]
        + (IF k[1] = Branch(cmd[w]) /\ k[2] \in Range(cmd[w].items) THEN cmd[w].qty ELSE 0)
  BY <1>2, MovedAll
<1>5. cmd[w].items = <<>> => Range(cmd[w].items) = {}
  BY DEF Range
<1> QED
  BY <1>1, <1>3, <1>4, <1>5 DEF Lists

LEMMA SavedOver ==
  ASSUME Form, NEW w \in Workers, cmd[w].doc \in Documents, NEW new, Save(w, new)
  PROVE  /\ row'[cmd[w].doc] = new
         /\ cmd[w].doc \notin stale' => cmd[w].doc \notin stale /\ row[cmd[w].doc] = cmd[w].seen
BY DEF Save, Form, TypeOK

LEMMA PostedFor ==
  ASSUME Form, NEW d \in Documents, NEW n \in Int, Posted(d, n)
  PROVE  entries'[d] = entries[d] + n /\ entries[d] \in Int
BY DEF Posted, Form, TypeOK

LEMMA RowFields ==
  ASSUME NEW status, NEW qty, NEW got
  PROVE  /\ Row(status, qty, got).status = status
         /\ Row(status, qty, got).qty = qty /\ Row(status, qty, got).got = got
BY DEF Row

\* A decision is saved.
LEMMA RevisedDocument ==
  ASSUME Form, BalancesHeld, NEW w \in Workers, NEW op, NEW status, op # "count",
         Revised(w, op, status)
  PROVE  /\ cmd[w].op = op /\ Complete(w)
         /\ row'[cmd[w].doc].status = status /\ row'[cmd[w].doc].qty = cmd[w].seen.qty
         /\ row'[cmd[w].doc].got = cmd[w].seen.got
         /\ entries' = entries /\ consumed' = consumed
         /\ cmd[w].doc \notin stale' => cmd[w].doc \notin stale /\ row[cmd[w].doc] = cmd[w].seen
         /\ cmd[w].items = <<>> => \A k \in Keys : moved'[cmd[w].doc][k] = moved[cmd[w].doc][k]
         /\ Recorded(w)
<1>1. /\ cmd[w].op = op /\ Complete(w) /\ Recorded(w) /\ UNCHANGED <<entries, consumed>>
      /\ Save(w, Row(status, cmd[w].seen.qty, cmd[w].seen.got))
  BY DEF Revised, Ready, Settle
<1>2. cmd[w].doc \in Documents
  BY <1>1, InCommand DEF Complete
<1>3. /\ row'[cmd[w].doc] = Row(status, cmd[w].seen.qty, cmd[w].seen.got)
      /\ cmd[w].doc \notin stale' => cmd[w].doc \notin stale /\ row[cmd[w].doc] = cmd[w].seen
  BY <1>1, <1>2, SavedOver
<1> QED
  BY <1>1, <1>3, RowFields, CommittedMoves

LEMMA StaleStays ==
  ASSUME Form, [Next]_vars
  PROVE  stale \subseteq stale'
<1>1. ASSUME NEW d \in stale PROVE d \in stale'
  <2>1. d \in Documents
    BY LedgerAssumption DEF Form, TypeOK
  <2>2. ASSUME NEW w \in Workers, Lasting(w)
        PROVE  stale \subseteq stale'
    BY <2>2, SavedForm DEF Lasting, Commits, Writes, OrderRegistered
  <2>3. ASSUME NEW w \in Workers, NEW new, NEW n, Files(w, d, new, n)
        PROVE  stale \subseteq stale'
    BY <2>3 DEF Files
  <2> QED
    BY <2>1, <2>2, <2>3, Elsewhere
<1> QED
  BY <1>1

-----------------------------------------------------------------------------
(* Transfers.                                                               *)

LEMMA TransferCommits ==
  ASSUME Form, BalancesHeld, NEW w \in Workers, NEW t \in Transfers, cmd[w].doc = t, Lasting(w),
         t \notin stale', NEW k \in Keys, moved[t][k] = Arrived(t, k) - Left(t, k)
  PROVE  moved'[t][k] = Arrived(t, k)' - Left(t, k)'
<1>1. Step(w) /\ Commits(w)
  BY RegisteredOrder, SavedForm, KindsAssumption DEF Lasting
<1>2. TransferStep(w) /\ Complete(w) /\ TransferCommand(cmd[w]) /\ t \in Documents
      /\ Recorded(w)
  BY <1>1, CommittingStep, InCommand, DocumentsOf DEF Commits, Complete, Works, Settle
<1>3. row[t].qty \in Int /\ row[t].got \in Int
  BY <1>2 DEF Form, TypeOK, Rows
<1>4. CASE \/ Revised(w, "approve", "APPROVED") \/ Revised(w, "reject", "REJECTED")
           \/ Revised(w, "cancel", "CANCELLED")
  <2>1. /\ row'[t].status \in {"APPROVED", "REJECTED", "CANCELLED"}
        /\ row[t] = cmd[w].seen /\ cmd[w].op \in {"approve", "reject", "cancel"}
    BY <1>2, <1>4, RevisedDocument
  <2>2. row[t].status \in {"SUBMITTED", "APPROVED"} /\ cmd[w].items = <<>>
    BY <1>2, <2>1 DEF TransferCommand
  <2>3. moved'[t][k] = moved[t][k]
    BY <1>4, <2>2, RevisedDocument
  <2> QED
    BY <2>1, <2>2, <2>3 DEF Arrived, Left
<1>5. CASE Dispatched(w)
  <2>1. /\ cmd[w].op = "dispatch" /\ cmd[w].seen.status = "APPROVED"
        /\ Save(w, Row("DISPATCHED", -cmd[w].qty, cmd[w].seen.got))
    BY <1>5 DEF Dispatched, Ready
  <2>2. /\ row'[t].status = "DISPATCHED" /\ row'[t].qty = -cmd[w].qty
        /\ row[t].status = "APPROVED"
    BY <1>2, <2>1, SavedOver, RowFields
  <2>3. cmd[w].items = Lines[t] /\ Branch(cmd[w]) = At[t]
    BY <1>2, <2>1 DEF TransferCommand, Branch
  <2>4. moved'[t][k] = moved[t][k] + (IF Lists(t, k, At[t]) THEN cmd[w].qty ELSE 0)
        /\ moved[t][k] \in Int /\ cmd[w].qty \in Int
    BY <1>2, <2>1, <2>3, CommittedMoves DEF ItemsOf
  <2>5. moved[t][k] = 0
    BY <2>2, <2>4 DEF Arrived, Left
  <2> QED
    BY <2>2, <2>4, <2>5 DEF Arrived, Left, Lists
<1>6. CASE Received(w)
  <2>1. /\ cmd[w].op = "receive" /\ cmd[w].seen.status = "DISPATCHED"
        /\ Save(w, Row("RECEIVED", cmd[w].seen.qty, cmd[w].qty))
    BY <1>6 DEF Received, Ready
  <2>2. /\ row'[t].status = "RECEIVED" /\ row'[t].qty = row[t].qty /\ row'[t].got = cmd[w].qty
        /\ row[t].status = "DISPATCHED"
    BY <1>2, <2>1, SavedOver, RowFields
  <2>3. cmd[w].items = Lines[t] /\ Branch(cmd[w]) = Destination[t]
    BY <1>2, <2>1 DEF TransferCommand, Branch
  <2>4. moved'[t][k] = moved[t][k] + (IF Lists(t, k, Destination[t]) THEN cmd[w].qty ELSE 0)
        /\ moved[t][k] \in Int /\ cmd[w].qty \in Int
    BY <1>2, <2>1, <2>3, CommittedMoves DEF ItemsOf
  <2>5. moved[t][k] = -Left(t, k)
    BY <1>3, <2>2, <2>4 DEF Arrived, Left
  <2> QED
    BY <1>3, <2>2, <2>4, <2>5 DEF Arrived, Left, Lists
<1>7. CASE Refused(w)
  BY <1>7 DEF Refused, Rollback, stock, papers, Arrived, Left
<1> QED
  BY <1>2, <1>4, <1>5, <1>6, <1>7, KindsAssumption, InCommand
  DEF TransferStep, CountLine, Counting, Counted, Complete, Revised, Ready, TransferCommand

LEMMA TransfersStep ==
  ASSUME Form, BalancesHeld, TransferMovesWhatItSays, [Next]_vars
  PROVE  TransferMovesWhatItSays'
<1> SUFFICES ASSUME NEW t \in Transfers, t \notin stale', NEW k \in Keys
             PROVE  moved'[t][k] = Arrived(t, k)' - Left(t, k)'
  BY DEF TransferMovesWhatItSays
<1>1. t \notin stale /\ t \in Documents /\ moved[t][k] = Arrived(t, k) - Left(t, k)
  BY StaleStays, DocumentsOf DEF TransferMovesWhatItSays
<1>2. CASE \E w \in Workers : Lasting(w) /\ cmd[w].doc = t
  BY <1>1, <1>2, TransferCommits
<1>3. t \notin Expenses \cup PendingOrders \cup Batches \cup Orders
  BY KindsAssumption
<1>4. CASE moved'[t] = moved[t] /\ row'[t] = row[t]
  BY <1>1, <1>4 DEF Arrived, Left
<1> QED
  BY <1>1, <1>2, <1>3, <1>4, Elsewhere DEF Files

\* TransferMovesWhatItSays: a transfer that nobody else saved meanwhile has left its
\* branch and arrived in the other once, with the quantities it says.
THEOREM TransfersMoveOnce == Spec => []TransferMovesWhatItSays
<1>1. Init => TransferMovesWhatItSays
  <2> SUFFICES ASSUME Init, NEW t \in Transfers, NEW k \in Keys
               PROVE  moved[t][k] = Arrived(t, k) - Left(t, k)
    BY DEF TransferMovesWhatItSays
  <2>1. moved[t][k] = 0 /\ row[t].status = "SUBMITTED"
    BY DocumentsOf, RowFields DEF Init, Zero, Blank
  <2> QED
    BY <2>1 DEF Arrived, Left
<1> QED
  BY <1>1, TransfersStep, Always, PTL DEF Spec

-----------------------------------------------------------------------------
(* One command at a time.                                                   *)

\* A command begins, ends, or stays with its document.
LEMMA WhoWorks ==
  ASSUME Form, [Next]_vars
  PROVE  \/ \E w \in Workers, c \in Commands :
              Begins(w, c) /\ \A v \in Workers : cmd'[v] = IF v = w THEN c ELSE cmd[v]
         \/ \A v \in Workers :
              \/ cmd'[v].doc = cmd[v].doc /\ cmd'[v].seen = cmd[v].seen
              \/ cmd'[v] = NoCommand
<1>0. cmd \in [Workers -> Commands]
  BY DEF Form, TypeOK
<1>1. ASSUME NEW w \in Workers, NEW c, Begins(w, c)
      PROVE  \E u \in Workers, e \in Commands :
               Begins(u, e) /\ \A v \in Workers : cmd'[v] = IF v = u THEN e ELSE cmd[v]
  <2>1. c \in Commands /\ cmd' = [cmd EXCEPT ![w] = c]
    BY <1>1 DEF Begins, Only
  <2> QED
    BY <1>0, <1>1, <2>1
<1>2. ASSUME NEW w \in Workers, NEW c, cmd' = [cmd EXCEPT ![w] = c],
             (c.doc = cmd[w].doc /\ c.seen = cmd[w].seen) \/ c = NoCommand
      PROVE  \A v \in Workers :
               \/ cmd'[v].doc = cmd[v].doc /\ cmd'[v].seen = cmd[v].seen
               \/ cmd'[v] = NoCommand
  BY <1>0, <1>2
<1>3. ASSUME NEW w \in Workers, RollsBack(w) \/ Commits(w) \/ SaveConfirmed(w) \/ CutOff(w)
      PROVE  cmd' = [cmd EXCEPT ![w] = NoCommand]
  BY <1>3 DEF RollsBack, Rollback, Commits, Settle, SaveConfirmed, CutOff
<1>4. ASSUME UNCHANGED cmd
      PROVE  \A v \in Workers : cmd'[v].doc = cmd[v].doc /\ cmd'[v].seen = cmd[v].seen
  BY <1>4
<1>5. CASE Next
  <2>1. PICK w \in Workers :
           \/ \E c : Begins(w, c)
           \/ \E e \in Documents, new \in Rows, n \in {0, 1} : Files(w, e, new, n)
           \/ MoveLine(w) /\ \E c : Moves(w, c)
           \/ \E c : Passes(w, c)
           \/ RollsBack(w)
           \/ Step(w) /\ Commits(w)
           \/ OrderRegistered(w)
           \/ SaveConfirmed(w) \/ CutOff(w)
    BY <1>5, WhatHappens
  <2>2. CASE (\E c : Moves(w, c)) \/ (\E c : Passes(w, c))
    BY <1>2, <2>2 DEF Moves, Passes, Only
  <2>3. CASE \E e \in Documents, new \in Rows, n \in {0, 1} : Files(w, e, new, n)
    BY <1>4, <2>3 DEF Files
  <2>4. CASE OrderRegistered(w)
    BY <1>2, <2>4, RegisteredOrder
  <2>5. CASE RollsBack(w) \/ Commits(w) \/ SaveConfirmed(w) \/ CutOff(w)
    BY <1>2, <1>3, <2>5
  <2> QED
    BY <1>1, <2>1, <2>2, <2>3, <2>4, <2>5
<1> QED
  BY <1>4, <1>5 DEF vars

\* A step that lasts ends the command, unless a confirmation goes on.
LEMMA LastingEnds ==
  ASSUME Form, NEW w \in Workers, Lasting(w)
  PROVE  /\ cmd[w].doc \in Documents /\ cmd[w].stage # "idle"
         /\ cmd[w].doc \notin PendingOrders => cmd'[w] = NoCommand
         /\ cmd[w].doc \notin PendingOrders => Step(w) /\ Commits(w)
         /\ \A v \in Workers \ {w} : cmd'[v] = cmd[v]
<1>1. cmd \in [Workers -> Commands]
  BY DEF Form, TypeOK
<1>2. CASE Step(w) /\ Commits(w)
  BY <1>1, <1>2, InCommand DEF Commits, Settle, Complete
<1>3. CASE OrderRegistered(w)
  BY <1>1, <1>3, RegisteredOrder, DocumentsOf
<1>4. CASE SaveConfirmed(w) \/ CutOff(w)
  <2>1. cmd[w].stage = "saving"
    BY <1>4 DEF SaveConfirmed, CutOff
  <2> QED
    BY <1>1, <1>4, <2>1, SavedForm, DocumentsOf
<1> QED
  BY <1>2, <1>3, <1>4 DEF Lasting

Exclusive == Receipts \cup Conversions

LEMMA BeginsAlone ==
  ASSUME Form, OneAtATime, NEW w \in Workers, NEW c, Begins(w, c), c.doc \in Exclusive,
         NEW v \in Workers \ {w}
  PROVE  cmd[v].doc # c.doc
<1> SUFFICES ASSUME cmd[v].doc = c.doc PROVE FALSE
  OBVIOUS
<1>1. /\ Works(c) /\ c.seen = row[c.doc] /\ \A d \in c.locked : Unlocked(d)
      /\ c.op \in {"register", "registerConversion"} => New(c.doc)
  BY DEF Begins, Sound
<1>2. Works(cmd[v]) /\ cmd[v].seen = c.seen
  BY <1>1, InCommand DEF OneAtATime, Exclusive
<1>3. c.op \notin {"register", "registerConversion"}
  BY <1>1 DEF New
<1>4. c.doc \notin c.locked \/ c.doc \notin cmd[v].locked
  BY <1>1 DEF Unlocked
<1>5. CASE c.doc \in Receipts
  BY <1>1, <1>2, <1>3, <1>4, <1>5 DEF Works, ReceiptCommand
<1>6. CASE c.doc \in Conversions
  BY <1>1, <1>2, <1>3, <1>4, <1>6 DEF Works, ConversionCommand
<1> QED
  BY <1>5, <1>6 DEF Exclusive

LEMMA OneAtATimeStep ==
  ASSUME Form, OneAtATime, [Next]_vars
  PROVE  OneAtATime'
<1>0. NoDocument \notin Exclusive /\ NoCommand.doc = NoDocument
  BY NoKind, NoCommandFits DEF Exclusive
<1>1. CASE \E w \in Workers, c \in Commands :
             Begins(w, c) /\ \A v \in Workers : cmd'[v] = IF v = w THEN c ELSE cmd[v]
  <2>1. PICK w \in Workers, c \in Commands :
          Begins(w, c) /\ \A v \in Workers : cmd'[v] = IF v = w THEN c ELSE cmd[v]
    BY <1>1
  <2>2. row' = row /\ c.seen = row[c.doc]
    BY <2>1 DEF Begins, Only, papers
  <2>3. c.doc \in Exclusive => \A v \in Workers \ {w} : cmd[v].doc # c.doc
    BY <2>1, BeginsAlone
  <2> QED
    BY <2>1, <2>2, <2>3 DEF OneAtATime, Exclusive
<1>2. CASE \A v \in Workers :
             \/ cmd'[v].doc = cmd[v].doc /\ cmd'[v].seen = cmd[v].seen
             \/ cmd'[v] = NoCommand
  <2> SUFFICES ASSUME NEW w \in Workers, cmd'[w].doc \in Exclusive
               PROVE  /\ row'[cmd'[w].doc] = cmd'[w].seen
                      /\ \A v \in Workers \ {w} : cmd'[v].doc # cmd'[w].doc
    BY DEF OneAtATime, Exclusive
  <2>1. cmd'[w].doc = cmd[w].doc /\ cmd'[w].seen = cmd[w].seen
    BY <1>0, <1>2
  <2>2. \A v \in Workers \ {w} : cmd'[v].doc # cmd'[w].doc
    BY <1>0, <1>2, <2>1 DEF OneAtATime, Exclusive
  <2>3. cmd[w].doc \in Documents \ (Batches \cup Orders \cup Expenses \cup PendingOrders)
    BY <2>1, DocumentsOf, KindsAssumption DEF Exclusive
  <2>4. ASSUME NEW u \in Workers, Lasting(u), cmd[u].doc = cmd[w].doc
        PROVE  FALSE
    <3>1. u = w
      BY <2>1, <2>4 DEF OneAtATime, Exclusive
    <3>2. cmd'[w] = NoCommand
      BY <2>3, <2>4, <3>1, LastingEnds
    <3> QED
      BY <1>0, <3>2
  <2>5. row'[cmd[w].doc] = row[cmd[w].doc]
    BY <2>3, <2>4, Elsewhere DEF Files
  <2>6. row[cmd[w].doc] = cmd[w].seen
    BY <2>1 DEF OneAtATime, Exclusive
  <2> QED
    BY <2>1, <2>2, <2>5, <2>6
<1> QED
  BY <1>1, <1>2, WhoWorks

LEMMA InitOneAtATime == Init => OneAtATime
BY NoKind, NoCommandFits DEF Init, OneAtATime

-----------------------------------------------------------------------------
(* Receipts.                                                                *)

\* The commit of a registration, and of a confirmation.
LEMMA ReceiptCommitted ==
  ASSUME Form, OneAtATime, NEW w \in Workers, NEW r \in Receipts, cmd[w].doc = r, Lasting(w)
  PROVE  /\ Complete(w) /\ Recorded(w) /\ row[r] = cmd[w].seen /\ cmd[w].qty \in Int
         /\ \/ /\ Registered(w) /\ cmd[w].op = "register" /\ row[r].status = "none"
               /\ cmd[w].items = <<>> /\ cmd[w].qty \in Nat /\ entries' = entries
               /\ row'[r].status = "DRAFT" /\ row'[r].qty = cmd[w].qty
               /\ \A d \in Documents \ {r} : row'[d] = row[d]
            \/ /\ Confirmed(w) /\ cmd[w].op = "confirm" /\ row[r].status = "DRAFT"
               /\ cmd[w].items = Lines[r] /\ cmd[w].qty = row[r].qty
               /\ LocksOf(r) \subseteq cmd[w].locked
               /\ Posted(r, OneIf(r \in Journaled))
               /\ row'[r].status = "CONFIRMED" /\ row'[r].qty = row[r].qty
<1>1. r \in Documents /\ r \notin PendingOrders
  BY DocumentsOf, KindsAssumption
<1>2. Step(w) /\ Commits(w) /\ Complete(w) /\ cmd[w].stage = "moving" /\ Recorded(w)
  BY <1>1, LastingEnds DEF Commits, Complete, Settle
<1>3. ReceiptStep(w) /\ ReceiptCommand(cmd[w]) /\ cmd[w].qty \in Int /\ row[r] = cmd[w].seen
  BY <1>2, CommittingStep, InCommand DEF Works, OneAtATime
<1>4. CASE Registered(w)
  <2>1. cmd[w].op = "register" /\ Save(w, Row("DRAFT", cmd[w].qty, 0)) /\ entries' = entries
    BY <1>4 DEF Registered, Ready
  <2>2. row' = [row EXCEPT ![r] = Row("DRAFT", cmd[w].qty, 0)] /\ row \in [Documents -> Rows]
    BY <2>1 DEF Save, Form, TypeOK
  <2>3. row'[r].status = "DRAFT" /\ row'[r].qty = cmd[w].qty
    BY <1>1, <2>2, RowFields
  <2>4. \A d \in Documents \ {r} : row'[d] = row[d]
    BY <2>2
  <2>5. row[r].status = "none" /\ cmd[w].items = <<>> /\ cmd[w].qty \in Nat
    BY <1>3, <2>1 DEF ReceiptCommand
  <2> QED
    BY <1>2, <1>3, <1>4, <2>1, <2>3, <2>4, <2>5
<1>5. CASE Confirmed(w)
  <2>1. cmd[w].op = "confirm" /\ Posted(r, OneIf(r \in Journaled))
        /\ row'[r] = Row("CONFIRMED", cmd[w].seen.qty, 0)
    BY <1>1, <1>5 DEF Confirmed, Ready
  <2>2. row'[r].status = "CONFIRMED" /\ row'[r].qty = cmd[w].seen.qty
    BY <2>1, RowFields
  <2>3. /\ row[r].status = "DRAFT" /\ cmd[w].qty = row[r].qty /\ cmd[w].items = Lines[r]
        /\ LocksOf(r) \subseteq cmd[w].locked
    BY <1>2, <1>3, <2>1 DEF ReceiptCommand
  <2> QED
    BY <1>2, <1>3, <1>5, <2>1, <2>2, <2>3
<1> QED
  BY <1>2, <1>3, <1>4, <1>5
  DEF ReceiptStep, ReceiptCommand, Revised, Ready, LockOrder, TooMuch, WrittenOff, PostedReturn

Stocked == ReceiptRows /\ ReceiptIsStockedOnce

LEMMA StockedStep ==
  ASSUME Form, BalancesHeld, OneAtATime, Stocked, [Next]_vars
  PROVE  Stocked'
<1> SUFFICES ASSUME NEW r \in Receipts
             PROVE  /\ row'[r].status \in {"none", "DRAFT", "CONFIRMED"} /\ row'[r].qty \in Nat
                    /\ MovesOnce(r, row[r].status = "CONFIRMED", 1)'
  BY DEF Stocked, ReceiptRows, ReceiptIsStockedOnce
<1>1. /\ row[r].status \in {"none", "DRAFT", "CONFIRMED"} /\ row[r].qty \in Nat
      /\ entries[r] = OneIf(row[r].status = "CONFIRMED" /\ r \in Journaled)
      /\ \A k \in Keys :
           moved[r][k] = IF row[r].status = "CONFIRMED" /\ Lists(r, k, At[r]) THEN 1 * row[r].qty ELSE 0
      /\ r \in Documents
  BY DocumentsOf DEF Stocked, ReceiptRows, ReceiptIsStockedOnce, MovesOnce
<1>2. ASSUME NEW w \in Workers, Lasting(w), cmd[w].doc = r
      PROVE  /\ row'[r].status \in {"none", "DRAFT", "CONFIRMED"} /\ row'[r].qty \in Nat
             /\ MovesOnce(r, row[r].status = "CONFIRMED", 1)'
  <2>1. CASE cmd[w].op = "register"
    <3>1. /\ row'[r].status = "DRAFT" /\ row'[r].qty \in Nat /\ entries' = entries
          /\ row[r].status = "none" /\ Complete(w) /\ Recorded(w) /\ cmd[w].items = <<>>
      BY <1>2, <2>1, ReceiptCommitted
    <3>2. \A k \in Keys : moved'[r][k] = 0
      BY <1>1, <1>2, <2>1, <3>1, CommittedMoves
    <3> QED
      BY <1>1, <3>1, <3>2 DEF MovesOnce, OneIf
  <2>2. CASE cmd[w].op # "register"
    <3>1. /\ row'[r].status = "CONFIRMED" /\ row'[r].qty = row[r].qty /\ cmd[w].qty = row[r].qty
          /\ row[r].status = "DRAFT" /\ Complete(w) /\ Recorded(w) /\ cmd[w].items = Lines[r]
          /\ Posted(r, OneIf(r \in Journaled)) /\ cmd[w].op = "confirm"
      BY <1>2, <2>2, ReceiptCommitted
    <3>2. Branch(cmd[w]) = At[r] /\ Range(cmd[w].items) = ItemsOf(r)
      BY <1>2, <3>1 DEF Branch, ItemsOf
    <3>3. ASSUME NEW k \in Keys
          PROVE  moved'[r][k] = IF Lists(r, k, At[r]) THEN row[r].qty ELSE 0
      <4>1. moved'[r][k] = moved[r][k] + (IF Lists(r, k, At[r]) THEN row[r].qty ELSE 0)
        BY <1>2, <3>1, <3>2, CommittedMoves
      <4>2. moved[r][k] = 0
        BY <1>1, <3>1
      <4> QED
        BY <1>1, <4>1, <4>2
    <3>4. entries'[r] = OneIf(r \in Journaled)
      <4>1. entries'[r] = entries[r] + OneIf(r \in Journaled) /\ entries[r] = 0
        BY <1>1, <3>1, PostedFor, OneOrNone DEF OneIf
      <4> QED
        BY <4>1, OneOrNone
    <3> QED
      BY <1>1, <3>1, <3>3, <3>4 DEF MovesOnce, OneIf, Lists
  <2> QED
    BY <2>1, <2>2
<1>3. r \notin Expenses \cup PendingOrders \cup Batches \cup Orders
  BY KindsAssumption
<1>4. CASE moved'[r] = moved[r] /\ entries'[r] = entries[r] /\ row'[r] = row[r]
  BY <1>1, <1>4 DEF MovesOnce, Lists
<1> QED
  BY <1>1, <1>2, <1>3, <1>4, Elsewhere DEF Files

LEMMA AtFirst ==
  ASSUME Init, NEW d \in Documents
  PROVE  /\ row[d] = Blank(d) /\ entries[d] = 0 /\ consumed[d] = 0
         /\ \A k \in Keys : moved[d][k] = 0
         /\ \A w \in Workers : cmd[w].doc = NoDocument /\ cmd[w].locked = {} /\ cmd[w].stage = "idle"
BY NoCommandFits, IdleCommand DEF Init, Zero

LEMMA InitStocked == Init => Stocked
<1> SUFFICES ASSUME Init, NEW r \in Receipts
             PROVE  /\ row[r].status \in {"none", "DRAFT", "CONFIRMED"} /\ row[r].qty \in Nat
                    /\ MovesOnce(r, row[r].status = "CONFIRMED", 1)
  BY DEF Stocked, ReceiptRows, ReceiptIsStockedOnce
<1>1. row[r].status = "none" /\ row[r].qty = 0
  BY AtFirst, DocumentsOf, KindsAssumption, RowFields DEF Blank
<1> QED
  BY <1>1, AtFirst, DocumentsOf DEF MovesOnce, OneIf

LEMMA AlwaysStocked == Spec => []Stocked
BY InitOneAtATime, OneAtATimeStep, InitStocked, StockedStep, Always, PTL DEF Spec

\* ReceiptIsStockedOnce: stock and journal have a confirmed receipt once, and one that
\* is not confirmed not at all; because its commands wait for each other, and read it
\* after they have locked it.
THEOREM ReceiptsAreStockedOnce == Spec => []ReceiptIsStockedOnce
<1>1. Stocked => ReceiptIsStockedOnce
  BY DEF Stocked
<1> QED
  BY <1>1, AlwaysStocked, PTL

-----------------------------------------------------------------------------
(* Conversions.                                                             *)

LEMMA ConversionCommitted ==
  ASSUME Form, BalancesHeld, OneAtATime, NEW w \in Workers, NEW c \in Conversions,
         cmd[w].doc = c, Lasting(w)
  PROVE  /\ Complete(w) /\ Recorded(w) /\ cmd[w].op # "count" /\ Branch(cmd[w]) = At[c]
         /\ cmd[w].qty \in Int /\ row[c].qty \in Int /\ row[c].got \in Int
         /\ \/ /\ row[c].status \in {"none", "DRAFT", "APPROVED"} /\ cmd[w].items = <<>>
               /\ row'[c].status \in {"DRAFT", "APPROVED", "CANCELLED"} /\ entries' = entries
            \/ /\ row[c].status = "IN_PROGRESS" /\ cmd[w].items = Lines[c]
               /\ cmd[w].qty = row[c].qty
               /\ row'[c].status = "CANCELLED" /\ entries' = entries
            \/ /\ row[c].status = "APPROVED" /\ cmd[w].items = Sorted[c]
               /\ row'[c].status = "IN_PROGRESS" /\ row'[c].qty = -cmd[w].qty
               /\ entries' = entries
            \/ /\ row[c].status = "IN_PROGRESS" /\ cmd[w].items = <<Output[c]>>
               /\ row'[c].status = "COMPLETED" /\ row'[c].qty = row[c].qty
               /\ row'[c].got = cmd[w].qty /\ cmd[w].qty \in Nat
               /\ Completed(w) /\ Posted(c, OneIf(c \in Journaled))
         /\ Completed(w) \/ \A d \in Documents \ {c} : row'[d] = row[d]
<1>1. c \in Documents /\ c \notin PendingOrders
  BY DocumentsOf, KindsAssumption
<1>2. Step(w) /\ Commits(w) /\ Complete(w) /\ cmd[w].stage = "moving" /\ Recorded(w)
  BY <1>1, LastingEnds DEF Commits, Complete, Settle
<1>3. /\ ConversionStep(w) /\ ConversionCommand(cmd[w]) /\ cmd[w].qty \in Int
      /\ row[c] = cmd[w].seen
  BY <1>2, CommittingStep, InCommand DEF Works, OneAtATime
<1>4. /\ cmd[w].op # "count" /\ Branch(cmd[w]) = At[c]
      /\ row[c].qty \in Int /\ row[c].got \in Int /\ row \in [Documents -> Rows]
  BY <1>1, <1>3 DEF ConversionCommand, Branch, Form, TypeOK, Rows
<1>5. ASSUME NEW op, NEW status, op # "count", Revised(w, op, status)
      PROVE  /\ cmd[w].op = op /\ row'[c].status = status /\ entries' = entries
             /\ \A d \in Documents \ {c} : row'[d] = row[d]
  <2>1. \A d \in Documents \ {c} : row'[d] = row[d]
    BY <1>4, <1>5 DEF Revised, Save
  <2> QED
    BY <1>5, <2>1, RevisedDocument
<1>6. CASE Revised(w, "registerConversion", "DRAFT")
  BY <1>2, <1>3, <1>4, <1>5, <1>6 DEF ConversionCommand
<1>7. CASE Revised(w, "approveConversion", "APPROVED")
  BY <1>2, <1>3, <1>4, <1>5, <1>7 DEF ConversionCommand
<1>8. CASE Revised(w, "cancelConversion", "CANCELLED")
  BY <1>2, <1>3, <1>4, <1>5, <1>8 DEF ConversionCommand
<1>9. CASE Started(w)
  <2>1. cmd[w].op = "start" /\ Save(w, Row("IN_PROGRESS", -cmd[w].qty, 0)) /\ entries' = entries
    BY <1>9 DEF Started, Ready
  <2>2. row' = [row EXCEPT ![c] = Row("IN_PROGRESS", -cmd[w].qty, 0)]
    BY <2>1 DEF Save
  <2>3. row'[c].status = "IN_PROGRESS" /\ row'[c].qty = -cmd[w].qty
    BY <1>1, <1>4, <2>2, RowFields
  <2>4. \A d \in Documents \ {c} : row'[d] = row[d]
    BY <1>4, <2>2
  <2>5. row[c].status = "APPROVED" /\ cmd[w].items = Sorted[c]
    BY <1>3, <2>1 DEF ConversionCommand
  <2> QED
    BY <1>2, <1>3, <1>4, <2>1, <2>3, <2>4, <2>5
<1>10. CASE Completed(w)
  <2>1. cmd[w].op = "complete" /\ Posted(c, OneIf(c \in Journaled))
        /\ row'[c] = Row("COMPLETED", cmd[w].seen.qty, cmd[w].qty)
    BY <1>1, <1>10 DEF Completed, Ready
  <2>2. /\ row'[c].status = "COMPLETED" /\ row'[c].qty = cmd[w].seen.qty
        /\ row'[c].got = cmd[w].qty
    BY <2>1, RowFields
  <2>3. row[c].status = "IN_PROGRESS" /\ cmd[w].items = <<Output[c]>> /\ cmd[w].qty \in Nat
    BY <1>3, <2>1 DEF ConversionCommand
  <2> QED
    BY <1>2, <1>3, <1>4, <1>10, <2>1, <2>2, <2>3
<1> QED
  BY <1>3, <1>6, <1>7, <1>8, <1>9, <1>10 DEF ConversionStep

Made(c, k) == IF row[c].status = "COMPLETED" /\ k = <<At[c], Output[c]>> THEN row[c].got ELSE 0

Taken(c, k) ==
  IF row[c].status \in {"IN_PROGRESS", "COMPLETED"} /\ Lists(c, k, At[c]) THEN row[c].qty ELSE 0

Converted(c) ==
  /\ entries[c] = OneIf(row[c].status = "COMPLETED" /\ c \in Journaled)
  /\ \A k \in Keys : moved[c][k] = Made(c, k) - Taken(c, k)

LEMMA ConvertedAll == ConversionTakesAndMakesOnce <=> \A c \in Conversions : Converted(c)
BY DEF ConversionTakesAndMakesOnce, Converted, Made, Taken

LEMMA ConversionsStep ==
  ASSUME Form, BalancesHeld, OneAtATime, \A c \in Conversions : Converted(c), [Next]_vars,
         NEW c \in Conversions
  PROVE  Converted(c)'
<1>1. /\ c \in Documents /\ entries[c] = OneIf(row[c].status = "COMPLETED" /\ c \in Journaled)
      /\ \A k \in Keys : moved[c][k] = Made(c, k) - Taken(c, k)
      /\ row[c].qty \in Int /\ row[c].got \in Int
  BY DocumentsOf DEF Converted, Form, TypeOK, Rows
<1>2. ASSUME NEW w \in Workers, Lasting(w), cmd[w].doc = c
      PROVE  Converted(c)'
  <2>1. /\ Complete(w) /\ Recorded(w) /\ cmd[w].op # "count" /\ Branch(cmd[w]) = At[c]
        /\ cmd[w].qty \in Int
    BY <1>2, ConversionCommitted
  <2>2. /\ Range(<<Output[c]>>) = {Output[c]} /\ Range(Sorted[c]) = ItemsOf(c)
        /\ Range(Lines[c]) = ItemsOf(c)
    <3>1. Range(<<Output[c]>>) = {Output[c]}
      BY DEF Range
    <3> QED
      BY <3>1, ConversionsAssumption DEF ItemsOf
  <2>3. CASE /\ row[c].status \in {"none", "DRAFT", "APPROVED"} /\ cmd[w].items = <<>>
             /\ row'[c].status \in {"DRAFT", "APPROVED", "CANCELLED"} /\ entries' = entries
    <3>1. \A k \in Keys : moved'[c][k] = 0
      BY <1>1, <1>2, <2>1, <2>3, CommittedMoves DEF Made, Taken
    <3> QED
      BY <1>1, <2>3, <3>1 DEF Converted, Made, Taken, OneIf
  <2>4. CASE /\ row[c].status = "IN_PROGRESS" /\ cmd[w].items = Lines[c]
             /\ cmd[w].qty = row[c].qty
             /\ row'[c].status = "CANCELLED" /\ entries' = entries
    <3>1. ASSUME NEW k \in Keys
          PROVE  moved'[c][k] = 0
      <4>1. moved'[c][k] = moved[c][k] + (IF Lists(c, k, At[c]) THEN row[c].qty ELSE 0)
        BY <1>2, <2>1, <2>2, <2>4, CommittedMoves
      <4>2. moved[c][k] = -(IF Lists(c, k, At[c]) THEN row[c].qty ELSE 0)
        BY <1>1, <2>4 DEF Made, Taken
      <4> QED
        BY <1>1, <4>1, <4>2
    <3> QED
      BY <1>1, <2>4, <3>1 DEF Converted, Made, Taken, OneIf
  <2>5. CASE /\ row[c].status = "APPROVED" /\ cmd[w].items = Sorted[c]
             /\ row'[c].status = "IN_PROGRESS" /\ row'[c].qty = -cmd[w].qty
             /\ entries' = entries
    <3>1. ASSUME NEW k \in Keys
          PROVE  moved'[c][k] = IF Lists(c, k, At[c]) THEN cmd[w].qty ELSE 0
      <4>1. moved'[c][k] = moved[c][k] + (IF Lists(c, k, At[c]) THEN cmd[w].qty ELSE 0)
        BY <1>2, <2>1, <2>2, <2>5, CommittedMoves
      <4>2. moved[c][k] = 0
        BY <1>1, <2>5 DEF Made, Taken
      <4> QED
        BY <2>1, <4>1, <4>2
    <3> QED
      BY <1>1, <2>1, <2>5, <3>1 DEF Converted, Made, Taken, OneIf, Lists
  <2>6. CASE /\ row[c].status = "IN_PROGRESS" /\ cmd[w].items = <<Output[c]>>
             /\ row'[c].status = "COMPLETED" /\ row'[c].qty = row[c].qty
             /\ row'[c].got = cmd[w].qty /\ cmd[w].qty \in Nat
             /\ Completed(w) /\ Posted(c, OneIf(c \in Journaled))
    <3>1. ASSUME NEW k \in Keys
          PROVE  moved'[c][k] = (IF k = <<At[c], Output[c]>> THEN cmd[w].qty ELSE 0)
                                - (IF Lists(c, k, At[c]) THEN row[c].qty ELSE 0)
      <4>1. moved'[c][k] = moved[c][k]
              + (IF k[1] = At[c] /\ k[2] \in {Output[c]} THEN cmd[w].qty ELSE 0)
        BY <1>2, <2>1, <2>2, <2>6, CommittedMoves
      <4>2. moved[c][k] = -(IF Lists(c, k, At[c]) THEN row[c].qty ELSE 0)
        BY <1>1, <2>6 DEF Made, Taken
      <4>3. k = <<k[1], k[2]>>
        BY DEF Keys
      <4>4. k = <<At[c], Output[c]>> <=> k[1] = At[c] /\ k[2] \in {Output[c]}
        BY <4>3
      <4> QED
        BY <1>1, <2>1, <4>1, <4>2, <4>4
    <3>2. entries'[c] = OneIf(c \in Journaled)
      <4>1. entries'[c] = entries[c] + OneIf(c \in Journaled) /\ entries[c] = 0
        BY <1>1, <2>6, PostedFor, OneOrNone DEF OneIf
      <4> QED
        BY <4>1, OneOrNone
    <3> QED
      BY <1>1, <2>6, <3>1, <3>2 DEF Converted, Made, Taken, OneIf, Lists
  <2> QED
    BY <1>2, <2>3, <2>4, <2>5, <2>6, ConversionCommitted
<1>3. c \notin Expenses \cup PendingOrders \cup Batches \cup Orders
  BY KindsAssumption
<1>4. CASE moved'[c] = moved[c] /\ entries'[c] = entries[c] /\ row'[c] = row[c]
  BY <1>1, <1>4 DEF Converted, Made, Taken
<1>5. ASSUME NEW w, NEW new, NEW n, Files(w, c, new, n)
      PROVE  FALSE
  BY <1>3, <1>5 DEF Files
<1> QED
  BY <1>1, <1>2, <1>3, <1>4, <1>5, Elsewhere

\* ConversionTakesAndMakesOnce: the stock lacks the ingredients of a conversion once,
\* from its start on, has its product once when it is complete, and is as before when
\* it is cancelled; because every command locks the order before it reads its status.
THEOREM ConversionsTakeAndMakeOnce == Spec => []ConversionTakesAndMakesOnce
<1> DEFINE Inv == \A c \in Conversions : Converted(c)
<1>1. Init => Inv
  <2> SUFFICES ASSUME Init, NEW c \in Conversions
               PROVE  Converted(c)
    OBVIOUS
  <2>1. row[c].status = "none"
    BY AtFirst, DocumentsOf, KindsAssumption, RowFields DEF Blank
  <2> QED
    BY <2>1, AtFirst, DocumentsOf DEF Converted, Made, Taken, OneIf
<1>2. Form /\ BalancesHeld /\ OneAtATime /\ Inv /\ [Next]_vars => Inv'
  BY ConversionsStep
<1>3. Inv => ConversionTakesAndMakesOnce
  BY ConvertedAll
<1> HIDE DEF Inv
<1> QED
  BY <1>1, <1>2, <1>3, InitOneAtATime, OneAtATimeStep, Always, PTL DEF Spec

-----------------------------------------------------------------------------
(* Returns, purchases, expenses and pending orders.                         *)

LEMMA ReturnCommitted ==
  ASSUME Form, BalancesHeld, NEW w \in Workers, NEW p \in Returns, cmd[w].doc = p, Lasting(w),
         p \notin stale', MovesOnce(p, row[p].status = "POSTED", -1)
  PROVE  MovesOnce(p, row[p].status = "POSTED", -1)'
<1>1. p \in Documents /\ p \notin PendingOrders
  BY DocumentsOf, KindsAssumption
<1>2. Step(w) /\ Commits(w) /\ Complete(w) /\ cmd[w].stage = "moving" /\ Recorded(w)
  BY <1>1, LastingEnds DEF Commits, Complete, Settle
<1>3. ReceiptStep(w) /\ ReturnCommand(cmd[w]) /\ cmd[w].qty \in Int
  BY <1>2, CommittingStep, InCommand DEF Works
<1>4. CASE Revised(w, "cancelReturn", "CANCELLED")
  <2>1. /\ row'[p].status = "CANCELLED" /\ entries' = entries /\ cmd[w].op = "cancelReturn"
        /\ row[p] = cmd[w].seen
    BY <1>4, RevisedDocument
  <2>2. row[p].status = "DRAFT" /\ cmd[w].items = <<>>
    BY <1>3, <2>1 DEF ReturnCommand
  <2>3. \A k \in Keys : moved'[p][k] = moved[p][k]
    BY <1>4, <2>2, RevisedDocument
  <2> QED
    BY <2>1, <2>2, <2>3 DEF MovesOnce, OneIf
<1>5. CASE PostedReturn(w)
  <2>1. /\ cmd[w].op = "post" /\ Save(w, Row("POSTED", cmd[w].seen.qty, 0))
        /\ Posted(p, OneIf(p \in Journaled))
    BY <1>5 DEF PostedReturn, Ready
  <2>2. row'[p].status = "POSTED" /\ row'[p].qty = row[p].qty /\ row[p] = cmd[w].seen
    BY <1>1, <2>1, SavedOver, RowFields
  <2>3. /\ row[p].status = "DRAFT" /\ cmd[w].qty = -row[p].qty
        /\ Range(cmd[w].items) = ItemsOf(p) /\ Branch(cmd[w]) = At[p]
    BY <1>3, <2>1, <2>2 DEF ReturnCommand, ItemsOf, Branch
  <2>4. entries[p] = 0 /\ \A k \in Keys : moved[p][k] = 0
    BY <2>3 DEF MovesOnce, OneIf
  <2>5. entries'[p] = OneIf(p \in Journaled)
    <3>1. entries'[p] = entries[p] + OneIf(p \in Journaled)
      BY <1>1, <2>1, PostedFor, OneOrNone
    <3> QED
      BY <2>4, <3>1, OneOrNone
  <2>6. ASSUME NEW k \in Keys
        PROVE  moved'[p][k] = IF Lists(p, k, At[p]) THEN -row[p].qty ELSE 0
    <3>1. moved'[p][k] = moved[p][k] + (IF Lists(p, k, At[p]) THEN cmd[w].qty ELSE 0)
      BY <1>2, <2>1, <2>3, CommittedMoves
    <3> QED
      BY <1>3, <2>3, <2>4, <3>1
  <2>7. row[p].qty \in Int /\ -1 * row[p].qty = -row[p].qty
    <3>1. row[p].qty \in Int
      BY <1>1 DEF Form, TypeOK, Rows
    <3> QED
      BY <3>1
  <2> QED
    BY <2>2, <2>5, <2>6, <2>7 DEF MovesOnce, OneIf, Lists
<1> QED
  BY <1>3, <1>4, <1>5, <1>2
  DEF ReceiptStep, ReturnCommand, Revised, Ready, LockOrder, TooMuch, WrittenOff, PostedReturn,
      Registered, Confirmed

LEMMA PurchaseCommitted ==
  ASSUME Form, BalancesHeld, NEW w \in Workers, NEW u \in Purchases, cmd[w].doc = u, Lasting(w),
         u \notin stale', MovesOnce(u, row[u].status = "CONFIRMED", 1)
  PROVE  MovesOnce(u, row[u].status = "CONFIRMED", 1)'
<1>1. u \in Documents /\ u \notin PendingOrders
  BY DocumentsOf, KindsAssumption
<1>2. Step(w) /\ Commits(w) /\ Complete(w) /\ cmd[w].stage = "moving" /\ Recorded(w)
  BY <1>1, LastingEnds DEF Commits, Complete, Settle
<1>3. PurchaseStep(w) /\ PurchaseCommand(cmd[w]) /\ cmd[w].qty \in Int
  BY <1>2, CommittingStep, InCommand DEF Works
<1>4. CASE Revised(w, "rejectPurchase", "REJECTED")
  <2>1. /\ row'[u].status = "REJECTED" /\ entries' = entries /\ cmd[w].op = "rejectPurchase"
        /\ row[u] = cmd[w].seen
    BY <1>4, RevisedDocument
  <2>2. row[u].status = "PENDING" /\ cmd[w].items = <<>>
    BY <1>3, <2>1 DEF PurchaseCommand
  <2>3. \A k \in Keys : moved'[u][k] = moved[u][k]
    BY <1>4, <2>2, RevisedDocument
  <2> QED
    BY <2>1, <2>2, <2>3 DEF MovesOnce, OneIf
<1>5. CASE Noted(w)
  <2>1. cmd[w].op = "note" /\ Save(w, Row("PENDING", cmd[w].qty, 0)) /\ entries' = entries
    BY <1>5 DEF Noted, Ready
  <2>2. row'[u].status = "PENDING" /\ row[u] = cmd[w].seen
    BY <1>1, <2>1, SavedOver, RowFields
  <2>3. row[u].status \in {"none", "PENDING"} /\ cmd[w].items = <<>>
    BY <1>3, <2>1, <2>2 DEF PurchaseCommand
  <2>4. \A k \in Keys : moved'[u][k] = moved[u][k]
    BY <1>2, <2>1, <2>3, CommittedMoves
  <2> QED
    BY <2>1, <2>2, <2>3, <2>4 DEF MovesOnce, OneIf
<1>6. CASE Bought(w)
  <2>1. /\ cmd[w].op = "buy" /\ Save(w, Row("CONFIRMED", cmd[w].qty, 0))
        /\ Posted(u, OneIf(u \in Journaled /\ Lines[u] # <<>>))
    BY <1>6 DEF Bought, Ready
  <2>2. row'[u].status = "CONFIRMED" /\ row'[u].qty = cmd[w].qty /\ row[u] = cmd[w].seen
    BY <1>1, <2>1, SavedOver, RowFields
  <2>3. /\ row[u].status \in {"none", "PENDING"}
        /\ Range(cmd[w].items) = ItemsOf(u) /\ Branch(cmd[w]) = At[u]
    BY <1>3, <2>1, <2>2 DEF PurchaseCommand, ItemsOf, Branch
  <2>4. entries[u] = 0 /\ \A k \in Keys : moved[u][k] = 0
    BY <2>3 DEF MovesOnce, OneIf
  <2>5. entries'[u] = OneIf(u \in Journaled)
    <3>1. entries'[u] = entries[u] + OneIf(u \in Journaled /\ Lines[u] # <<>>)
      BY <1>1, <2>1, PostedFor, OneOrNone
    <3>2. u \in Journaled => Lines[u] # <<>>
      BY PurchasesAssumption
    <3> QED
      BY <2>4, <3>1, <3>2 DEF OneIf
  <2>6. ASSUME NEW k \in Keys
        PROVE  moved'[u][k] = IF Lists(u, k, At[u]) THEN cmd[w].qty ELSE 0
    <3>1. moved'[u][k] = moved[u][k] + (IF Lists(u, k, At[u]) THEN cmd[w].qty ELSE 0)
      BY <1>2, <2>1, <2>3, CommittedMoves
    <3> QED
      BY <1>3, <2>3, <2>4, <3>1
  <2> QED
    BY <1>3, <2>2, <2>5, <2>6 DEF MovesOnce, OneIf, Lists
<1> QED
  BY <1>3, <1>4, <1>5, <1>6 DEF PurchaseStep

LEMMA ExpenseCommitted ==
  ASSUME Form, BalancesHeld, NEW w \in Workers, NEW x \in Expenses, cmd[w].doc = x, Lasting(w),
         x \notin stale', MovesOnce(x, row[x].status = "POSTED", 0)
  PROVE  MovesOnce(x, row[x].status = "POSTED", 0)'
<1>1. x \in Documents /\ x \notin PendingOrders
  BY DocumentsOf, KindsAssumption
<1>2. Step(w) /\ Commits(w) /\ Complete(w) /\ cmd[w].stage = "moving" /\ Recorded(w)
  BY <1>1, LastingEnds DEF Commits, Complete, Settle
<1>3. ExpenseStep(w) /\ ExpenseCommand(cmd[w]) /\ cmd[w].items = <<>>
  BY <1>2, CommittingStep, InCommand DEF Works, ExpenseCommand
<1>4. \A k \in Keys : moved'[x][k] = moved[x][k]
  BY <1>2, <1>3, CommittedMoves DEF ExpenseCommand
<1>5. \A k \in Keys : ~Lists(x, k, At[x])
  BY ExpensesAssumption DEF Lists, ItemsOf, Range
<1>6. \A k \in Keys : moved'[x][k] = 0
  BY <1>4, <1>5 DEF MovesOnce
<1>7. CASE Revised(w, "submitExpense", "SUBMITTED") \/ Revised(w, "cancelExpense", "CANCELLED")
  <2>1. /\ row'[x].status \in {"SUBMITTED", "CANCELLED"} /\ entries' = entries
        /\ cmd[w].op \in {"submitExpense", "cancelExpense"} /\ row[x] = cmd[w].seen
    BY <1>7, RevisedDocument
  <2>2. row[x].status \in {"DRAFT", "SUBMITTED"}
    BY <1>3, <2>1 DEF ExpenseCommand
  <2> QED
    BY <1>6, <2>1, <2>2 DEF MovesOnce, OneIf
<1>8. CASE Edited(w)
  <2>1. /\ cmd[w].op = "editExpense" /\ Save(w, Row("SUBMITTED", cmd[w].qty, 0))
        /\ entries' = entries
    BY <1>8 DEF Edited, Ready
  <2>2. row'[x].status = "SUBMITTED" /\ row[x] = cmd[w].seen
    BY <1>1, <2>1, SavedOver, RowFields
  <2>3. row[x].status = "SUBMITTED"
    BY <1>3, <2>1, <2>2 DEF ExpenseCommand
  <2> QED
    BY <1>6, <2>1, <2>2, <2>3 DEF MovesOnce, OneIf
<1>9. CASE Reviewed(w)
  <2>1. /\ cmd[w].op = "reviewExpense" /\ Save(w, Row("POSTED", cmd[w].seen.qty, 0))
        /\ Posted(x, 1)
    BY <1>9 DEF Reviewed, Ready
  <2>2. row'[x].status = "POSTED" /\ row[x] = cmd[w].seen
    BY <1>1, <2>1, SavedOver, RowFields
  <2>3. row[x].status = "SUBMITTED" /\ x \in Journaled
    BY <1>3, <2>1, <2>2 DEF ExpenseCommand
  <2>4. entries'[x] = entries[x] + 1
    BY <1>1, <2>1, PostedFor
  <2>5. entries[x] = 0
    BY <2>3 DEF MovesOnce, OneIf
  <2> QED
    BY <1>5, <1>6, <2>2, <2>3, <2>4, <2>5 DEF MovesOnce, OneIf, Lists
<1> QED
  BY <1>3, <1>7, <1>8, <1>9 DEF ExpenseStep

\* A request has its order committed, and not yet the pending order, until it has.
LEMMA SavingStays ==
  ASSUME Form, [Next]_vars, NEW g \in Documents,
         ~\E w \in Workers : Lasting(w) /\ cmd[w].doc = g, NEW v \in Workers
  PROVE  Saving(v, g)' <=> Saving(v, g)
<1>0. /\ cmd \in [Workers -> Commands] /\ NoCommand.stage = "idle"
      /\ \A w \in Workers : cmd[w].stage = "saving" <=> cmd[w].op = "confirmed"
  BY IdleCommand, InCommand DEF Form, TypeOK, Staged
<1>1. ASSUME NEW w \in Workers, NEW c, cmd' = [cmd EXCEPT ![w] = c],
             c.stage # "saving" \/ c.doc # g, cmd[w].stage # "saving" \/ cmd[w].doc # g
      PROVE  Saving(v, g)' <=> Saving(v, g)
  <2>1. cmd'[v] = IF v = w THEN c ELSE cmd[v]
    BY <1>0, <1>1
  <2> QED
    BY <1>1, <2>1 DEF Saving
<1>2. ASSUME NEW w \in Workers, NEW c, Begins(w, c)
      PROVE  Saving(v, g)' <=> Saving(v, g)
  <2>1. c.stage # "saving" /\ cmd[w].stage # "saving" /\ cmd' = [cmd EXCEPT ![w] = c]
    BY <1>2 DEF Begins, Sound, Staged, Only
  <2> QED
    BY <1>1, <2>1
<1>3. ASSUME NEW w \in Workers, NEW c, Moves(w, c) \/ Passes(w, c)
      PROVE  Saving(v, g)' <=> Saving(v, g)
  <2>1. c.stage # "saving" /\ cmd' = [cmd EXCEPT ![w] = c] /\ c.op = cmd[w].op
    BY <1>3 DEF Moves, Passes, Only
  <2>2. cmd[w].stage # "saving"
    <3>1. c.stage = "saving" <=> c.op = "confirmed"
      BY <1>3 DEF Moves, Passes, Sound, Staged
    <3> QED
      BY <1>0, <2>1, <3>1
  <2> QED
    BY <1>1, <2>1, <2>2
<1>4. ASSUME NEW w \in Workers, RollsBack(w) \/ Commits(w)
      PROVE  Saving(v, g)' <=> Saving(v, g)
  <2>1. cmd[w].stage # "saving" /\ cmd' = [cmd EXCEPT ![w] = NoCommand]
    BY <1>4 DEF RollsBack, Rollback, Commits, Complete, Settle
  <2> QED
    BY <1>0, <1>1, <2>1
<1>5. ASSUME NEW w \in Workers, OrderRegistered(w)
      PROVE  Saving(v, g)' <=> Saving(v, g)
  <2>1. cmd[w].doc # g
    BY <1>5 DEF Lasting
  <2>2. PICK c \in Commands : cmd' = [cmd EXCEPT ![w] = c] /\ c.doc = cmd[w].doc
    BY <1>5, RegisteredOrder
  <2> QED
    BY <1>1, <2>1, <2>2
<1>6. ASSUME NEW w \in Workers, SaveConfirmed(w) \/ CutOff(w)
      PROVE  Saving(v, g)' <=> Saving(v, g)
  <2>1. cmd[w].doc # g /\ cmd' = [cmd EXCEPT ![w] = NoCommand]
    BY <1>6 DEF Lasting, SaveConfirmed, CutOff
  <2> QED
    BY <1>0, <1>1, <2>1
<1>7. ASSUME UNCHANGED cmd
      PROVE  Saving(v, g)' <=> Saving(v, g)
  BY <1>7 DEF Saving
<1>8. CASE Next
  <2>1. PICK w \in Workers :
           \/ \E c : Begins(w, c)
           \/ \E e \in Documents, new \in Rows, n \in {0, 1} : Files(w, e, new, n)
           \/ MoveLine(w) /\ \E c : Moves(w, c)
           \/ \E c : Passes(w, c)
           \/ RollsBack(w)
           \/ Step(w) /\ Commits(w)
           \/ OrderRegistered(w)
           \/ SaveConfirmed(w) \/ CutOff(w)
    BY <1>8, WhatHappens
  <2>2. (\E e \in Documents, new \in Rows, n \in {0, 1} : Files(w, e, new, n)) => UNCHANGED cmd
    BY DEF Files
  <2> QED
    BY <1>2, <1>3, <1>4, <1>5, <1>6, <1>7, <2>1, <2>2
<1> QED
  BY <1>7, <1>8 DEF vars

Confirming(g) == row[g].status = "CONFIRMED" \/ \E w \in Workers : Saving(w, g)

\* Who works on a pending order has found it submitted.
Submitted ==
  \A w \in Workers :
    cmd[w].doc \in PendingOrders => row[cmd[w].doc].status \notin {"none", "DRAFT"}

LEMMA PendingCommitted ==
  ASSUME Form, BalancesHeld, NEW w \in Workers, NEW g \in PendingOrders, cmd[w].doc = g, Lasting(w),
         g \notin stale', MovesOnce(g, Confirming(g), -1)
  PROVE  MovesOnce(g, Confirming(g), -1)'
<1>1. /\ g \in Documents /\ row[g].qty \in Int /\ cmd \in [Workers -> Commands]
      /\ PendingCommand(cmd[w]) /\ cmd[w].qty \in Int
  BY DocumentsOf, InCommand DEF Form, TypeOK, Rows, Works
<1>2. CASE OrderRegistered(w)
  <2>1. /\ Complete(w) /\ cmd[w].op = "confirmPending" /\ row' = row /\ Recorded(w)
        /\ row[g] = cmd[w].seen /\ \A v \in Workers \ {w} : ~Saving(v, g)
        /\ Posted(g, OneIf(g \in Journaled))
    BY <1>2 DEF OrderRegistered, Ready, Again
  <2>2. ~Confirming(g)
    BY <1>1, <2>1 DEF Confirming, Saving, Complete, PendingCommand
  <2>3. Confirming(g)'
    <3>1. PICK c \in Commands :
            cmd' = [cmd EXCEPT ![w] = c] /\ c.stage = "saving" /\ c.doc = g
      BY <1>2, RegisteredOrder
    <3> QED
      BY <1>1, <3>1 DEF Confirming, Saving
  <2>4. cmd[w].qty = -row[g].qty /\ Range(cmd[w].items) = ItemsOf(g) /\ Branch(cmd[w]) = At[g]
    BY <1>1, <2>1 DEF PendingCommand, ItemsOf, Branch
  <2>5. entries[g] = 0 /\ \A k \in Keys : moved[g][k] = 0
    BY <2>2 DEF MovesOnce, OneIf
  <2>6. entries'[g] = OneIf(g \in Journaled)
    <3>1. entries'[g] = entries[g] + OneIf(g \in Journaled)
      BY <1>1, <2>1, PostedFor, OneOrNone
    <3> QED
      BY <2>5, <3>1, OneOrNone
  <2>7. ASSUME NEW k \in Keys
        PROVE  moved'[g][k] = IF Lists(g, k, At[g]) THEN -row[g].qty ELSE 0
    <3>1. moved'[g][k] = moved[g][k] + (IF Lists(g, k, At[g]) THEN cmd[w].qty ELSE 0)
      BY <2>1, <2>4, CommittedMoves
    <3> QED
      BY <1>1, <2>4, <2>5, <3>1
  <2>8. row[g].qty \in Int /\ -1 * row[g].qty = -row[g].qty
    BY <1>1
  <2> QED
    BY <2>1, <2>3, <2>6, <2>7, <2>8 DEF MovesOnce, OneIf, Lists
<1>3. CASE SaveConfirmed(w)
  <2>1. cmd[w].stage = "saving" /\ Save(w, Row("CONFIRMED", cmd[w].seen.qty, 0))
        /\ UNCHANGED <<stock, entries>>
    BY <1>3 DEF SaveConfirmed
  <2>2. row'[g].status = "CONFIRMED" /\ row'[g].qty = row[g].qty
    BY <1>1, <2>1, SavedOver, RowFields
  <2>3. Confirming(g) /\ Confirming(g)'
    BY <2>1, <2>2 DEF Confirming, Saving
  <2> QED
    BY <2>1, <2>2, <2>3 DEF MovesOnce, Lists, stock
<1>4. CASE Step(w) /\ Commits(w)
  <2>1. Complete(w) /\ cmd[w].op # "confirmPending" /\ cmd' = [cmd EXCEPT ![w] = NoCommand]
    BY <1>4 DEF Commits, Settle
  <2>2. Revised(w, "rejectPending", "REJECTED")
    BY <1>4, <2>1, CommittingStep DEF PendingStep, OrderRegistered, SaveConfirmed, Ready, Complete
  <2>3. /\ row'[g].status = "REJECTED" /\ entries' = entries /\ cmd[w].op = "rejectPending"
        /\ row[g] = cmd[w].seen /\ row'[g].qty = cmd[w].seen.qty
    BY <2>2, RevisedDocument
  <2>4. row[g].status = "PENDING" /\ cmd[w].items = <<>>
    BY <1>1, <2>3 DEF PendingCommand
  <2>5. \A k \in Keys : moved'[g][k] = moved[g][k]
    BY <2>2, <2>4, RevisedDocument
  <2>6. \A v \in Workers : Saving(v, g)' <=> Saving(v, g)
    BY <1>1, <2>1, IdleCommand DEF Saving, Complete
  <2>7. Confirming(g)' <=> Confirming(g)
    BY <2>3, <2>4, <2>6 DEF Confirming
  <2> QED
    BY <2>3, <2>5, <2>7 DEF MovesOnce, Lists
<1>5. CASE CutOff(w)
  BY <1>5 DEF CutOff
<1> QED
  BY <1>2, <1>3, <1>4, <1>5 DEF Lasting

LEMMA PendingSaved ==
  ASSUME Form, BalancesHeld, NEW w \in Workers, NEW g \in PendingOrders, cmd[w].doc = g, Lasting(w)
  PROVE  row'[g] = row[g] \/ row'[g].status \in {"CONFIRMED", "REJECTED"}
<1>1. g \in Documents
  BY DocumentsOf
<1>2. CASE SaveConfirmed(w)
  <2>1. Save(w, Row("CONFIRMED", cmd[w].seen.qty, 0))
    BY <1>2 DEF SaveConfirmed
  <2> QED
    BY <1>1, <2>1, SavedOver, RowFields
<1>3. CASE Step(w) /\ Commits(w)
  <2>1. Complete(w) /\ cmd[w].op # "confirmPending"
    BY <1>3 DEF Commits
  <2>2. Revised(w, "rejectPending", "REJECTED")
    BY <1>3, <2>1, CommittingStep DEF PendingStep, OrderRegistered, SaveConfirmed, Ready, Complete
  <2> QED
    BY <2>2, RevisedDocument
<1>4. CASE OrderRegistered(w) \/ CutOff(w)
  BY <1>4 DEF OrderRegistered, CutOff
<1> QED
  BY <1>2, <1>3, <1>4 DEF Lasting

LEMMA SubmittedStep ==
  ASSUME Form, BalancesHeld, Submitted, [Next]_vars
  PROVE  Submitted'
<1> SUFFICES ASSUME NEW v \in Workers, NEW g \in PendingOrders, cmd'[v].doc = g
             PROVE  row'[g].status \notin {"none", "DRAFT"}
  BY DEF Submitted
<1>0. g \in Documents /\ g \notin Batches \cup Orders \cup Expenses /\ NoCommand.doc # g
  BY DocumentsOf, KindsAssumption, NoKind, NoCommandFits
<1>1. ASSUME NEW w \in Workers, NEW c \in Commands, Begins(w, c),
             \A u \in Workers : cmd'[u] = IF u = w THEN c ELSE cmd[u]
      PROVE  row'[g].status \notin {"none", "DRAFT"}
  <2>1. row' = row
    BY <1>1 DEF Begins, Only, papers
  <2>2. CASE v = w
    <3>1. c.doc = g /\ c.seen = row[g] /\ PendingCommand(c)
      BY <1>1, <2>2 DEF Begins, Sound, Works
    <3> QED
      BY <2>1, <3>1 DEF PendingCommand
  <2>3. CASE v # w
    BY <1>1, <2>1, <2>3 DEF Submitted
  <2> QED
    BY <2>2, <2>3
<1>2. CASE \A u \in Workers :
             \/ cmd'[u].doc = cmd[u].doc /\ cmd'[u].seen = cmd[u].seen
             \/ cmd'[u] = NoCommand
  <2>1. cmd[v].doc = g
    BY <1>0, <1>2
  <2>2. row[g].status \notin {"none", "DRAFT"}
    BY <2>1 DEF Submitted
  <2>3. ASSUME NEW w \in Workers, Lasting(w), cmd[w].doc = g
        PROVE  row'[g].status \notin {"none", "DRAFT"}
    BY <2>2, <2>3, PendingSaved
  <2>4. ASSUME NEW w, NEW new, NEW n, Files(w, g, new, n)
        PROVE  FALSE
    BY <1>0, <2>1, <2>2, <2>4 DEF Files, New
  <2> QED
    BY <1>0, <2>2, <2>3, <2>4, Elsewhere
<1> QED
  BY <1>1, <1>2, WhoWorks

LEMMA InitSubmitted == Init => Submitted
BY NoKind, NoCommandFits DEF Init, Submitted

\* The documents that are saved over what somebody else has saved.
Shared == Returns \cup Purchases \cup Expenses \cup PendingOrders

CountsOnce(d) ==
  /\ d \in Returns => MovesOnce(d, row[d].status = "POSTED", -1)
  /\ d \in Purchases => MovesOnce(d, row[d].status = "CONFIRMED", 1)
  /\ d \in Expenses => MovesOnce(d, row[d].status = "POSTED", 0)
  /\ d \in PendingOrders => MovesOnce(d, Confirming(d), -1)

LEMMA CountedAll == UnlockedDocumentsCountOnce <=> \A d \in Shared \ stale : CountsOnce(d)
<1>1. \A p \in Returns \ stale : p \in Shared
  BY DEF Shared
<1>2. ASSUME NEW d \in Shared \ stale, UnlockedDocumentsCountOnce
      PROVE  CountsOnce(d)
  BY <1>2 DEF UnlockedDocumentsCountOnce, CountsOnce, Confirming
<1>3. ASSUME \A d \in Shared \ stale : CountsOnce(d)
      PROVE  UnlockedDocumentsCountOnce
  BY <1>3 DEF UnlockedDocumentsCountOnce, CountsOnce, Shared, Confirming
<1> QED
  BY <1>2, <1>3

\* Filing a document does not confirm it, and posts it only if it is posted at once.
LEMMA FiledCounts ==
  ASSUME Form, Submitted, NEW d \in Shared, NEW w \in Workers, NEW new \in Rows, NEW n \in {0, 1},
         Files(w, d, new, n), CountsOnce(d)
  PROVE  CountsOnce(d)'
<1>1. /\ d \in Documents /\ row'[d] = new /\ entries'[d] = entries[d] + n
      /\ UNCHANGED <<stock, cmd>> /\ entries[d] \in Int
  BY DocumentsOf DEF Files, Form, TypeOK, Shared
<1>2. CASE d \in Expenses
  <2>1. /\ row[d].status = "none" /\ n = OneIf(new.status = "POSTED")
        /\ new.status = "POSTED" => d \in Journaled
        /\ d \notin Returns \cup Purchases \cup PendingOrders
    BY <1>2, KindsAssumption DEF Files, New
  <2>2. entries[d] = 0
    BY <1>2, <2>1 DEF CountsOnce, MovesOnce, OneIf
  <2>3. \A k \in Keys : ~Lists(d, k, At[d])
    BY <1>2, ExpensesAssumption DEF Lists, ItemsOf, Range
  <2> QED
    BY <1>1, <1>2, <2>1, <2>2, <2>3 DEF CountsOnce, MovesOnce, OneIf, stock, Lists
<1>3. CASE d \in PendingOrders
  <2>1. /\ row[d].status \in {"none", "DRAFT"} /\ n = 0 /\ new.status \in {"DRAFT", "PENDING"}
        /\ d \notin Returns \cup Purchases \cup Expenses
    BY <1>3, KindsAssumption DEF Files, New
  <2>2. \A v \in Workers : cmd[v].doc # d
    BY <1>3, <2>1 DEF Submitted
  <2>3. ~Confirming(d) /\ ~Confirming(d)'
    BY <1>1, <2>1, <2>2 DEF Confirming, Saving
  <2> QED
    BY <1>1, <2>1, <2>3 DEF CountsOnce, MovesOnce, OneIf, stock, Lists
<1> QED
  BY <1>2, <1>3 DEF Files

LEMMA SharedStep ==
  ASSUME Form, BalancesHeld, Submitted, \A d \in Shared \ stale : CountsOnce(d), [Next]_vars
  PROVE  \A d \in Shared \ stale' : CountsOnce(d)'
<1> SUFFICES ASSUME NEW d \in Shared, d \notin stale'
             PROVE  CountsOnce(d)'
  OBVIOUS
<1>1. d \in Documents /\ d \notin Batches \cup Orders /\ CountsOnce(d)
  BY DocumentsOf, KindsAssumption, StaleStays DEF Shared
<1>2. ASSUME NEW w \in Workers, Lasting(w), cmd[w].doc = d
      PROVE  CountsOnce(d)'
  <2>1. d \in Returns => MovesOnce(d, row[d].status = "POSTED", -1)'
    BY <1>1, <1>2, ReturnCommitted DEF CountsOnce
  <2>2. d \in Purchases => MovesOnce(d, row[d].status = "CONFIRMED", 1)'
    BY <1>1, <1>2, PurchaseCommitted DEF CountsOnce
  <2>3. d \in Expenses => MovesOnce(d, row[d].status = "POSTED", 0)'
    BY <1>1, <1>2, ExpenseCommitted DEF CountsOnce
  <2>4. d \in PendingOrders => MovesOnce(d, Confirming(d), -1)'
    BY <1>1, <1>2, PendingCommitted DEF CountsOnce
  <2> QED
    BY <2>1, <2>2, <2>3, <2>4 DEF CountsOnce
<1>3. ASSUME ~\E w \in Workers : Lasting(w) /\ cmd[w].doc = d,
             moved'[d] = moved[d], entries'[d] = entries[d], row'[d] = row[d]
      PROVE  CountsOnce(d)'
  <2>1. \A v \in Workers : Saving(v, d)' <=> Saving(v, d)
    BY <1>1, <1>3, SavingStays
  <2>2. Confirming(d)' <=> Confirming(d)
    BY <1>3, <2>1 DEF Confirming
  <2> QED
    BY <1>1, <1>3, <2>2 DEF CountsOnce, MovesOnce, Lists
<1> QED
  BY <1>1, <1>2, <1>3, FiledCounts, Elsewhere

\* UnlockedDocumentsCountOnce: a return, a cash purchase, an expense or an order that
\* came in by WhatsApp is in the stock and in the journal once, if it is done, as long
\* as nobody has saved it over somebody else's change.
THEOREM SharedDocumentsCountOnce == Spec => []UnlockedDocumentsCountOnce
<1> DEFINE Inv == \A d \in Shared \ stale : CountsOnce(d)
<1>1. Init => Inv
  <2> SUFFICES ASSUME Init, NEW d \in Shared
               PROVE  CountsOnce(d)
    OBVIOUS
  <2>1. d \in Documents /\ d \notin Transfers \cup Orders \cup Invoices
    BY DocumentsOf, KindsAssumption DEF Shared
  <2>2. row[d].status \in {"none", "DRAFT"}
    BY <2>1, AtFirst, RowFields DEF Blank
  <2>3. ~Confirming(d)
    BY <2>1, <2>2, AtFirst DEF Confirming, Saving
  <2> QED
    BY <2>1, <2>2, <2>3, AtFirst DEF CountsOnce, MovesOnce, OneIf
<1>2. Form /\ BalancesHeld /\ Submitted /\ Inv /\ [Next]_vars => Inv'
  BY SharedStep
<1>3. Inv => UnlockedDocumentsCountOnce
  BY CountedAll
<1> HIDE DEF Inv
<1> QED
  BY <1>1, <1>2, <1>3, InitSubmitted, SubmittedStep, Always, PTL DEF Spec

-----------------------------------------------------------------------------
(* Supplier invoices.                                                       *)

\* What an invoice says, and the entry of its variance that it names.
Settled(v) ==
  /\ row[v].qty \in Nat /\ row[v].qty <= Invoiced[v]
  /\ row[v].status = "PAID" <=> row[v].qty > 0 /\ row[v].qty = Invoiced[v]
  /\ row[v].qty > 0 => row[v].status \in {"PARTIALLY_PAID", "PAID"}
  /\ entries[v] = OneIf(v \in Journaled /\ row[v].status \in Payable \cup {"PAID"})
  /\ row[v].status \in Undecided => row[v].got = 0
  /\ row[v].status = "APPROVED" => row[v].got = OneIf(v \in Journaled)

LEMMA InvoiceCommitted ==
  ASSUME Form, NEW w \in Workers, NEW v \in Invoices, cmd[w].doc = v, Lasting(w),
         v \notin stale', Settled(v)
  PROVE  Settled(v)'
<1>1. /\ v \in Documents /\ v \notin PendingOrders /\ Invoiced[v] \in Nat
      /\ row[v].qty \in Int /\ entries[v] \in Int
  BY DocumentsOf, KindsAssumption, InvoicesAssumption DEF Form, TypeOK, Rows
<1>2. Step(w) /\ Commits(w)
  BY <1>1, LastingEnds
<1>3. /\ InvoiceStep(w) /\ InvoiceCommand(cmd[w]) /\ cmd[w].qty \in Int
      /\ cmd[w].seen.got \in Nat
  BY <1>2, CommittingStep, InCommand DEF Works
<1>4. CASE Approved(w)
  <2>1. /\ cmd[w].op = "approveInvoice"
        /\ Save(w, Row("APPROVED", row[v].qty, OneIf(v \in Journaled)))
        /\ Posted(v, OneIf(v \in Journaled))
    BY <1>4 DEF Approved, Ready
  <2>2. /\ row'[v].status = "APPROVED" /\ row'[v].qty = row[v].qty
        /\ row'[v].got = OneIf(v \in Journaled) /\ row[v] = cmd[w].seen
    BY <1>1, <2>1, SavedOver, RowFields
  <2>3. row[v].status \in Undecided
    BY <1>3, <2>1, <2>2 DEF InvoiceCommand
  <2>4. row[v].qty = 0 /\ entries[v] = 0
    BY <1>1, <2>3 DEF Settled, Undecided, Payable, OneIf
  <2>5. entries'[v] = OneIf(v \in Journaled)
    <3>1. entries'[v] = entries[v] + OneIf(v \in Journaled)
      BY <1>1, <2>1, PostedFor, OneOrNone
    <3> QED
      BY <2>4, <3>1, OneOrNone
  <2> QED
    BY <1>1, <2>2, <2>4, <2>5 DEF Settled, Undecided, Payable, OneIf
<1>5. CASE InvoiceCancelled(w)
  <2>1. /\ cmd[w].op = "cancelInvoice"
        /\ Save(w, Row("CANCELLED", row[v].qty, cmd[w].seen.got))
        /\ Posted(v, -cmd[w].seen.got)
    BY <1>5 DEF InvoiceCancelled, Ready
  <2>2. /\ row'[v].status = "CANCELLED" /\ row'[v].qty = row[v].qty /\ row[v] = cmd[w].seen
    BY <1>1, <2>1, SavedOver, RowFields
  <2>3. row[v].status \in Undecided \cup {"APPROVED"} /\ row[v].qty = 0
    BY <1>3, <2>1, <2>2 DEF InvoiceCommand
  <2>4. entries[v] = row[v].got
    BY <2>3 DEF Settled, Undecided, Payable, OneIf
  <2>5. entries'[v] = entries[v] + -cmd[w].seen.got
    BY <1>1, <1>3, <2>1, PostedFor
  <2>6. entries'[v] = 0
    BY <1>3, <2>2, <2>4, <2>5
  <2> QED
    BY <1>1, <2>2, <2>3, <2>6 DEF Settled, Undecided, Payable, OneIf
<1>6. CASE AlreadyReversed(w)
  BY <1>6 DEF AlreadyReversed, Rollback, papers, Settled
<1>7. CASE Paid(w)
  <2>1. PICK paid \in Int : paid = row[v].qty + cmd[w].qty
    BY <1>1, <1>3
  <2>2. /\ cmd[w].op = "pay" /\ entries' = entries
        /\ Save(w, Row(IF paid >= Invoiced[v] THEN "PAID" ELSE "PARTIALLY_PAID", paid,
                       cmd[w].seen.got))
    BY <1>7, <2>1 DEF Paid, Ready
  <2>3. /\ row'[v].status = (IF paid >= Invoiced[v] THEN "PAID" ELSE "PARTIALLY_PAID")
        /\ row'[v].qty = paid /\ row[v] = cmd[w].seen
    BY <1>1, <2>2, SavedOver, RowFields
  <2>4. /\ row[v].status \in Payable /\ cmd[w].qty \in Nat \ {0}
        /\ row[v].qty + cmd[w].qty <= Invoiced[v]
    BY <1>3, <2>2, <2>3 DEF InvoiceCommand
  <2>5. paid \in Nat /\ paid > 0 /\ paid <= Invoiced[v] /\ (paid >= Invoiced[v] <=> paid = Invoiced[v])
    BY <1>1, <2>1, <2>4 DEF Settled
  <2>6. entries'[v] = OneIf(v \in Journaled)
    BY <2>2, <2>4 DEF Settled, OneIf
  <2> QED
    BY <2>3, <2>5, <2>6 DEF Settled, Undecided, Payable, OneIf
<1> QED
  BY <1>3, <1>4, <1>5, <1>6, <1>7 DEF InvoiceStep

LEMMA InvoicesStep ==
  ASSUME Form, \A v \in Invoices \ stale : Settled(v), [Next]_vars
  PROVE  \A v \in Invoices \ stale' : Settled(v)'
<1> SUFFICES ASSUME NEW v \in Invoices, v \notin stale'
             PROVE  Settled(v)'
  OBVIOUS
<1>1. v \in Documents /\ v \notin Batches \cup Orders \cup Expenses \cup PendingOrders /\ Settled(v)
  BY DocumentsOf, KindsAssumption, StaleStays
<1>2. ASSUME NEW w \in Workers, Lasting(w), cmd[w].doc = v
      PROVE  Settled(v)'
  BY <1>1, <1>2, InvoiceCommitted
<1>3. ASSUME NEW w, NEW new, NEW n, Files(w, v, new, n)
      PROVE  FALSE
  BY <1>1, <1>3 DEF Files
<1>4. CASE entries'[v] = entries[v] /\ row'[v] = row[v]
  BY <1>1, <1>4 DEF Settled
<1> QED
  BY <1>1, <1>2, <1>3, <1>4, Elsewhere

\* InvoiceIsSettled: an invoice that two commands have not read together is paid up to
\* its total and no further, is not paid when it is cancelled, and has its variance in
\* the journal from the approval to the cancellation.
THEOREM InvoicesAreSettled == Spec => []InvoiceIsSettled
<1> DEFINE Inv == \A v \in Invoices \ stale : Settled(v)
<1>1. Init => Inv
  <2> SUFFICES ASSUME Init, NEW v \in Invoices
               PROVE  Settled(v)
    OBVIOUS
  <2>1. v \in Documents /\ v \notin Transfers \cup Orders \cup Returns /\ Invoiced[v] \in Nat
    BY DocumentsOf, KindsAssumption, InvoicesAssumption
  <2>2. /\ row[v].status = IF v \in Journaled THEN "VARIANCE_PENDING" ELSE "MATCHED"
        /\ row[v].qty = 0 /\ row[v].got = 0 /\ entries[v] = 0
    BY <2>1, AtFirst, RowFields DEF Blank
  <2> QED
    BY <2>1, <2>2 DEF Settled, Undecided, Payable, OneIf
<1>2. Form /\ Inv /\ [Next]_vars => Inv'
  BY InvoicesStep
<1>3. Inv => InvoiceIsSettled
  BY DEF InvoiceIsSettled, Settled
<1> HIDE DEF Inv
<1> QED
  BY <1>1, <1>2, <1>3, Always, PTL DEF Spec

-----------------------------------------------------------------------------
(* Batches.                                                                 *)

\* A row changes with its own command, with a receipt or conversion that stores it, or,
\* if it is an order, with its receipt.
LEMMA RowElsewhere ==
  ASSUME Form, [Next]_vars, NEW d \in Documents
  PROVE  \/ row'[d] = row[d]
         \/ \E w \in Workers, new \in Rows, n \in {0, 1} : Files(w, d, new, n)
         \/ \E w \in Workers :
              /\ Lasting(w)
              /\ \/ cmd[w].doc = d
                 \/ cmd[w].op \in {"confirm", "complete"} /\ Stored(w, d)
                 \/ cmd[w].op = "confirm" /\ d \in LocksOf(cmd[w].doc)
<1>1. CASE Next
  <2>1. PICK w \in Workers :
           \/ \E c : Begins(w, c)
           \/ \E e \in Documents, new \in Rows, n \in {0, 1} : Files(w, e, new, n)
           \/ MoveLine(w) /\ \E c : Moves(w, c)
           \/ \E c : Passes(w, c)
           \/ RollsBack(w)
           \/ Step(w) /\ Commits(w)
           \/ OrderRegistered(w)
           \/ SaveConfirmed(w) \/ CutOff(w)
    BY <1>1, WhatHappens
  <2>2. CASE (\E c : Begins(w, c)) \/ (\E c : Moves(w, c)) \/ (\E c : Passes(w, c)) \/ RollsBack(w)
             \/ OrderRegistered(w)
    BY <2>2 DEF Begins, Moves, Passes, Only, RollsBack, Rollback, papers, OrderRegistered
  <2>3. ASSUME NEW e \in Documents, NEW new \in Rows, NEW n \in {0, 1}, Files(w, e, new, n), e # d
        PROVE  row'[d] = row[d]
    BY <2>3 DEF Files, Form, TypeOK
  <2>4. CASE Step(w) /\ Commits(w)
    BY <2>4 DEF Commits, Writes, Lasting
  <2>5. CASE SaveConfirmed(w) \/ CutOff(w)
    BY <2>5, SavedForm DEF Writes, Lasting
  <2> QED
    BY <2>1, <2>2, <2>3, <2>4, <2>5
<1>2. CASE UNCHANGED vars
  BY <1>2 DEF vars, papers
<1> QED
  BY <1>1, <1>2

Done(d) == row[d].status \in {"CONFIRMED", "COMPLETED"}

\* A batch comes with the commit that finishes its receipt or conversion.
LEMMA SourceCommitted ==
  ASSUME Form, BalancesHeld, OneAtATime, NEW w \in Workers, NEW b \in Batches,
         cmd[w].doc = SourceOf[b], Lasting(w)
  PROVE  /\ consumed'[b] = consumed[b] /\ (b \in stale' <=> b \in stale) /\ ~Done(SourceOf[b])
         /\ \/ row'[b] = row[b] /\ ~Done(SourceOf[b])'
            \/ /\ row'[b].status = "active" /\ row'[b].qty = cmd[w].qty
               /\ Done(SourceOf[b])' /\ BatchSize(b)' = cmd[w].qty
               /\ SourceOf[b] \in Receipts => cmd[w].qty = row[SourceOf[b]].qty
               /\ SourceOf[b] \in Conversions => cmd[w].qty \in Nat
<1> DEFINE s == SourceOf[b]
<1>1. /\ b \in Documents /\ s \in Documents /\ s \in Receipts \cup Conversions /\ b # s
      /\ s \notin PendingOrders /\ ~(s \in Receipts /\ s \in Conversions)
      /\ b \notin Orders
  BY DocumentsOf, KindsAssumption, LedgerAssumption
<1>2. Step(w) /\ Commits(w)
  BY <1>1, LastingEnds
<1>3. consumed'[b] = consumed[b] /\ (b \in stale' <=> b \in stale)
  BY <1>1, <1>2 DEF Commits, Uses, Writes
<1>4. CASE s \in Receipts
  <2>1. CASE cmd[w].op = "register"
    BY <1>1, <1>3, <1>4, <2>1, ReceiptCommitted DEF Done
  <2>2. CASE cmd[w].op # "register"
    <3>1. /\ Confirmed(w) /\ row[s].status = "DRAFT" /\ cmd[w].qty = row[s].qty
          /\ row'[s].status = "CONFIRMED" /\ row'[s].qty = row[s].qty
      BY <1>4, <2>2, ReceiptCommitted
    <3>2. row'[b] = NewBatch(w)
      BY <1>1, <3>1 DEF Confirmed, Stored
    <3>3. row'[b].status = "active" /\ row'[b].qty = cmd[w].qty
      BY <3>2, RowFields DEF NewBatch
    <3>4. BatchSize(b)' = cmd[w].qty
      BY <1>1, <1>4, <3>1 DEF BatchSize
    <3> QED
      BY <1>1, <1>3, <1>4, <3>1, <3>3, <3>4 DEF Done
  <2> QED
    BY <2>1, <2>2
<1>5. CASE s \in Conversions
  <2>1. CASE row'[s].status \in {"DRAFT", "APPROVED", "CANCELLED", "IN_PROGRESS"}
    <3>1. ~Completed(w) /\ row[s].status \in {"none", "DRAFT", "APPROVED", "IN_PROGRESS"}
      <4>1. Completed(w) => row'[s] = Row("COMPLETED", cmd[w].seen.qty, cmd[w].qty)
        BY <1>1 DEF Completed
      <4>2. row[s].status \in {"none", "DRAFT", "APPROVED", "IN_PROGRESS"}
        BY <1>5, ConversionCommitted
      <4> QED
        BY <2>1, <4>1, <4>2, RowFields
    <3>2. \A d \in Documents \ {s} : row'[d] = row[d]
      BY <1>5, <3>1, ConversionCommitted
    <3>3. row'[b] = row[b]
      BY <1>1, <3>2
    <3> QED
      BY <1>3, <2>1, <3>1, <3>3 DEF Done
  <2>2. CASE row'[s].status \notin {"DRAFT", "APPROVED", "CANCELLED", "IN_PROGRESS"}
    <3>1. /\ Completed(w) /\ row[s].status = "IN_PROGRESS" /\ cmd[w].qty \in Nat
          /\ row'[s].status = "COMPLETED" /\ row'[s].got = cmd[w].qty
      BY <1>5, <2>2, ConversionCommitted
    <3>2. row'[b] = NewBatch(w)
      BY <1>1, <3>1 DEF Completed, Stored
    <3>3. row'[b].status = "active" /\ row'[b].qty = cmd[w].qty
      BY <3>2, RowFields DEF NewBatch
    <3>4. BatchSize(b)' = cmd[w].qty
      BY <1>5, <3>1 DEF BatchSize
    <3> QED
      BY <1>1, <1>3, <1>5, <3>1, <3>3, <3>4 DEF Done
  <2> QED
    BY <2>1, <2>2
<1> QED
  BY <1>1, <1>4, <1>5

\* A write-off, or the expiry of the rest.
LEMMA BatchCommitted ==
  ASSUME Form, BalancesHeld, NEW w \in Workers, NEW b \in Batches, cmd[w].doc = b, Lasting(w)
  PROVE  /\ row'[b].status \in {"active", "depleted", "expired"}
         /\ row'[SourceOf[b]] = row[SourceOf[b]]
         /\ b \notin stale' =>
              /\ b \notin stale /\ row[b] = cmd[w].seen /\ row[b].status = "active"
              /\ \/ row'[b].qty = row[b].qty /\ consumed'[b] = consumed[b]
                 \/ /\ cmd[w].qty \in Nat /\ cmd[w].qty <= row[b].qty
                    /\ row'[b].qty = row[b].qty - cmd[w].qty
                    /\ consumed'[b] = consumed[b] + cmd[w].qty
<1>1. /\ b \in Documents /\ SourceOf[b] \in Documents \ {b} /\ b \notin PendingOrders
      /\ SourceOf[b] \notin Orders
  BY DocumentsOf, KindsAssumption, LedgerAssumption
<1>2. Step(w) /\ Commits(w) /\ Complete(w)
  BY <1>1, LastingEnds DEF Commits
<1>3. ReceiptStep(w) /\ BatchCommand(cmd[w])
  BY <1>1, <1>2, CommittingStep, InCommand DEF Works
<1>4. row'[SourceOf[b]] = row[SourceOf[b]]
  <2>1. cmd[w].op \notin {"confirm", "complete"}
    BY <1>3 DEF BatchCommand
  <2> QED
    BY <1>1, <1>2, <2>1 DEF Commits, Writes
<1>5. CASE Revised(w, "expire", "expired")
  <2>1. /\ row'[b].status = "expired" /\ consumed' = consumed /\ row'[b].qty = cmd[w].seen.qty
        /\ b \notin stale' => b \notin stale /\ row[b] = cmd[w].seen
    BY <1>5, RevisedDocument
  <2> QED
    BY <1>3, <1>4, <2>1 DEF BatchCommand
<1>6. CASE WrittenOff(w)
  <2>1. PICK left \in Int : left = cmd[w].seen.qty - cmd[w].qty
    BY InCommand
  <2>2. /\ Save(w, Row(IF left = 0 THEN "depleted" ELSE "active", left, 0))
        /\ consumed' = [consumed EXCEPT ![b] = @ + cmd[w].qty]
    BY <1>6, <2>1 DEF WrittenOff
  <2>3. /\ row'[b].status = (IF left = 0 THEN "depleted" ELSE "active") /\ row'[b].qty = left
        /\ b \notin stale' => b \notin stale /\ row[b] = cmd[w].seen
    BY <1>1, <2>2, SavedOver, RowFields
  <2>4. consumed'[b] = consumed[b] + cmd[w].qty
    BY <1>1, <2>2 DEF Form, TypeOK
  <2> QED
    BY <1>3, <1>4, <2>1, <2>3, <2>4 DEF BatchCommand
<1> QED
  BY <1>2, <1>3, <1>5, <1>6
  DEF ReceiptStep, BatchCommand, Revised, Ready, LockOrder, TooMuch, PostedReturn, Registered,
      Confirmed, Complete

\* What is in a batch, and that nobody works on one that is not there.
Filled(b) ==
  /\ row[b].status = "none" <=> ~Done(SourceOf[b])
  /\ row[b].status = "none" => consumed[b] = 0 /\ \A w \in Workers : cmd[w].doc # b
  /\ b \notin stale /\ row[b].status # "none" =>
       row[b].qty >= 0 /\ row[b].qty + consumed[b] = BatchSize(b)

LEMMA BatchesStep ==
  ASSUME Form, BalancesHeld, OneAtATime, Stocked, NEW b \in Batches, Filled(b), [Next]_vars
  PROVE  Filled(b)'
<1> DEFINE s == SourceOf[b]
<1>1. /\ b \in Documents /\ s \in Documents /\ s \in Receipts \cup Conversions /\ b # s
      /\ b \notin Orders \cup Receipts \cup Expenses \cup PendingOrders
      /\ s \notin Orders \cup Batches \cup Expenses \cup PendingOrders
      /\ NoCommand.doc # b
  BY DocumentsOf, KindsAssumption, LedgerAssumption, NoKind, NoCommandFits
<1>2. /\ row[b].qty \in Int /\ row[b].status \in Statuses /\ consumed[b] \in Nat
      /\ row[s].qty \in Int /\ row[s].got \in Int
  BY <1>1 DEF Form, TypeOK, Rows
<1>3. b \notin stale' => b \notin stale
  BY StaleStays
<1>4. ASSUME NEW v \in Workers, cmd'[v].doc = b
      PROVE  row[b].status # "none"
  <2>1. CASE cmd[v].doc = b
    BY <2>1 DEF Filled
  <2>2. CASE cmd[v].doc # b
    <3>1. PICK w \in Workers, c \in Commands :
            Begins(w, c) /\ \A u \in Workers : cmd'[u] = IF u = w THEN c ELSE cmd[u]
      BY <1>1, <1>4, <2>2, WhoWorks
    <3>2. c.doc = b /\ c.seen = row[b] /\ BatchCommand(c)
      BY <1>4, <2>2, <3>1 DEF Begins, Sound, Works
    <3> QED
      BY <3>2 DEF BatchCommand
  <2> QED
    BY <2>1, <2>2
<1>5. ASSUME NEW w \in Workers, Lasting(w), cmd[w].doc = b
      PROVE  Filled(b)'
  <2>1. /\ row'[b].status # "none" /\ row'[s] = row[s]
        /\ b \notin stale' =>
             /\ b \notin stale /\ row[b].status = "active"
             /\ \/ row'[b].qty = row[b].qty /\ consumed'[b] = consumed[b]
                \/ /\ cmd[w].qty \in Nat /\ cmd[w].qty <= row[b].qty
                   /\ row'[b].qty = row[b].qty - cmd[w].qty
                   /\ consumed'[b] = consumed[b] + cmd[w].qty
    BY <1>5, BatchCommitted
  <2>2. row[b].status # "none"
    BY <1>5 DEF Filled
  <2>3. Done(s) /\ Done(s)' /\ BatchSize(b)' = BatchSize(b) /\ BatchSize(b) \in Int
    BY <1>2, <2>1, <2>2 DEF Filled, Done, BatchSize
  <2>4. b \notin stale' => row'[b].qty >= 0 /\ row'[b].qty + consumed'[b] = BatchSize(b)
    <3> SUFFICES ASSUME b \notin stale'
                 PROVE  row'[b].qty >= 0 /\ row'[b].qty + consumed'[b] = BatchSize(b)
      OBVIOUS
    <3>1. row[b].qty >= 0 /\ row[b].qty + consumed[b] = BatchSize(b)
      BY <1>3, <2>2 DEF Filled
    <3>2. CASE row'[b].qty = row[b].qty /\ consumed'[b] = consumed[b]
      BY <3>1, <3>2
    <3>3. CASE /\ cmd[w].qty \in Nat /\ cmd[w].qty <= row[b].qty
               /\ row'[b].qty = row[b].qty - cmd[w].qty
               /\ consumed'[b] = consumed[b] + cmd[w].qty
      BY <1>2, <2>3, <3>1, <3>3
    <3> QED
      BY <2>1, <3>2, <3>3
  <2> QED
    BY <2>1, <2>3, <2>4 DEF Filled
<1>6. ASSUME NEW w \in Workers, Lasting(w), cmd[w].doc = s
      PROVE  Filled(b)'
  <2>1. /\ consumed'[b] = consumed[b] /\ ~Done(s)
        /\ \/ row'[b] = row[b] /\ ~Done(s)'
           \/ /\ row'[b].status = "active" /\ row'[b].qty = cmd[w].qty
              /\ Done(s)' /\ BatchSize(b)' = cmd[w].qty
              /\ s \in Receipts => cmd[w].qty = row[s].qty
              /\ s \in Conversions => cmd[w].qty \in Nat
    BY <1>6, SourceCommitted
  <2>2. row[b].status = "none" /\ consumed[b] = 0 /\ consumed'[b] = 0
    BY <2>1 DEF Filled
  <2>3. \A v \in Workers : cmd'[v].doc # b
    BY <1>4, <2>2
  <2>4. CASE row'[b] = row[b] /\ ~Done(s)'
    BY <2>2, <2>3, <2>4 DEF Filled
  <2>5. CASE /\ row'[b].status = "active" /\ row'[b].qty = cmd[w].qty
             /\ Done(s)' /\ BatchSize(b)' = cmd[w].qty
             /\ s \in Receipts => cmd[w].qty = row[s].qty
             /\ s \in Conversions => cmd[w].qty \in Nat
    <3>1. cmd[w].qty \in Nat
      BY <1>1, <2>5 DEF Stocked, ReceiptRows
    <3>2. row'[b].qty >= 0 /\ row'[b].qty + consumed'[b] = BatchSize(b)'
      BY <2>2, <2>5, <3>1
    <3> QED
      BY <2>5, <3>2 DEF Filled
  <2> QED
    BY <2>1, <2>4, <2>5
<1>7. ASSUME \A w \in Workers : Lasting(w) => cmd[w].doc # b /\ cmd[w].doc # s
      PROVE  Filled(b)'
  <2>1. \A w, new, n : ~Files(w, b, new, n) /\ ~Files(w, s, new, n)
    BY <1>1 DEF Files
  <2>2. row'[s] = row[s]
    BY <1>1, <1>7, <2>1, Elsewhere
  <2>3. consumed'[b] = consumed[b] /\ (b \in stale' <=> b \in stale)
    BY <1>1, <1>7, <2>1, Elsewhere
  <2>4. ASSUME NEW w \in Workers, cmd[w].op = "confirm"
        PROVE  b \notin LocksOf(cmd[w].doc)
    <3>1. cmd[w].doc \in Receipts
      BY <2>4, InCommand DEF Works, Belongs, ReceiptOps
    <3> QED
      BY <1>1, <3>1, ReceiptsAssumption, LedgerAssumption DEF LocksOf
  <2>5. row'[b] = row[b]
    BY <1>1, <1>7, <2>1, <2>4, RowElsewhere DEF Stored
  <2>6. BatchSize(b)' = BatchSize(b) /\ (Done(s)' <=> Done(s))
    BY <2>2 DEF BatchSize, Done
  <2> QED
    BY <1>4, <2>3, <2>5, <2>6 DEF Filled
<1> QED
  BY <1>5, <1>6, <1>7

\* BatchIsAccountedFor: a batch is there with its receipt or conversion, and what came
\* in is what remains of it and what was written off, unless two write-offs read it
\* together.
THEOREM BatchesAreAccountedFor == Spec => []BatchIsAccountedFor
<1> DEFINE Inv == \A b \in Batches : Filled(b)
<1>1. Init => Inv
  <2> SUFFICES ASSUME Init, NEW b \in Batches
               PROVE  Filled(b)
    OBVIOUS
  <2>1. /\ b \in Documents /\ SourceOf[b] \in Documents
        /\ b \notin Transfers \cup Orders \cup Returns \cup Invoices
        /\ SourceOf[b] \notin Transfers \cup Orders \cup Returns \cup Invoices
        /\ b # NoDocument
    BY DocumentsOf, KindsAssumption, LedgerAssumption
  <2>2. row[b].status = "none" /\ row[SourceOf[b]].status = "none" /\ consumed[b] = 0
    BY <2>1, AtFirst, RowFields DEF Blank
  <2> QED
    BY <2>1, <2>2, AtFirst DEF Filled, Done
<1>2. Form /\ BalancesHeld /\ OneAtATime /\ Stocked /\ Inv /\ [Next]_vars => Inv'
  BY BatchesStep
<1>3. Inv => BatchIsAccountedFor
  BY DEF BatchIsAccountedFor, Filled, Done
<1> HIDE DEF Inv
<1> QED
  BY <1>1, <1>2, <1>3, InitOneAtATime, OneAtATimeStep, AlwaysStocked, Always, PTL DEF Spec

-----------------------------------------------------------------------------
(* Purchase orders.                                                         *)

\* The receipts that count for item i of order o.
CountedFor(o, i, R) ==
  {r \in R : OrderOf[r] = o /\ row[r].status = "CONFIRMED" /\ i \in ItemsOf(r)}

LEMMA ReceivedIsSum ==
  ASSUME Stocked, NEW o, NEW i, NEW R \in SUBSET Receipts
  PROVE  /\ ReceivedBy(o, i, R) = SumFunctionOnSet(Quantity, CountedFor(o, i, R))
         /\ IsFiniteSet(CountedFor(o, i, R)) /\ CountedFor(o, i, R) \subseteq Receipts
         /\ \A r \in Receipts : Quantity[r] = row[r].qty /\ Quantity[r] \in Nat
         /\ ReceivedBy(o, i, R) \in Nat
<1>1. CountedFor(o, i, R) \subseteq Receipts /\ IsFiniteSet(Receipts)
  BY ReceiptsAssumption DEF CountedFor
<1>2. IsFiniteSet(CountedFor(o, i, R))
  BY <1>1, FS_Subset
<1>3. ReceivedBy(o, i, R) = SumFunctionOnSet(Quantity, CountedFor(o, i, R))
  BY DEF ReceivedBy, CountedFor
<1>4. \A r \in Receipts : Quantity[r] = row[r].qty /\ Quantity[r] \in Nat
  BY DEF Quantity, Stocked, ReceiptRows
<1>5. \A r \in CountedFor(o, i, R) : Quantity[r] \in Nat
  BY <1>1, <1>4
<1>6. SumFunctionOnSet(Quantity, CountedFor(o, i, R)) \in Nat
  BY <1>2, <1>5, SumNonnegative
<1> QED
  BY <1>1, <1>2, <1>3, <1>4, <1>6

\* What an order has received changes only with one of its receipts.
LEMMA ReceivedSame ==
  ASSUME Stocked, NEW o, NEW i, NEW R \in SUBSET Receipts,
         \A r \in R : OrderOf[r] = o =>
           /\ row'[r].status = "CONFIRMED" <=> row[r].status = "CONFIRMED"
           /\ row[r].status = "CONFIRMED" => row'[r].qty = row[r].qty
  PROVE  ReceivedBy(o, i, R)' = ReceivedBy(o, i, R)
<1>1. PICK S : S = CountedFor(o, i, R)
  OBVIOUS
<1>2. PICK f : f = Quantity
  OBVIOUS
<1>3. PICK h : h = Quantity'
  OBVIOUS
<1>4. IsFiniteSet(S) /\ ReceivedBy(o, i, R) = SumFunctionOnSet(f, S)
  BY <1>1, <1>2, ReceivedIsSum
<1>5. CountedFor(o, i, R)' = S
  BY <1>1 DEF CountedFor
<1>6. ReceivedBy(o, i, R)' = SumFunctionOnSet(h, S)
  BY <1>3, <1>5 DEF ReceivedBy, CountedFor
<1>7. \A r \in S : f[r] = h[r] /\ f[r] \in Int
  <2>1. \A r \in S : r \in R /\ OrderOf[r] = o /\ row[r].status = "CONFIRMED"
    BY <1>1 DEF CountedFor
  <2>2. \A r \in Receipts : h[r] = row'[r].qty
    BY <1>3 DEF Quantity
  <2>3. \A r \in Receipts : f[r] = row[r].qty /\ f[r] \in Nat
    BY <1>2, ReceivedIsSum
  <2> QED
    BY <2>1, <2>2, <2>3
<1>8. SumFunctionOnSet(f, S) = SumFunctionOnSet(h, S)
  BY <1>4, <1>7, SumSame
<1> QED
  BY <1>4, <1>6, <1>8

\* A receipt that is confirmed adds its quantity.
LEMMA ReceivedMore ==
  ASSUME Stocked, NEW o, NEW i, NEW r \in Receipts, row[r].status = "DRAFT",
         row'[r].status = "CONFIRMED", row'[r].qty = row[r].qty,
         \A x \in Receipts \ {r} : row'[x] = row[x]
  PROVE  /\ ReceivedBy(o, i, Receipts \ {r}) = ReceivedBy(o, i, Receipts)
         /\ ReceivedBy(o, i, Receipts)' =
              ReceivedBy(o, i, Receipts)
                + (IF OrderOf[r] = o /\ i \in ItemsOf(r) THEN row[r].qty ELSE 0)
         /\ ReceivedBy(o, i, Receipts) \in Nat /\ row[r].qty \in Nat
<1>1. PICK S : S = CountedFor(o, i, Receipts)
  OBVIOUS
<1>2. PICK h : h = Quantity'
  OBVIOUS
<1>3. PICK f : f = Quantity
  OBVIOUS
<1>4. /\ IsFiniteSet(S) /\ ReceivedBy(o, i, Receipts) = SumFunctionOnSet(f, S)
      /\ ReceivedBy(o, i, Receipts) \in Nat /\ S \subseteq Receipts
      /\ \A x \in Receipts : f[x] = row[x].qty /\ f[x] \in Nat
  BY <1>1, <1>3, ReceivedIsSum
<1>5. S = CountedFor(o, i, Receipts \ {r}) /\ r \notin S
  BY <1>1 DEF CountedFor
<1>6. ReceivedBy(o, i, Receipts \ {r}) = ReceivedBy(o, i, Receipts)
  BY <1>1, <1>5 DEF ReceivedBy, CountedFor
<1>7. \A x \in Receipts : h[x] = f[x]
  <2>1. \A x \in Receipts : h[x] = row'[x].qty
    BY <1>2 DEF Quantity
  <2> QED
    BY <1>4, <2>1
<1>8. SumFunctionOnSet(f, S) = SumFunctionOnSet(h, S)
  BY <1>4, <1>7, SumSame
<1>9. CASE OrderOf[r] = o /\ i \in ItemsOf(r)
  <2>1. CountedFor(o, i, Receipts)' = S \cup {r}
    BY <1>1, <1>9 DEF CountedFor
  <2>2. ReceivedBy(o, i, Receipts)' = SumFunctionOnSet(h, S \cup {r})
    BY <1>2, <2>1 DEF ReceivedBy, CountedFor
  <2>3. IsFiniteSet(S) /\ r \notin S /\ h[r] \in Int /\ \A x \in S : h[x] \in Int
    <3>1. \A x \in Receipts : h[x] \in Int
      BY <1>4, <1>7
    <3> QED
      BY <1>4, <1>5, <3>1
  <2>4. SumFunctionOnSet(h, S \cup {r}) = SumFunctionOnSet(h, S) + h[r]
    BY <2>3, SumAdd
  <2>5. h[r] = row[r].qty /\ row[r].qty \in Nat
    BY <1>4, <1>7
  <2> QED
    BY <1>4, <1>6, <1>8, <1>9, <2>2, <2>4, <2>5
<1>10. CASE ~(OrderOf[r] = o /\ i \in ItemsOf(r))
  <2>1. CountedFor(o, i, Receipts)' = S
    BY <1>1, <1>10 DEF CountedFor
  <2>2. ReceivedBy(o, i, Receipts)' = SumFunctionOnSet(h, S)
    BY <1>2, <2>1 DEF ReceivedBy, CountedFor
  <2> QED
    BY <1>4, <1>6, <1>8, <1>10, <2>2
<1> QED
  BY <1>9, <1>10

\* A document is locked by one command.
LocksHeld == \A w \in Workers : \A v \in Workers \ {w} : cmd[v].locked \cap cmd[w].locked = {}

LEMMA LocksAfter ==
  ASSUME Form, LocksHeld, NEW w \in Workers, NEW c, cmd' = [cmd EXCEPT ![w] = c],
         \A v \in Workers \ {w} : cmd[v].locked \cap c.locked = {}
  PROVE  LocksHeld'
<1>1. \A v \in Workers : cmd'[v] = IF v = w THEN c ELSE cmd[v]
  BY DEF Form, TypeOK
<1>2. \A u, v \in Workers : u # v => cmd'[u].locked \cap cmd'[v].locked = {}
  BY <1>1 DEF LocksHeld
<1> QED
  BY <1>2 DEF LocksHeld

LEMMA LocksStep ==
  ASSUME Form, LocksHeld, [Next]_vars
  PROVE  LocksHeld'
<1>1. ASSUME NEW w \in Workers, NEW c, Begins(w, c)
      PROVE  LocksHeld'
  <2>1. cmd' = [cmd EXCEPT ![w] = c] /\ \A d \in c.locked : Unlocked(d)
    BY <1>1 DEF Begins, Only
  <2> QED
    BY <2>1, LocksAfter DEF Unlocked
<1>2. ASSUME NEW w \in Workers, NEW c, Moves(w, c)
      PROVE  LocksHeld'
  <2>1. cmd' = [cmd EXCEPT ![w] = c] /\ c.locked = cmd[w].locked
    BY <1>2 DEF Moves, Only
  <2> QED
    BY <2>1, LocksAfter DEF LocksHeld
<1>3. ASSUME NEW w \in Workers, NEW c, Passes(w, c)
      PROVE  LocksHeld'
  <2>1. /\ cmd' = [cmd EXCEPT ![w] = c]
        /\ \/ c.locked = cmd[w].locked
           \/ /\ cmd[w].stage = "locking" /\ Free(w)
              /\ c.locked = cmd[w].locked \cup {cmd[w].wants}
    BY <1>3 DEF Passes, Only
  <2>2. ASSUME cmd[w].stage = "locking", Free(w), NEW v \in Workers \ {w}
        PROVE  cmd[w].wants \notin cmd[v].locked
    BY <2>2 DEF Free, WaitsFor
  <2> QED
    BY <2>1, <2>2, LocksAfter DEF LocksHeld
<1>4. ASSUME NEW w \in Workers, NEW c, cmd' = [cmd EXCEPT ![w] = c], c.locked = {}
      PROVE  LocksHeld'
  BY <1>4, LocksAfter
<1>5. ASSUME NEW w \in Workers, RollsBack(w) \/ Commits(w) \/ SaveConfirmed(w) \/ CutOff(w)
      PROVE  LocksHeld'
  <2>1. cmd' = [cmd EXCEPT ![w] = NoCommand]
    BY <1>5 DEF RollsBack, Rollback, Commits, Settle, SaveConfirmed, CutOff
  <2> QED
    BY <1>4, <2>1, NoCommandFits
<1>6. ASSUME UNCHANGED cmd
      PROVE  LocksHeld'
  BY <1>6 DEF LocksHeld
<1>7. CASE Next
  <2>1. PICK w \in Workers :
           \/ \E c : Begins(w, c)
           \/ \E e \in Documents, new \in Rows, n \in {0, 1} : Files(w, e, new, n)
           \/ MoveLine(w) /\ \E c : Moves(w, c)
           \/ \E c : Passes(w, c)
           \/ RollsBack(w)
           \/ Step(w) /\ Commits(w)
           \/ OrderRegistered(w)
           \/ SaveConfirmed(w) \/ CutOff(w)
    BY <1>7, WhatHappens
  <2>2. CASE \E e \in Documents, new \in Rows, n \in {0, 1} : Files(w, e, new, n)
    BY <1>6, <2>2 DEF Files
  <2>3. CASE OrderRegistered(w)
    BY <1>4, <2>3, RegisteredOrder
  <2> QED
    BY <1>1, <1>2, <1>3, <1>5, <2>1, <2>2, <2>3
<1> QED
  BY <1>6, <1>7 DEF vars

LEMMA InitLocks == Init => LocksHeld
BY NoCommandFits DEF Init, LocksHeld

\* A confirmation has found room in its order when it has locked it.
LEMMA ConfirmGoesOn ==
  ASSUME Form, [Next]_vars, NEW v \in Workers, cmd'[v].op = "confirm", cmd'[v].stage = "moving",
         LocksOf(cmd'[v].doc) # {}
  PROVE  /\ cmd[v].op = "confirm" /\ cmd[v].doc = cmd'[v].doc /\ cmd[v].qty = cmd'[v].qty
         /\ \/ cmd[v].stage = "moving"
            \/ cmd[v].stage = "locking" /\ Within(cmd[v].wants, cmd[v].doc, cmd[v].qty)
<1>0. cmd \in [Workers -> Commands] /\ NoCommand.stage = "idle"
  BY IdleCommand DEF Form, TypeOK
<1> DEFINE Found == /\ cmd[v].op = "confirm" /\ cmd[v].doc = cmd'[v].doc /\ cmd[v].qty = cmd'[v].qty
                    /\ \/ cmd[v].stage = "moving"
                       \/ cmd[v].stage = "locking" /\ Within(cmd[v].wants, cmd[v].doc, cmd[v].qty)
<1>1. cmd'[v] = cmd[v] => Found
  OBVIOUS
<1>2. ASSUME NEW w \in Workers, NEW c, Begins(w, c)
      PROVE  Found
  <2>1. cmd' = [cmd EXCEPT ![w] = c] /\ ~(c.op = "confirm" /\ c.stage = "moving" /\ LocksOf(c.doc) # {})
    BY <1>2 DEF Begins, Only
  <2>2. CASE v = w
    <3>1. cmd'[v] = c
      BY <1>0, <2>1, <2>2
    <3> QED
      BY <2>1, <2>2, <3>1
  <2>3. CASE v # w
    BY <1>0, <1>1, <2>1, <2>3
  <2> QED
    BY <2>2, <2>3
<1>3. ASSUME NEW w \in Workers, NEW c, Moves(w, c), MoveLine(w)
      PROVE  Found
  <2>1. /\ cmd' = [cmd EXCEPT ![w] = c] /\ c.op = cmd[w].op /\ c.doc = cmd[w].doc
        /\ c.qty = cmd[w].qty /\ cmd[w].stage = "moving"
    BY <1>3 DEF Moves, Only, MoveLine, Moving
  <2>2. CASE v = w
    <3>1. cmd'[v] = c
      BY <1>0, <2>1, <2>2
    <3> QED
      BY <2>1, <2>2, <3>1
  <2>3. CASE v # w
    BY <1>0, <1>1, <2>1, <2>3
  <2> QED
    BY <2>2, <2>3
<1>4. ASSUME NEW w \in Workers, NEW c, Passes(w, c)
      PROVE  Found
  <2>1. /\ cmd' = [cmd EXCEPT ![w] = c] /\ c.op = cmd[w].op /\ c.doc = cmd[w].doc
        /\ c.qty = cmd[w].qty
        /\ \/ cmd[w].op = "count"
           \/ cmd[w].stage = "moving"
           \/ cmd[w].stage = "locking" /\ Within(cmd[w].wants, cmd[w].doc, cmd[w].qty)
    BY <1>4 DEF Passes, Only, Moving
  <2>2. CASE v = w
    <3>1. cmd'[v] = c
      BY <1>0, <2>1, <2>2
    <3> QED
      BY <2>1, <2>2, <3>1
  <2>3. CASE v # w
    BY <1>0, <1>1, <2>1, <2>3
  <2> QED
    BY <2>2, <2>3
<1>5. ASSUME NEW w \in Workers, NEW c, cmd' = [cmd EXCEPT ![w] = c], c.stage # "moving"
      PROVE  Found
  BY <1>0, <1>1, <1>5
<1>6. ASSUME NEW w \in Workers, RollsBack(w) \/ Commits(w) \/ SaveConfirmed(w) \/ CutOff(w)
      PROVE  Found
  <2>1. cmd' = [cmd EXCEPT ![w] = NoCommand]
    BY <1>6 DEF RollsBack, Rollback, Commits, Settle, SaveConfirmed, CutOff
  <2> QED
    BY <1>0, <1>5, <2>1
<1>7. ASSUME Next
      PROVE  Found
  <2>1. PICK w \in Workers :
           \/ \E c : Begins(w, c)
           \/ \E e \in Documents, new \in Rows, n \in {0, 1} : Files(w, e, new, n)
           \/ MoveLine(w) /\ \E c : Moves(w, c)
           \/ \E c : Passes(w, c)
           \/ RollsBack(w)
           \/ Step(w) /\ Commits(w)
           \/ OrderRegistered(w)
           \/ SaveConfirmed(w) \/ CutOff(w)
    BY <1>7, WhatHappens
  <2>2. CASE \E e \in Documents, new \in Rows, n \in {0, 1} : Files(w, e, new, n)
    BY <1>1, <2>2 DEF Files
  <2>3. CASE OrderRegistered(w)
    BY <1>5, <2>3, RegisteredOrder
  <2> HIDE DEF Found
  <2> QED
    BY <1>2, <1>3, <1>4, <1>6, <2>1, <2>2, <2>3
<1>8. ASSUME UNCHANGED vars
      PROVE  Found
  <2>1. cmd' = cmd
    BY <1>8 DEF vars
  <2> QED
    BY <1>1, <2>1
<1> HIDE DEF Found
<1>9. Found
  BY <1>7, <1>8
<1> QED
  BY <1>9 DEF Found

\* The receipts change when one is registered or confirmed; otherwise what has been
\* received stays.
LEMMA ReceiptsChange ==
  ASSUME Form, OneAtATime, Stocked, [Next]_vars
  PROVE  \/ \E w \in Workers, r \in Receipts :
              /\ Lasting(w) /\ cmd[w].doc = r /\ Confirmed(w) /\ cmd[w].op = "confirm"
              /\ cmd[w].stage = "moving" /\ cmd[w].qty = row[r].qty
              /\ row[r].status = "DRAFT" /\ row'[r].status = "CONFIRMED"
              /\ row'[r].qty = row[r].qty /\ LocksOf(r) \subseteq cmd[w].locked
              /\ \A x \in Receipts \ {r} : row'[x] = row[x]
         \/ \A r \in Receipts :
              \/ row'[r] = row[r]
              \/ row[r].status = "none" /\ row'[r].status = "DRAFT"
<1>1. ASSUME NEW r \in Receipts
      PROVE  /\ r \in Documents /\ r \notin Batches \cup Orders \cup Expenses \cup PendingOrders
             /\ \A w, new, n : ~Files(w, r, new, n)
  BY DocumentsOf, KindsAssumption DEF Files
<1>2. CASE \E w \in Workers, r \in Receipts : Lasting(w) /\ cmd[w].doc = r /\ cmd[w].op = "confirm"
  <2>1. PICK w \in Workers, r \in Receipts :
          Lasting(w) /\ cmd[w].doc = r /\ cmd[w].op = "confirm"
    BY <1>2
  <2>2. /\ Confirmed(w) /\ row[r].status = "DRAFT" /\ cmd[w].qty = row[r].qty
        /\ LocksOf(r) \subseteq cmd[w].locked
        /\ row'[r].status = "CONFIRMED" /\ row'[r].qty = row[r].qty /\ Complete(w)
    BY <2>1, ReceiptCommitted
  <2>3. ASSUME NEW x \in Receipts \ {r}
        PROVE  row'[x] = row[x]
    <3>1. x \in Documents /\ x \notin LocksOf(r) /\ ~Stored(w, x)
      BY <1>1, ReceiptsAssumption, KindsAssumption DEF LocksOf, Stored
    <3> QED
      BY <2>1, <2>2, <3>1 DEF Confirmed
  <2> QED
    BY <2>1, <2>2, <2>3 DEF Complete
<1>3. CASE \A w \in Workers : cmd[w].doc \in Receipts /\ Lasting(w) => cmd[w].op # "confirm"
  <2>1. ASSUME NEW r \in Receipts
        PROVE  \/ row'[r] = row[r]
               \/ row[r].status = "none" /\ row'[r].status = "DRAFT"
    <3>1. ASSUME NEW w \in Workers, Lasting(w), cmd[w].doc = r
          PROVE  row[r].status = "none" /\ row'[r].status = "DRAFT"
      BY <1>3, <3>1, ReceiptCommitted
    <3> QED
      BY <1>1, <3>1, Elsewhere
  <2> QED
    BY <2>1
<1> QED
  BY <1>2, <1>3

\* While a confirmation moves its lines, its order has room for it.
RoomFound ==
  \A w \in Workers :
    cmd[w].op = "confirm" /\ cmd[w].stage = "moving" =>
      \A o \in LocksOf(cmd[w].doc) : Within(o, cmd[w].doc, cmd[w].qty)

LEMMA RoomStep ==
  ASSUME Form, OneAtATime, Stocked, LocksHeld, RoomFound, [Next]_vars
  PROVE  RoomFound'
<1> SUFFICES ASSUME NEW v \in Workers, cmd'[v].op = "confirm", cmd'[v].stage = "moving",
                    NEW o \in LocksOf(cmd'[v].doc)
             PROVE  Within(o, cmd[v].doc, cmd[v].qty)'
  BY DEF RoomFound, LocksOf
<1>1. PICK r : r = cmd'[v].doc
  OBVIOUS
<1>2. PICK q : q = cmd'[v].qty
  OBVIOUS
<1>3. /\ cmd[v].op = "confirm" /\ cmd[v].doc = r /\ cmd[v].qty = q
      /\ cmd[v].stage = "moving" \/ (cmd[v].stage = "locking" /\ Within(cmd[v].wants, r, q))
  BY <1>1, <1>2, ConfirmGoesOn
<1>4. /\ r \in Receipts /\ o = OrderOf[r] /\ cmd[v].wants = o
      /\ cmd[v].stage = "moving" => o \in cmd[v].locked
  BY <1>1, <1>3, InCommand DEF Works, Belongs, ReceiptOps, ReceiptCommand, LocksOf
<1>5. Within(o, r, q)
  BY <1>1, <1>3, <1>4 DEF RoomFound
<1>6. ASSUME NEW x \in Receipts \ {r}, OrderOf[x] = o
      PROVE  /\ row'[x].status = "CONFIRMED" <=> row[x].status = "CONFIRMED"
             /\ row[x].status = "CONFIRMED" => row'[x].qty = row[x].qty
  <2>1. ASSUME NEW w \in Workers, cmd[w].doc = x, Confirmed(w), LocksOf(x) \subseteq cmd[w].locked
        PROVE  FALSE
    <3>1. w # v /\ o \in cmd[w].locked
      BY <1>1, <1>3, <1>4, <1>6, <2>1 DEF LocksOf
    <3>2. cmd'[v] = cmd[v]
      BY <2>1, <3>1 DEF Confirmed, Settle, Form, TypeOK
    <3> QED
      BY <1>4, <3>1, <3>2 DEF LocksHeld
  <2> QED
    BY <2>1, ReceiptsChange
<1>7. ASSUME NEW i
      PROVE  ReceivedBy(o, i, Receipts \ {r})' = ReceivedBy(o, i, Receipts \ {r})
  <2>1. Receipts \ {r} \in SUBSET Receipts
    OBVIOUS
  <2> QED
    BY <1>6, <2>1, ReceivedSame
<1>8. Within(o, r, q)'
  BY <1>5, <1>7 DEF Within
<1> QED
  BY <1>1, <1>2, <1>8 DEF Within

LEMMA InitRoom == Init => RoomFound
BY IdleCommand DEF Init, RoomFound

\* What the orders' receipts rest on.
OrdersReceived == OneAtATime /\ Stocked /\ LocksHeld /\ RoomFound /\ ReceivedWithinOrdered

LEMMA OrdersReceivedStep ==
  ASSUME Form, BalancesHeld, OrdersReceived, [Next]_vars
  PROVE  OrdersReceived'
<1>1. OneAtATime' /\ Stocked' /\ LocksHeld' /\ RoomFound'
  BY OneAtATimeStep, StockedStep, LocksStep, RoomStep DEF OrdersReceived
<1>2. ASSUME NEW o \in Orders, NEW i \in ItemsOf(o)
      PROVE  ReceivedBy(o, i, Receipts)' <= Ordered[o]
  <2>1. ReceivedBy(o, i, Receipts) <= Ordered[o] /\ o # NoDocument /\ Ordered[o] \in Nat
    BY <1>2, DocumentsOf, NoKind, ReceiptsAssumption, LedgerAssumption
    DEF OrdersReceived, ReceivedWithinOrdered
  <2>2. ASSUME NEW w \in Workers, NEW r \in Receipts, cmd[w].doc = r, cmd[w].op = "confirm",
               cmd[w].stage = "moving", cmd[w].qty = row[r].qty,
               row[r].status = "DRAFT", row'[r].status = "CONFIRMED", row'[r].qty = row[r].qty,
               \A x \in Receipts \ {r} : row'[x] = row[x]
        PROVE  ReceivedBy(o, i, Receipts)' <= Ordered[o]
    <3>1. /\ ReceivedBy(o, i, Receipts \ {r}) = ReceivedBy(o, i, Receipts)
          /\ ReceivedBy(o, i, Receipts)' =
               ReceivedBy(o, i, Receipts)
                 + (IF OrderOf[r] = o /\ i \in ItemsOf(r) THEN row[r].qty ELSE 0)
          /\ ReceivedBy(o, i, Receipts) \in Nat /\ row[r].qty \in Nat
      BY <2>2, ReceivedMore DEF OrdersReceived
    <3>2. CASE OrderOf[r] = o /\ i \in ItemsOf(r)
      <4>1. o \in LocksOf(r) /\ Within(o, r, row[r].qty)
        BY <2>1, <2>2, <3>2 DEF LocksOf, OrdersReceived, RoomFound
      <4>2. ReceivedBy(o, i, Receipts \ {r}) + row[r].qty <= Ordered[o]
        BY <3>2, <4>1 DEF Within
      <4> QED
        BY <3>1, <3>2, <4>2
    <3>3. CASE ~(OrderOf[r] = o /\ i \in ItemsOf(r))
      BY <2>1, <3>1, <3>3
    <3> QED
      BY <3>2, <3>3
  <2>3. ASSUME \A r \in Receipts :
                 \/ row'[r] = row[r]
                 \/ row[r].status = "none" /\ row'[r].status = "DRAFT"
        PROVE  ReceivedBy(o, i, Receipts)' <= Ordered[o]
    <3>1. ReceivedBy(o, i, Receipts)' = ReceivedBy(o, i, Receipts)
      BY <2>3, ReceivedSame DEF OrdersReceived
    <3> QED
      BY <2>1, <3>1
  <2> QED
    BY <2>2, <2>3, ReceiptsChange DEF OrdersReceived
<1> QED
  BY <1>1, <1>2 DEF OrdersReceived, ReceivedWithinOrdered

LEMMA NothingReceived ==
  ASSUME Init, NEW o, NEW i
  PROVE  ReceivedBy(o, i, Receipts) = 0
<1>1. \A r \in Receipts : row[r].status = "none"
  BY AtFirst, DocumentsOf, KindsAssumption, RowFields DEF Blank
<1>2. CountedFor(o, i, Receipts) = {}
  BY <1>1 DEF CountedFor
<1>3. ReceivedBy(o, i, Receipts) = SumFunctionOnSet(Quantity, {})
  BY <1>2, InitStocked, ReceivedIsSum
<1> QED
  BY <1>3, SumEmpty

LEMMA InitOrdersReceived == Init => OrdersReceived
<1> SUFFICES ASSUME Init PROVE OrdersReceived
  OBVIOUS
<1>1. ReceivedWithinOrdered
  BY NothingReceived, ReceiptsAssumption DEF ReceivedWithinOrdered
<1> QED
  BY <1>1, InitOneAtATime, InitStocked, InitLocks, InitRoom DEF OrdersReceived

LEMMA AlwaysReceived == Spec => []OrdersReceived
BY InitOrdersReceived, OrdersReceivedStep, Always, PTL DEF Spec

\* ReceivedWithinOrdered: no item of an order is received beyond what was ordered, over
\* all its receipts and whoever confirms them: who confirms a receipt finds room for it
\* after it has locked the order, and nobody else confirms one of that order meanwhile.
THEOREM OrdersAreNotOverreceived == Spec => []ReceivedWithinOrdered
<1>1. OrdersReceived => ReceivedWithinOrdered
  BY DEF OrdersReceived
<1> QED
  BY <1>1, AlwaysReceived, PTL

\* The commit of a decision about an order.
LEMMA OrderCommitted ==
  ASSUME Form, BalancesHeld, NEW w \in Workers, NEW o \in Orders, cmd[w].doc = o, Lasting(w)
  PROVE  /\ row'[o].status \in {"SENT", "CANCELLED"}
         /\ o \notin stale' => o \notin stale /\ row[o].status \in {"DRAFT", "SENT"}
         /\ row'[o].status = "SENT" /\ o \notin stale' => row[o].status = "DRAFT"
<1>1. o \in Documents /\ o \notin PendingOrders
  BY DocumentsOf, KindsAssumption
<1>2. Step(w) /\ Commits(w)
  BY <1>1, LastingEnds
<1>3. /\ ReceiptStep(w) /\ OrderCommand(cmd[w]) /\ cmd[w].stage # "locking"
      /\ cmd[w].op \in {"send", "cancelOrder"}
  BY <1>2, CommittingStep, InCommand DEF Works, OrderCommand, Commits, Complete
<1>4. CASE Revised(w, "send", "SENT")
  BY <1>3, <1>4, RevisedDocument DEF OrderCommand
<1>5. CASE Revised(w, "cancelOrder", "CANCELLED")
  BY <1>3, <1>5, RevisedDocument DEF OrderCommand
<1> QED
  BY <1>3, <1>4, <1>5
  DEF ReceiptStep, Revised, Ready, Registered, LockOrder, TooMuch, Confirmed, WrittenOff, PostedReturn

\* What an order shows; one that was not sent has no receipts.
Shown(o) ==
  /\ row[o].status \in {"DRAFT", "SENT", "CANCELLED", "PARTIALLY_RECEIVED", "RECEIVED"}
  /\ row[o].status = "RECEIVED" => AllReceived(o)
  /\ row[o].status = "PARTIALLY_RECEIVED" => Begun(o)
  /\ o \notin stale /\ row[o].status \in {"DRAFT", "SENT"} => ~Begun(o)
  /\ o \notin stale /\ row[o].status = "PARTIALLY_RECEIVED" => ~AllReceived(o)

Unsent(o) ==
  row[o].status = "DRAFT" =>
    \A r \in Receipts : OrderOf[r] = o =>
      row[r].status = "none" /\ \A w \in Workers : cmd[w].doc # r

\* A confirmation moves its order on.
LEMMA OrderProgress ==
  ASSUME Form, OrdersReceived, NEW o \in Orders, Shown(o), Unsent(o),
         NEW w \in Workers, NEW r \in Receipts, cmd[w].doc = r, Confirmed(w),
         row[r].status = "DRAFT", row'[r].status = "CONFIRMED", row'[r].qty = row[r].qty,
         \A x \in Receipts \ {r} : row'[x] = row[x]
  PROVE  Shown(o)' /\ (row'[o].status = "DRAFT" => row[o].status = "DRAFT")
<1>1. /\ o \in Documents /\ o # r /\ o # NoDocument /\ ~Stored(w, o)
  BY DocumentsOf, NoKind, KindsAssumption DEF Stored
<1>2. stale' = stale /\ row'[o] = IF o \in LocksOf(r) THEN Row(Progress(o, r), row[o].qty, row[o].got)
                                  ELSE row[o]
  BY <1>1 DEF Confirmed
<1>3. ASSUME NEW i
      PROVE  /\ ReceivedBy(o, i, Receipts) \in Nat /\ row[r].qty \in Nat
             /\ ReceivedBy(o, i, Receipts \ {r}) = ReceivedBy(o, i, Receipts)
             /\ ReceivedBy(o, i, Receipts)' =
                  ReceivedBy(o, i, Receipts)
                    + (IF OrderOf[r] = o /\ i \in ItemsOf(r) THEN row[r].qty ELSE 0)
  BY ReceivedMore DEF OrdersReceived
<1>4. CASE o \notin LocksOf(r)
  <2>1. OrderOf[r] # o
    BY <1>1, <1>4 DEF LocksOf
  <2>2. \A i : ReceivedBy(o, i, Receipts)' = ReceivedBy(o, i, Receipts)
    BY <1>3, <2>1
  <2> QED
    BY <1>2, <1>4, <2>2 DEF Shown, AllReceived, Begun
<1>5. CASE o \in LocksOf(r)
  <2>1. OrderOf[r] = o /\ row[o].status # "DRAFT"
    BY <1>5 DEF LocksOf, Unsent
  <2>2. \A i : /\ ReceivedBy(o, i, Receipts)' = ReceivedWith(o, i, r)
               /\ ReceivedWith(o, i, r) \in Nat
               /\ ReceivedWith(o, i, r) >= ReceivedBy(o, i, Receipts)
    BY <1>3, <2>1 DEF ReceivedWith
  <2>3. AllReceived(o)' <=> \A i \in ItemsOf(o) : ReceivedWith(o, i, r) >= Ordered[o]
    BY <2>2 DEF AllReceived
  <2>4. Begun(o)' <=> \E i \in ItemsOf(o) : ReceivedWith(o, i, r) > 0
    BY <2>2 DEF Begun
  <2>5. AllReceived(o) => AllReceived(o)'
    BY <1>3, <2>2, <2>3, ReceiptsAssumption DEF AllReceived
  <2>6. Begun(o) => Begun(o)'
    BY <1>3, <2>2, <2>4 DEF Begun
  <2>7. row'[o].status = Progress(o, r)
    BY <1>2, <1>5, RowFields
  <2>8. CASE row[o].status \notin Receivable
    <3>1. row'[o].status = row[o].status
      BY <2>7, <2>8 DEF Progress
    <3> QED
      BY <1>2, <2>1, <2>5, <2>8, <3>1 DEF Shown, Receivable
  <2>9. CASE row[o].status \in Receivable
    <3>1. Progress(o, r) = IF AllReceived(o)' THEN "RECEIVED"
                           ELSE IF Begun(o)' THEN "PARTIALLY_RECEIVED"
                           ELSE row[o].status
      BY <2>3, <2>4, <2>9 DEF Progress
    <3> QED
      BY <1>2, <2>6, <2>7, <2>9, <3>1 DEF Shown, Receivable
  <2> QED
    BY <2>8, <2>9
<1> QED
  BY <1>4, <1>5

LEMMA UnsentStep ==
  ASSUME Form, OrdersReceived, NEW o \in Orders, Unsent(o), [Next]_vars,
         row'[o].status = "DRAFT" => row[o].status = "DRAFT"
  PROVE  Unsent(o)'
<1> SUFFICES ASSUME row'[o].status = "DRAFT", NEW r \in Receipts, OrderOf[r] = o
             PROVE  row'[r].status = "none" /\ \A w \in Workers : cmd'[w].doc # r
  BY DEF Unsent
<1>1. /\ row[o].status = "DRAFT" /\ row[r].status = "none" /\ r # NoCommand.doc
      /\ \A w \in Workers : cmd[w].doc # r
  BY NoKind, NoCommandFits DEF Unsent
<1>2. /\ r \in Documents /\ r \notin Batches \cup Orders \cup Expenses \cup PendingOrders
      /\ \A w, new, n : ~Files(w, r, new, n)
  BY DocumentsOf, KindsAssumption DEF Files
<1>3. row'[r] = row[r]
  BY <1>1, <1>2, Elsewhere
<1>4. ASSUME NEW w \in Workers, NEW c \in Commands, Begins(w, c), c.doc = r
      PROVE  FALSE
  <2>1. /\ ReceiptCommand(c) /\ c.seen = row[r]
        /\ c.op = "register" => \A e \in LocksOf(r) : row[e].status \in Receivable
    BY <1>4 DEF Begins, Sound, Works
  <2>2. c.op = "register" /\ o \in LocksOf(r)
    BY <1>1, <2>1, NoKind DEF ReceiptCommand, LocksOf
  <2> QED
    BY <1>1, <2>1, <2>2 DEF Receivable
<1>5. \A w \in Workers : cmd'[w].doc # r
  BY <1>1, <1>4, WhoWorks
<1> QED
  BY <1>1, <1>3, <1>5

LEMMA ShownStep ==
  ASSUME Form, BalancesHeld, OrdersReceived, NEW o \in Orders, Shown(o), Unsent(o), [Next]_vars
  PROVE  Shown(o)' /\ Unsent(o)'
<1> DEFINE Kept == Shown(o)' /\ (row'[o].status = "DRAFT" => row[o].status = "DRAFT")
<1>1. ASSUME NEW w \in Workers, NEW r \in Receipts, cmd[w].doc = r, Confirmed(w),
             row[r].status = "DRAFT", row'[r].status = "CONFIRMED", row'[r].qty = row[r].qty,
             \A x \in Receipts \ {r} : row'[x] = row[x]
      PROVE  Kept
  BY <1>1, OrderProgress
<1>2. ASSUME \A r \in Receipts :
               \/ row'[r] = row[r]
               \/ row[r].status = "none" /\ row'[r].status = "DRAFT"
      PROVE  Kept
  <2>1. \A i : ReceivedBy(o, i, Receipts)' = ReceivedBy(o, i, Receipts)
    BY <1>2, ReceivedSame DEF OrdersReceived
  <2>2. (AllReceived(o)' <=> AllReceived(o)) /\ (Begun(o)' <=> Begun(o))
    BY <2>1 DEF AllReceived, Begun
  <2>3. /\ o \in Documents /\ o \notin Batches \cup Receipts \cup Conversions
        /\ \A w, new, n : ~Files(w, o, new, n)
    BY DocumentsOf, KindsAssumption DEF Files
  <2>4. o \notin stale' => o \notin stale
    BY StaleStays
  <2>5. ASSUME NEW w \in Workers, Lasting(w), cmd[w].doc = o
        PROVE  Kept
    <3>1. /\ row'[o].status \in {"SENT", "CANCELLED"}
          /\ row'[o].status = "SENT" /\ o \notin stale' => row[o].status = "DRAFT"
      BY <2>5, OrderCommitted
    <3> QED
      BY <2>2, <2>4, <3>1 DEF Shown
  <2>6. ASSUME NEW w \in Workers, Lasting(w), cmd[w].op = "confirm"
        PROVE  FALSE
    <3>1. cmd[w].doc \in Receipts
      BY <2>6, InCommand DEF Works, Belongs, ReceiptOps
    <3>2. row[cmd[w].doc].status = "DRAFT" /\ row'[cmd[w].doc].status = "CONFIRMED"
      BY <2>6, <3>1, ReceiptCommitted DEF OrdersReceived
    <3> QED
      BY <1>2, <3>1, <3>2
  <2>7. CASE row'[o] = row[o]
    BY <2>2, <2>4, <2>7 DEF Shown
  <2> HIDE DEF Kept
  <2>8. \A w : ~Stored(w, o)
    BY <2>3 DEF Stored
  <2> QED
    BY <2>3, <2>5, <2>6, <2>7, <2>8, RowElsewhere DEF Kept
<1> HIDE DEF Kept
<1>3. Kept
  BY <1>1, <1>2, ReceiptsChange DEF OrdersReceived
<1> QED
  BY <1>3, UnsentStep DEF Kept

\* OrderShowsReceipts: the status of an order is that of its receipts, except that one
\* that was saved over another's change may show too little, and that one that was
\* cancelled is not looked at again.
THEOREM OrdersShowTheirReceipts == Spec => []OrderShowsReceipts
<1> DEFINE Inv == \A o \in Orders : Shown(o) /\ Unsent(o)
<1>1. Init => Inv
  <2> SUFFICES ASSUME Init, NEW o \in Orders
               PROVE  Shown(o) /\ Unsent(o)
    OBVIOUS
  <2>1. row[o].status = "DRAFT"
    BY AtFirst, DocumentsOf, KindsAssumption, RowFields DEF Blank
  <2>2. \A i : ReceivedBy(o, i, Receipts) = 0
    BY NothingReceived
  <2>3. Shown(o)
    BY <2>1, <2>2 DEF Shown, Begun
  <2>4. Unsent(o)
    BY AtFirst, DocumentsOf, KindsAssumption, NoKind, RowFields DEF Unsent, Blank
  <2> QED
    BY <2>3, <2>4
<1>2. Form /\ BalancesHeld /\ OrdersReceived /\ Inv /\ [Next]_vars => Inv'
  BY ShownStep
<1>3. Inv => OrderShowsReceipts
  BY DEF OrderShowsReceipts, Shown
<1> HIDE DEF Inv
<1> QED
  BY <1>1, <1>2, <1>3, AlwaysReceived, Always, PTL DEF Spec
=============================================================================
