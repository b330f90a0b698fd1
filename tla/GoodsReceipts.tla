---------------------------- MODULE GoodsReceipts ----------------------------
(***************************************************************************)
(* Purchase orders, the receipts of their goods with the batches that come *)
(* with them, and purchase returns.  Confirming a receipt locks receipt    *)
(* and order; nothing else locks what it decides about.                    *)
(***************************************************************************)
EXTENDS StockLedger

CONSTANTS Orders, Receipts, Returns,
          OrderOf,    \* of a receipt, or NoDocument for a purchase without an order
          Ordered,    \* quantity of each line of a purchase order
          Returned    \* quantity of each line of a purchase return

ASSUME ReceiptsAssumption ==
  /\ Orders \cup Receipts \cup Returns \subseteq Documents
  /\ IsFiniteSet(Receipts)
  /\ OrderOf \in [Receipts -> Orders \cup {NoDocument}]
  /\ Ordered \in [Orders -> Nat]
  /\ Returned \in [Returns -> Nat]

Receivable == {"SENT", "PARTIALLY_RECEIVED"}

Quantity == [r \in Receipts |-> row[r].qty]

\* confirmedReceivedByItem.
ReceivedBy(o, i, R) ==
  SumFunctionOnSet(Quantity,
    {r \in R : OrderOf[r] = o /\ row[r].status = "CONFIRMED" /\ i \in ItemsOf(r)})

\* assertWithinOrderedQuantity.
Within(o, r, q) ==
  \A i \in ItemsOf(r) :
    i \in ItemsOf(o) /\ ReceivedBy(o, i, Receipts \ {r}) + q <= Ordered[o]

-----------------------------------------------------------------------------
(* Purchase orders.                                                         *)

SendOrder(w, o) == Revise(w, o, "send", {"DRAFT"})

CancelOrder(w, o) == Revise(w, o, "cancelOrder", {"DRAFT", "SENT"})

-----------------------------------------------------------------------------
(* Receipts.                                                                *)

LocksOf(r) == {OrderOf[r]} \ {NoDocument}

\* The order is locked, checked and not written.
Register(w, r) ==
  /\ Open(w, r) /\ New(r)
  /\ \A o \in LocksOf(r) : Unlocked(o) /\ row[o].status \in Receivable
  /\ \E q \in 1..MaxQuantity :
       /\ \A o \in LocksOf(r) : Within(o, r, q)
       /\ cmd' = [cmd EXCEPT ![w] =
                    Opened("register", "moving", r, q, <<>>, FALSE, NoDocument, LocksOf(r))]
  /\ UNCHANGED <<live, stock, papers>>

Registered(w) ==
  /\ Ready(w, "register")
  /\ Save(w, Row("DRAFT", cmd[w].qty, 0))
  /\ Settle(w)
  /\ UNCHANGED <<entries, consumed>>

\* Mutant of Confirm: the receipt is read without a lock.
ConfirmUnlocked(w, r) ==
  /\ Open(w, r)
  /\ row[r].status = "DRAFT"
  /\ cmd' = [cmd EXCEPT ![w] =
               Opened("confirm", IF LocksOf(r) = {} THEN "moving" ELSE "locking",
                      r, row[r].qty, Lines[r], TRUE, OrderOf[r], {})]
  /\ UNCHANGED <<live, stock, papers>>

\* lockRow of the receipt, and confirm().
Confirm(w, r) ==
  /\ Open(w, r) /\ Unlocked(r)
  /\ row[r].status = "DRAFT"
  /\ cmd' = [cmd EXCEPT ![w] =
               Opened("confirm", IF LocksOf(r) = {} THEN "moving" ELSE "locking",
                      r, row[r].qty, Lines[r], TRUE, OrderOf[r], {r})]
  /\ UNCHANGED <<live, stock, papers>>

\* Mutant of LockOrder: the order is read without a lock.
ReadOrder(w) ==
  /\ cmd[w].stage = "locking" /\ Free(w)
  /\ Within(cmd[w].wants, cmd[w].doc, cmd[w].qty)
  /\ cmd' = [cmd EXCEPT ![w].stage = "moving"]
  /\ UNCHANGED <<live, stock, papers>>

\* lockRow of the order.  Its status is not looked at again.
LockOrder(w) ==
  /\ cmd[w].stage = "locking" /\ Free(w)
  /\ Within(cmd[w].wants, cmd[w].doc, cmd[w].qty)
  /\ cmd' = [cmd EXCEPT ![w].stage = "moving", ![w].locked = @ \cup {cmd[w].wants}]
  /\ UNCHANGED <<live, stock, papers>>

\* GoodsReceiptExceedsOrderedQuantityError.
TooMuch(w) ==
  /\ cmd[w].stage = "locking" /\ Free(w)
  /\ ~Within(cmd[w].wants, cmd[w].doc, cmd[w].qty)
  /\ Rollback(w)

\* What o has received once r is confirmed.
ReceivedWith(o, i, r) ==
  ReceivedBy(o, i, Receipts \ {r}) + (IF i \in ItemsOf(r) THEN row[r].qty ELSE 0)

\* Mutant of Progress: the order is complete as soon as one of its items is.
ProgressOfAny(o, r) ==
  IF row[o].status \notin Receivable THEN row[o].status
  ELSE IF \E i \in ItemsOf(o) : ReceivedWith(o, i, r) >= Ordered[o] THEN "RECEIVED"
  ELSE IF \E i \in ItemsOf(o) : ReceivedWith(o, i, r) > 0 THEN "PARTIALLY_RECEIVED"
  ELSE row[o].status

\* applyReceivedQuantities.
Progress(o, r) ==
  IF row[o].status \notin Receivable THEN row[o].status
  ELSE IF \A i \in ItemsOf(o) : ReceivedWith(o, i, r) >= Ordered[o] THEN "RECEIVED"
  ELSE IF \E i \in ItemsOf(o) : ReceivedWith(o, i, r) > 0 THEN "PARTIALLY_RECEIVED"
  ELSE row[o].status

\* The receipt, its batches, the order and the journal entry.
Confirmed(w) ==
  LET r == cmd[w].doc IN
  /\ Ready(w, "confirm")
  /\ row' = [d \in Documents |->
       IF d = r THEN Row("CONFIRMED", cmd[w].seen.qty, 0)
       ELSE IF Stored(w, d) THEN NewBatch(w)
       ELSE IF d \in LocksOf(r) THEN Row(Progress(d, r), row[d].qty, row[d].got)
       ELSE row[d]]
  /\ Posted(r, OneIf(r \in Journaled))
  /\ Settle(w)
  /\ UNCHANGED <<stale, consumed>>

-----------------------------------------------------------------------------
(* Batches and returns.                                                     *)

\* Mutant of WriteOff: what remains is not looked at.
WriteOffAny(w, b) ==
  /\ Open(w, b)
  /\ row[b].status = "active"
  /\ \E q \in 0..MaxQuantity :
       cmd' = [cmd EXCEPT ![w] =
                 Opened(IF q = 0 THEN "expire" ELSE "writeOff", "moving", b, q, <<>>, FALSE,
                        NoDocument, {})]
  /\ UNCHANGED <<live, stock, papers>>

\* Some of it, or 0 for the whole batch: markExpired.
WriteOff(w, b) ==
  /\ Open(w, b)
  /\ row[b].status = "active"
  /\ \E q \in 0..MaxQuantity :
       /\ q <= row[b].qty
       /\ cmd' = [cmd EXCEPT ![w] =
                    Opened(IF q = 0 THEN "expire" ELSE "writeOff", "moving", b, q, <<>>, FALSE,
                           NoDocument, {})]
  /\ UNCHANGED <<live, stock, papers>>

WrittenOff(w) ==
  LET left == cmd[w].seen.qty - cmd[w].qty IN
  /\ Ready(w, "writeOff")
  /\ Save(w, Row(IF left = 0 THEN "depleted" ELSE "active", left, 0))
  /\ consumed' = [consumed EXCEPT ![cmd[w].doc] = @ + cmd[w].qty]
  /\ Settle(w)
  /\ UNCHANGED entries

PostReturn(w, p) ==
  /\ Open(w, p)
  /\ row[p].status = "DRAFT"
  /\ cmd' = [cmd EXCEPT ![w] =
               Opened("post", "moving", p, -row[p].qty, Lines[p], TRUE, NoDocument, {})]
  /\ UNCHANGED <<live, stock, papers>>

PostedReturn(w) ==
  /\ Ready(w, "post")
  /\ Save(w, Row("POSTED", cmd[w].seen.qty, 0))
  /\ Posted(cmd[w].doc, OneIf(cmd[w].doc \in Journaled))
  /\ Settle(w)
  /\ UNCHANGED consumed

ReceiptBegin(w) ==
  \/ \E o \in Orders : SendOrder(w, o) \/ CancelOrder(w, o)
  \/ \E r \in Receipts : Register(w, r) \/ Confirm(w, r)
  \/ \E b \in Batches : WriteOff(w, b)
  \/ \E p \in Returns : PostReturn(w, p) \/ Revise(w, p, "cancelReturn", {"DRAFT"})

ReceiptStep(w) ==
  \/ Revised(w, "send", "SENT")
  \/ Revised(w, "cancelOrder", "CANCELLED")
  \/ Revised(w, "cancelReturn", "CANCELLED")
  \/ Revised(w, "expire", "expired")
  \/ Registered(w) \/ LockOrder(w) \/ TooMuch(w) \/ Confirmed(w)
  \/ WrittenOff(w) \/ PostedReturn(w)

=============================================================================
