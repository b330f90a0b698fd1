--------------------------- MODULE StockDocumentsMC ---------------------------
(* Instances of StockDocuments for TLC. *)
EXTENDS StockDocuments

CONSTANTS w1, w2, b1, b2, i1, i2, t1, t2, s1, s2, a1, o1, r1, r2, r3, x3, p1, v1, c1, y1, u1, e1, g1

Forward == <<i1, i2>>
Backward == <<i2, i1>>

LinesMC ==
  [d \in Documents |->
     IF d \in {t1, p1, c1} THEN Backward
     ELSE IF d \in {t2, s1, a1, r2, g1} THEN <<i1>>
     ELSE IF d = e1 THEN <<>> ELSE Forward]

AtMC == [d \in Documents |-> b1]
DestinationMC == [d \in Documents |-> b2]
OrderOfMC == [r \in Receipts |-> IF r = r3 THEN NoDocument ELSE o1]
SourceOfMC == [b \in Batches |-> IF b = x3 THEN r3 ELSE c1]
OrderedMC == [o \in Orders |-> 2]
ReturnedMC == [p \in Returns |-> 2]
SortedMC == [c \in Conversions |-> Forward]
OutputMC == [c \in Conversions |-> i2]
InvoicedMC == [v \in Invoices |-> 2]

\* A transfer, also with what else moves its stock, an order with its receipts, a receipt
\* with its batch, a receipt and a return, an invoice, a conversion with a cash
\* purchase, with a movement by hand or with its batch; an expense; a
\* pending order with a movement by hand, which lets it be confirmed twice.
ScenariosMC == {{t1}, {t2, s1}, {s2, a1}, {o1, r1, r2}, {r3, x3}, {r3, p1}, {v1}, {c1, u1}, {c1, a1},
                {c1, y1}, {e1}, {g1, a1}}
=============================================================================
