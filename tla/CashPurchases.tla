---------------------------- MODULE CashPurchases ----------------------------
(***************************************************************************)
(* Purchases for cash, without an order: registered by a cashier and con-  *)
(* firmed later, or registered and confirmed at once.  A confirmation      *)
(* locks the purchase; an edit and a rejection read it without.            *)
(***************************************************************************)
EXTENDS StockLedger

CONSTANT Purchases

ASSUME PurchasesAssumption ==
  /\ Purchases \subseteq Documents
  /\ \A u \in Purchases \cap Journaled : Lines[u] # <<>>

\* initialStatus is that of the caller's role.
RegisterPurchase(w, u) ==
  /\ Open(w, u) /\ New(u)
  /\ \E q \in 1..MaxQuantity :
       \/ cmd' = [cmd EXCEPT ![w] =
                    Opened("note", "moving", u, q, <<>>, FALSE, NoDocument, {})]
       \/ cmd' = [cmd EXCEPT ![w] =
                    Opened("buy", "moving", u, q, Lines[u], TRUE, NoDocument, {})]
  /\ UNCHANGED <<live, stock, papers>>

ConfirmPurchase(w, u) ==
  /\ Open(w, u) /\ Unlocked(u)
  /\ row[u].status = "PENDING"
  /\ cmd' = [cmd EXCEPT ![w] =
               Opened("buy", "moving", u, row[u].qty, Lines[u], TRUE, NoDocument, {u})]
  /\ UNCHANGED <<live, stock, papers>>

\* A purchase without items moves and posts nothing.
Bought(w) ==
  LET u == cmd[w].doc IN
  /\ Ready(w, "buy")
  /\ Save(w, Row("CONFIRMED", cmd[w].qty, 0))
  /\ Posted(u, OneIf(u \in Journaled /\ Lines[u] # <<>>))
  /\ Settle(w)
  /\ UNCHANGED consumed

EditPurchase(w, u) ==
  /\ Open(w, u)
  /\ row[u].status = "PENDING"
  /\ \E q \in 1..MaxQuantity :
       cmd' = [cmd EXCEPT ![w] = Opened("note", "moving", u, q, <<>>, FALSE, NoDocument, {})]
  /\ UNCHANGED <<live, stock, papers>>

\* Registered or edited: the lines as they are now, still pending.
Noted(w) ==
  /\ Ready(w, "note")
  /\ Save(w, Row("PENDING", cmd[w].qty, 0))
  /\ Settle(w)
  /\ UNCHANGED <<entries, consumed>>

PurchaseBegin(w) ==
  \E u \in Purchases :
    \/ RegisterPurchase(w, u) \/ ConfirmPurchase(w, u) \/ EditPurchase(w, u)
    \/ Revise(w, u, "rejectPurchase", {"PENDING"})

PurchaseStep(w) == Bought(w) \/ Noted(w) \/ Revised(w, "rejectPurchase", "REJECTED")

=============================================================================
