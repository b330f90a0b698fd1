---------------------------- MODULE PendingOrders ----------------------------
(***************************************************************************)
(* The orders that come in by WhatsApp: collected by the bot, or entered   *)
(* by the staff, and confirmed or rejected.  The routes of this context    *)
(* run outside a transaction of the request, so a confirmation commits the *)
(* order first and the pending order afterwards.                           *)
(***************************************************************************)
EXTENDS StockLedger

CONSTANT PendingOrders

ASSUME PendingAssumption == PendingOrders \subseteq Documents

Filed(g, status, q) ==
  /\ row' = [row EXCEPT ![g] = Row(status, q, 0)]
  /\ UNCHANGED <<live, stock, stale, entries, consumed, cmd>>

\* The bot works on a draft, one message of a conversation at a time, and nobody
\* else does; no lines yet is a quantity of zero.
Collect(w, g) ==
  /\ Open(w, g)
  /\ New(g) \/ row[g].status = "DRAFT"
  /\ \E q \in 0..MaxQuantity : Filed(g, "DRAFT", q)

\* Complete, as far as the lines go.
SubmitDraft(w, g) ==
  /\ Open(w, g)
  /\ row[g].status = "DRAFT" /\ row[g].qty > 0
  /\ Filed(g, "PENDING", row[g].qty)

RegisterPending(w, g) ==
  /\ Open(w, g) /\ New(g)
  /\ \E q \in 1..MaxQuantity : Filed(g, "PENDING", q)

\* register-order takes the lines' portions out of the stock.
ConfirmPending(w, g) ==
  /\ Open(w, g)
  /\ row[g].status = "PENDING"
  /\ cmd' = [cmd EXCEPT ![w] =
               Opened("confirmPending", "moving", g, -row[g].qty, Lines[g], FALSE, NoDocument, {})]
  /\ UNCHANGED <<live, stock, papers>>

Saving(w, g) == cmd[w].stage = "saving" /\ cmd[w].doc = g

\* Registered by two confirmations, the first of which may not have saved it yet.
Again(w) ==
  \/ row[cmd[w].doc] # cmd[w].seen
  \/ \E v \in Workers \ {w} : Saving(v, cmd[w].doc)

\* The order is committed, and the request goes on without a transaction.
OrderRegistered(w) ==
  /\ Ready(w, "confirmPending")
  /\ stale' = IF Again(w) THEN stale \cup {cmd[w].doc} ELSE stale
  /\ Posted(cmd[w].doc, OneIf(cmd[w].doc \in Journaled))
  /\ Recorded(w)
  /\ cmd' = [cmd EXCEPT ![w] =
               [NoCommand EXCEPT !.stage = "saving", !.op = "confirmed",
                                 !.doc = cmd[w].doc, !.seen = cmd[w].seen]]
  /\ UNCHANGED <<live, row, consumed>>

SaveConfirmed(w) ==
  /\ cmd[w].stage = "saving"
  /\ Save(w, Row("CONFIRMED", cmd[w].seen.qty, 0))
  /\ cmd' = [cmd EXCEPT ![w] = NoCommand]
  /\ UNCHANGED <<live, stock, entries, consumed>>

\* The server stops, or loses the database, between the two: an order that its
\* pending order does not know.
CutOff(w) ==
  /\ cmd[w].stage = "saving"
  /\ stale' = stale \cup {cmd[w].doc}
  /\ cmd' = [cmd EXCEPT ![w] = NoCommand]
  /\ UNCHANGED <<live, stock, row, entries, consumed>>

PendingBegin(w) ==
  \E g \in PendingOrders :
    \/ Collect(w, g) \/ SubmitDraft(w, g) \/ RegisterPending(w, g) \/ ConfirmPending(w, g)
    \/ Revise(w, g, "rejectPending", {"PENDING"})

PendingStep(w) ==
  OrderRegistered(w) \/ SaveConfirmed(w) \/ Revised(w, "rejectPending", "REJECTED")

=============================================================================
