---------------------------- MODULE StockTransfers ----------------------------
(***************************************************************************)
(* The documents of the inventory: transfer requests between branches,     *)
(* stocktakes and movements recorded by hand.                              *)
(***************************************************************************)
EXTENDS StockLedger

CONSTANTS Transfers, Stocktakes, Adjustments,
          Quantities  \* bound: what they send, receive, count and record per line

ASSUME TransfersAssumption ==
  /\ Transfers \cup Stocktakes \cup Adjustments \subseteq Documents
  /\ Quantities \subseteq Nat

-----------------------------------------------------------------------------
(* Transfer requests.  None of the commands locks the request.              *)

\* Dispatch and receive move the goods first and look at the status afterwards.
\* The quantity is the caller's or else the approved one, which is the caller's of
\* before; the approval to go below zero counts where the item's policy allows it.
Dispatch(w, t) ==
  /\ Open(w, t)
  /\ \E q \in Quantities, approved \in BOOLEAN :
       cmd' = [cmd EXCEPT ![w] =
                 Opened("dispatch", "moving", t, -q, Lines[t], approved, NoDocument, {})]
  /\ UNCHANGED <<live, stock, papers>>

Receive(w, t) ==
  /\ Open(w, t)
  /\ \E q \in Quantities :
       cmd' = [cmd EXCEPT ![w] =
                 Opened("receive", "moving", t, q, Lines[t], TRUE, NoDocument, {})]
  /\ UNCHANGED <<live, stock, papers>>

Dispatched(w) ==
  /\ Ready(w, "dispatch")
  /\ cmd[w].seen.status = "APPROVED"
  /\ Save(w, Row("DISPATCHED", -cmd[w].qty, cmd[w].seen.got))
  /\ Settle(w)
  /\ UNCHANGED <<entries, consumed>>

Received(w) ==
  /\ Ready(w, "receive")
  /\ cmd[w].seen.status = "DISPATCHED"
  /\ Save(w, Row("RECEIVED", cmd[w].seen.qty, cmd[w].qty))
  /\ Settle(w)
  /\ UNCHANGED <<entries, consumed>>

Misplaced(w) ==
  /\ Complete(w)
  /\ \/ cmd[w].op = "dispatch" /\ cmd[w].seen.status # "APPROVED"
     \/ cmd[w].op = "receive" /\ cmd[w].seen.status # "DISPATCHED"

\* Mutant of Refused: the refusal does not undo the movements.
RefusedKept(w) == Misplaced(w) /\ Settle(w) /\ UNCHANGED papers

\* TransferRequestNotDispatchableError, TransferRequestNotReceivableError.
Refused(w) == Misplaced(w) /\ Rollback(w)

-----------------------------------------------------------------------------
(* Stocktakes and movements by hand.                                        *)

Count(w, s) ==
  /\ Open(w, s) /\ New(s)
  /\ \E q \in Quantities :
       cmd' = [cmd EXCEPT ![w] =
                 Opened("count", "counting", s, q, Lines[s], TRUE, NoDocument, {})]
  /\ UNCHANGED <<live, stock, papers>>

\* getBalance of one line after the other, without a lock.
CountLine(w) ==
  /\ Counting(w)
  /\ IF cmd[w].line <= Len(cmd[w].items)
     THEN cmd' = [cmd EXCEPT ![w].system[Item(w)] = balance[Key(w)], ![w].line = @ + 1]
     ELSE cmd' = [cmd EXCEPT ![w].stage = "moving", ![w].line = 1]
  /\ UNCHANGED <<live, stock, papers>>

\* One entry for every line with a variance that is charged to an account.
Counted(w) ==
  /\ Ready(w, "count")
  /\ Save(w, Row("RECORDED", cmd[w].qty, 0))
  /\ Settle(w)
  /\ Posted(cmd[w].doc, IF cmd[w].doc \in Journaled THEN Cardinality(cmd[w].held) ELSE 0)
  /\ UNCHANGED consumed

Adjust(w, a) ==
  /\ Open(w, a) /\ New(a)
  /\ \E q \in Quantities \cup {-n : n \in Quantities}, approved \in BOOLEAN :
       /\ q # 0
       /\ cmd' = [cmd EXCEPT ![w] =
                    Opened("adjust", "moving", a, q, Lines[a], approved, NoDocument, {})]
  /\ UNCHANGED <<live, stock, papers>>

TransferBegin(w) ==
  \/ \E t \in Transfers :
       \/ Revise(w, t, "approve", {"SUBMITTED"})
       \/ Revise(w, t, "reject", {"SUBMITTED"})
       \/ Revise(w, t, "cancel", {"SUBMITTED", "APPROVED"})
       \/ Dispatch(w, t) \/ Receive(w, t)
  \/ \E s \in Stocktakes : Count(w, s)
  \/ \E a \in Adjustments : Adjust(w, a)

TransferStep(w) ==
  \/ Revised(w, "approve", "APPROVED")
  \/ Revised(w, "reject", "REJECTED")
  \/ Revised(w, "cancel", "CANCELLED")
  \/ Dispatched(w) \/ Received(w) \/ Refused(w)
  \/ CountLine(w) \/ Counted(w)
  \/ Revised(w, "adjust", "RECORDED")

=============================================================================
