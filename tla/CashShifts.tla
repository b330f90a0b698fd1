------------------------------ MODULE CashShifts ------------------------------
(***************************************************************************)
(* The shifts of the cashiers: a shift is opened, cash is taken out of its *)
(* drawer, orders are sold by its cashier, and it is closed by adding up   *)
(* what moved between its opening and its closing.  Every movement is one  *)
(* pound.                                                                  *)
(***************************************************************************)
EXTENDS ClosingCommands

CONSTANTS Shifts, Cashiers,
          Entries,     \* of the cash drawer: expenses and purchases
          Sales,       \* orders paid in cash
          OpeningCash,
          MaxCash,     \* bound: cash counted at the closing
          Tolerated    \* shiftVarianceAckThresholdEgp

ASSUME ShiftAssumption ==
  /\ Shifts \subseteq Things /\ Entries \subseteq Things /\ Sales \subseteq Things
  /\ Entries \cap Sales = {}
  /\ OpeningCash \in Nat /\ MaxCash \in Nat /\ Tolerated \in Nat

VARIABLES
  shift,    \* cashier_shifts
  movement  \* cash_drawer_entries and orders

Movements == Entries \cup Sales

NoShift ==
  [status |-> "none", cashier |-> Nothing, opened |-> 0, until |-> 0,
   counted |-> {}, variance |-> 0]

\* late: the shift of an entry was no longer active when the entry landed (history).
NoMovement ==
  [status |-> "none", cashier |-> Nothing, at |-> 0, of |-> Nothing, late |-> FALSE]

drawer == <<shift, movement>>

\* open-shift: one active shift of a cashier, by the check and by the unique index.
OpenShift(s, c) ==
  /\ s \in live /\ shift[s].status = "none"
  /\ \A other \in Shifts : ~(shift[other].status = "ACTIVE" /\ shift[other].cashier = c)
  /\ Tick
  /\ shift' = [shift EXCEPT ![s] =
       [status |-> "ACTIVE", cashier |-> c, opened |-> clock', until |-> 0,
        counted |-> {}, variance |-> 0]]
  /\ AtOnce /\ UNCHANGED movement

\* register-cash-drawer-entry reads the shift without a lock.
EntryRead(w, e, s) ==
  /\ Unclaimed(e) /\ movement[e].status = "none"
  /\ shift[s].status = "ACTIVE"
  /\ Begin(w, Command("entry", e, Nothing, {s}, {}))
  /\ UNCHANGED <<clock, drawer>>

\* The row names the shift, and waits while somebody has it locked.
EntryCommit(w) ==
  /\ cmd[w].op = "entry"
  /\ \E s \in cmd[w].picked, at \in cmd[w].since..clock :
       /\ Unlocked({s})
       /\ movement' = [movement EXCEPT ![cmd[w].doc] =
            [status |-> "in", cashier |-> shift[s].cashier, at |-> at, of |-> s,
             late |-> shift[s].status # "ACTIVE"]]
  /\ Book(cmd[w].doc, 1)
  /\ End(w)
  /\ UNCHANGED shift

\* register-order, as far as the drawer goes: stamped at once, seen by others later,
\* and without regard to a shift.
SaleRead(w, x) ==
  /\ x \in Sales
  /\ Unclaimed(x) /\ movement[x].status = "none"
  /\ Begin(w, Command("sale", x, Nothing, {}, {}))
  /\ UNCHANGED <<clock, drawer>>

SaleCommit(w, c) ==
  /\ cmd[w].op = "sale"
  /\ movement' = [movement EXCEPT ![cmd[w].doc] =
       [status |-> "in", cashier |-> c, at |-> cmd[w].since, of |-> Nothing, late |-> FALSE]]
  /\ End(w)
  /\ UNCHANGED <<journal, shift>>

CancelSale(x) ==
  /\ x \in Sales /\ movement[x].status = "in"
  /\ movement' = [movement EXCEPT ![x].status = "cancelled"]
  /\ AtOnce /\ UNCHANGED <<clock, shift>>

\* computeFinancials, its two queries as one: whatever the cashier moved since the
\* opening, whichever shift an entry names.
Moved(s) ==
  {x \in Movements : /\ movement[x].status = "in"
                     /\ movement[x].cashier = shift[s].cashier
                     /\ shift[s].opened <= movement[x].at}

\* Mutant of CloseRead: the shift is not locked.
CloseUnlocked(w, s) ==
  /\ shift[s].status = "ACTIVE"
  /\ Tick
  /\ Begin(w, Command("close", s, Nothing, Moved(s), {}))
  /\ UNCHANGED drawer

\* close-shift; toTs is now, so that nothing there yet is later.
CloseRead(w, s) ==
  /\ shift[s].status = "ACTIVE"
  /\ Tick
  /\ Begin(w, Command("close", s, Nothing, Moved(s), {s}))
  /\ UNCHANGED drawer

Expected(X) == OpeningCash + Cardinality(X \cap Sales) - Cardinality(X \cap Entries)

CloseCommit(w) ==
  LET s == cmd[w].doc IN
  /\ cmd[w].op = "close"
  /\ \E cash \in 0..MaxCash :
       LET variance == cash - Expected(cmd[w].picked)
           fine == Within(variance, Tolerated)
       IN /\ shift' = [shift EXCEPT
               ![s].status = IF fine THEN "CLOSED" ELSE "PENDING_REVIEW",
               ![s].until = cmd[w].since,
               ![s].counted = cmd[w].picked,
               ![s].variance = variance]
          /\ Book(s, IF fine THEN variance ELSE 0)
  /\ End(w)
  /\ UNCHANGED movement

\* review-shift-variance, approved or acknowledged.
ReviewShift(s) ==
  /\ Unlocked({s})
  /\ shift[s].status = "PENDING_REVIEW"
  /\ shift' = [shift EXCEPT ![s].status = "CLOSED"]
  /\ Book(s, shift[s].variance)
  /\ UNCHANGED <<live, clock, cmd, movement>>

ShiftStep ==
  \/ \E s \in Shifts : ReviewShift(s) \/ \E c \in Cashiers : OpenShift(s, c)
  \/ \E x \in Sales : CancelSale(x)
  \/ \E w \in Workers :
       \/ \E e \in Entries, s \in Shifts : EntryRead(w, e, s)
       \/ EntryCommit(w)
       \/ \E x \in Sales : SaleRead(w, x)
       \/ \E c \in Cashiers : SaleCommit(w, c)
       \/ \E s \in Shifts : CloseRead(w, s)
       \/ CloseCommit(w)

=============================================================================
