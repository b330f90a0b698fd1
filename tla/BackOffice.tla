------------------------------ MODULE BackOffice ------------------------------
(***************************************************************************)
(* What the back office of a branch closes: the shifts of its cashiers,    *)
(* the rounds of its drivers, the payroll, and the day itself, which asks  *)
(* for the shifts and for the cash of the drivers.                         *)
(***************************************************************************)
EXTENDS CashShifts, DriverRounds, PayrollRuns

CONSTANT Day  \* the branch and its business date

\* A row of one table is not a row of another.
ASSUME DayAssumption ==
  /\ Day \in Things
  /\ Shifts \cap (Entries \cup Deliveries \cup Settlements \cup Rounds \cup Runs) = {}
  /\ Entries \cap (Settlements \cup Rounds \cup Runs) = {}
  /\ Settlements \cap (Rounds \cup Runs) = {} /\ Rounds \cap Runs = {}

VARIABLE day  \* branch_days

\* asked, under: when the closing began, and the shifts under review and deliveries
\* not settled then; counted: the shifts whose variance is in its total (history).
OpenDay == [status |-> "open", asked |-> 0, under |-> {}, counted |-> {}]

vars == <<live, clock, journal, cmd, drawer, road, paper, day>>

-----------------------------------------------------------------------------

InState(status) == {s \in Shifts : shift[s].status = status}

\* pendingCash > 0.
OnTheRoad ==
  {d \in CashOnDelivery : delivery[d].status = "DELIVERED" /\ delivery[d].settlement = Nothing}

Asking(w, from, to) ==
  /\ cmd[w].op = from
  /\ cmd' = [cmd EXCEPT ![w].op = to]
  /\ UNCHANGED <<live, clock, journal, drawer, road, paper, day>>

\* close-branch-day: its questions are asked one after the other, each of what is
\* committed by then.  First, is a shift active?
DayActive(w) ==
  /\ Day \in live
  /\ InState("ACTIVE") = {}
  /\ Begin(w, [Command("dayTotal", Day, Nothing, {}, {})
               EXCEPT !.under = InState("PENDING_REVIEW") \cup OnTheRoad])
  /\ UNCHANGED <<clock, drawer, road, paper, day>>

\* getCashVarianceTotalForDate; there is one business date, so it filters nothing.
DayTotal(w) ==
  /\ cmd[w].op = "dayTotal"
  /\ cmd' = [cmd EXCEPT ![w].op = "dayPending", ![w].picked = InState("CLOSED")]
  /\ UNCHANGED <<live, clock, journal, drawer, road, paper, day>>

\* Mutant of DayPending: a shift may be under review.
DayPendingAny(w) == Asking(w, "dayPending", "dayDrivers")

\* Is one under review?  The next question, for open orders, is left out: orders are
\* no part of this module, so a day that they hold up is closed here all the same.
DayPending(w) == InState("PENDING_REVIEW") = {} /\ Asking(w, "dayPending", "dayDrivers")

\* Does a driver still have cash of the branch?
DayDrivers(w) == OnTheRoad = {} /\ Asking(w, "dayDrivers", "dayInsert")

\* unique (branch_id, business_date).
DayInsert(w) ==
  /\ cmd[w].op = "dayInsert"
  /\ day.status = "open"
  /\ day' = [status |-> "closed", asked |-> cmd[w].since, under |-> cmd[w].under,
             counted |-> cmd[w].picked]
  /\ End(w)
  /\ UNCHANGED <<journal, drawer, road, paper>>

DayStep ==
  \E w \in Workers :
    DayActive(w) \/ DayTotal(w) \/ DayPending(w) \/ DayDrivers(w) \/ DayInsert(w)

-----------------------------------------------------------------------------

Ops ==
  {"idle", "entry", "sale", "close", "status", "settle", "checkout", "register", "approve",
   "dayTotal", "dayPending", "dayDrivers", "dayInsert"}

ShiftRows ==
  [status : {"none", "ACTIVE", "PENDING_REVIEW", "CLOSED"}, cashier : Cashiers \cup {Nothing},
   opened : Nat, until : Nat, counted : SUBSET Movements, variance : Int]

MovementRows ==
  [status : {"none", "in", "cancelled"}, cashier : Cashiers \cup {Nothing}, at : Nat,
   of : Shifts \cup {Nothing}, late : BOOLEAN]

DeliveryRows ==
  [status : {"none", "ASSIGNED", "DELIVERED", "FAILED"}, driver : Drivers \cup {Nothing},
   at : Nat, settlement : Settlements \cup {Nothing}]

SettlementRows ==
  [status : {"none", "NONE", "PENDING_REVIEW", "REVIEWED"}, orders : SUBSET Deliveries,
   variance : Int]

RoundRows ==
  [status : {"none", "ACTIVE", "CLOSED"}, driver : Drivers \cup {Nothing}, from : Nat,
   counted : SUBSET Deliveries, pay : Nat]

RunRows ==
  [status : {"none", "DRAFT", "APPROVED", "CANCELLED", "DELETED"}, staff : SUBSET Employees,
   applied : SUBSET Adjustments, net : Nat, by : Users \cup {Nothing}]

Commands ==
  [op : Ops, doc : Things \cup {Nothing}, since : Nat,
   read : {Nothing} \cup [Deliveries -> DeliveryRows],
   picked : SUBSET Things, under : SUBSET (Things \cup Employees), locked : SUBSET Things]

TypeOK ==
  /\ live \in Scenarios
  /\ clock \in Nat
  /\ journal \in [Things -> [status : {"none", "POSTED", "REVERSED"}, amount : Int]]
  /\ cmd \in [Workers -> Commands]
  /\ shift \in [Shifts -> ShiftRows]
  /\ movement \in [Movements -> MovementRows]
  /\ delivery \in [Deliveries -> DeliveryRows]
  /\ settlement \in [Settlements -> SettlementRows]
  /\ round \in [Rounds -> RoundRows]
  /\ raced \subseteq Deliveries
  /\ adjustment \in [Adjustments -> [status : {"none", "ACTIVE", "CANCELLED"}, run : Runs \cup {Nothing}]]
  /\ run \in [Runs -> RunRows]
  /\ unseen \subseteq Adjustments
  /\ day \in [status : {"open", "closed"}, asked : Nat, under : SUBSET (Things \cup Employees),
              counted : SUBSET Things]

Init ==
  /\ live \in Scenarios
  /\ clock = 0
  /\ journal = [x \in Things |-> NoEntry]
  /\ cmd = [w \in Workers |-> NoCommand]
  /\ shift = [s \in Shifts |-> NoShift]
  /\ movement = [x \in Movements |-> NoMovement]
  /\ delivery = [d \in Deliveries |-> NoDelivery]
  /\ settlement = [t \in Settlements |-> NoSettlement]
  /\ round = [k \in Rounds |-> NoRound]
  /\ raced = {}
  /\ adjustment = [a \in Adjustments |-> NoAdjustment]
  /\ run = [p \in Runs |-> NoRun]
  /\ unseen = {}
  /\ day = OpenDay

Next ==
  \/ ShiftStep /\ UNCHANGED <<road, paper, day>>
  \/ DriverStep /\ UNCHANGED <<drawer, paper, day>>
  \/ PayrollStep /\ UNCHANGED <<drawer, road, day>>
  \/ DayStep
  \/ \E w \in Workers : Abandon(w) /\ UNCHANGED <<drawer, road, paper, day>>

Spec == Init /\ [][Next]_vars

-----------------------------------------------------------------------------
(* Properties.                                                              *)

Over(s) == shift[s].status \in {"PENDING_REVIEW", "CLOSED"}

\* close-shift: no movement is in the cash of two shifts, and what is taken out of a
\* drawer is in the closing of its shift, unless it was written down when the shift
\* was over already.
MoneyIsCountedOnce ==
  /\ \A s, other \in Shifts : shift[s].counted \cap shift[other].counted # {} => s = other
  /\ \A e \in Entries : \A s \in Shifts :
       movement[e].of = s /\ Over(s) => (e \in shift[s].counted <=> ~movement[e].late)

\* The journal has the variance of a shift once it is closed, the variance of a
\* settlement and the pay of a round, the net pay of a run while it is approved, and
\* nothing before, whoever closes, reviews, settles or approves at the same time.
BookedAsDecided ==
  /\ \A s \in Shifts :
       BookedFor(s, IF shift[s].status = "CLOSED" THEN shift[s].variance ELSE 0)
  /\ \A e \in Entries : BookedFor(e, IF movement[e].status = "in" THEN 1 ELSE 0)
  /\ \A t \in Settlements : BookedFor(t, settlement[t].variance)
  /\ \A k \in Rounds : BookedFor(k, round[k].pay)
  /\ \A p \in Runs :
       IF run[p].status = "CANCELLED"
       THEN run[p].net = 0 \/ journal[p] = [status |-> "REVERSED", amount |-> run[p].net]
       ELSE BookedFor(p, IF run[p].status = "APPROVED" THEN run[p].net ELSE 0)

\* delivery-assignment.aggregate.ts, check-out-driver: a delivery is settled in one
\* settlement and its bonus paid in one round, unless two requests read it together.
DeliveryCountsOnce ==
  \A d \in Deliveries \ raced :
    /\ \A t \in Settlements : d \in settlement[t].orders <=> delivery[d].settlement = t
    /\ \A k, other \in Rounds : d \in round[k].counted \cap round[other].counted => k = other

\* BL-10: an adjustment that a run has applied is there, and the run is in force; and
\* the run in force, of which there is one, has applied what names it.
AdjustmentsPaidOnce ==
  /\ \A p, other \in Runs : InForce(p) /\ InForce(other) => p = other
  /\ \A a \in Adjustments : \A p \in Runs :
       /\ adjustment[a].run = p => adjustment[a].status = "ACTIVE"
       /\ adjustment[a].run = p <=> InForce(p) /\ a \in run[p].applied

\* BL-10: an approved run leaves no adjustment of its employees out, except for one
\* that was registered when the approval had looked.
NothingSkipped ==
  \A p \in Runs : \A a \in Adjustments :
    run[p].status = "APPROVED" /\ adjustment[a].status = "ACTIVE"
      /\ adjustment[a].run = Nothing /\ EmployeeOf[a] \in run[p].staff
    => a \in unseen

\* close-branch-day: when the day is closed, so are the shifts that were there when
\* its closing began; their variances are in its total, except for those reviewed
\* meanwhile; and the cash that was on the road then is settled.
DayIsComplete ==
  day.status = "closed" =>
    /\ \A s \in Shifts : shift[s].status # "none" /\ shift[s].opened <= day.asked =>
         shift[s].status = "CLOSED" /\ s \in day.counted \cup day.under
    /\ \A d \in (CashOnDelivery \cap day.under) \ raced : delivery[d].settlement # Nothing

=============================================================================
