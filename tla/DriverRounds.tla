----------------------------- MODULE DriverRounds -----------------------------
(***************************************************************************)
(* The drivers of the branch: orders are assigned to them and delivered,   *)
(* the cash they have collected is settled, and their rounds are paid by   *)
(* the hour and by the delivery.  Every delivery is worth one pound, and   *)
(* so is its bonus.                                                        *)
(***************************************************************************)
EXTENDS ClosingCommands

CONSTANTS Deliveries,     \* assignments, one for an order
          CashOnDelivery, \* those of orders paid in cash
          Settlements,
          Rounds,         \* driver_attendance_shifts
          Drivers,
          MaxHanded,      \* bound: cash handed over
          Accepted,       \* driverSettlementVarianceAckThresholdEgp
          MaxWage         \* bound: wage of a round

ASSUME RoundAssumption ==
  /\ Deliveries \subseteq Things /\ Settlements \subseteq Things /\ Rounds \subseteq Things
  /\ CashOnDelivery \subseteq Deliveries
  /\ MaxHanded \in Nat /\ Accepted \in Nat /\ MaxWage \in Nat

VARIABLES
  delivery,   \* delivery_assignments
  settlement, \* driver_settlements
  round,      \* driver_attendance_shifts
  raced       \* deliveries saved over a row that was not the one read (history)

\* Of the statuses that are not final, one.
NoDelivery == [status |-> "none", driver |-> Nothing, at |-> 0, settlement |-> Nothing]

NoSettlement == [status |-> "none", orders |-> {}, variance |-> 0]

NoRound == [status |-> "none", driver |-> Nothing, from |-> 0, counted |-> {}, pay |-> 0]

road == <<delivery, settlement, round, raced>>

\* assign-driver: one assignment for an order.
Assign(d, r) ==
  /\ d \in live /\ delivery[d].status = "none"
  /\ delivery' = [delivery EXCEPT ![d].status = "ASSIGNED", ![d].driver = r]
  /\ AtOnce /\ UNCHANGED <<clock, settlement, round, raced>>

ReadOf(X) == [d \in Deliveries |-> IF d \in X THEN delivery[d] ELSE NoDelivery]

\* save writes the rows whole, as they were read but for what has changed.
SaveOver(w, new) ==
  /\ delivery' = [d \in Deliveries |-> IF d \in cmd[w].picked THEN new[d] ELSE delivery[d]]
  /\ raced' = raced \cup {d \in cmd[w].picked : delivery[d] # cmd[w].read[d]}

\* Mutant of StatusRead: a final status may change as well.
StatusReadAny(w, d) ==
  /\ delivery[d].status # "none"
  /\ Begin(w, Command("status", d, ReadOf({d}), {d}, {}))
  /\ UNCHANGED <<clock, road>>

\* update-delivery-status: nothing leaves a final status, as it was read.
StatusRead(w, d) ==
  /\ delivery[d].status = "ASSIGNED"
  /\ Begin(w, Command("status", d, ReadOf({d}), {d}, {}))
  /\ UNCHANGED <<clock, road>>

StatusCommit(w) ==
  /\ cmd[w].op = "status"
  /\ \E status \in {"ASSIGNED", "DELIVERED", "FAILED"}, at \in cmd[w].since..clock :
       SaveOver(w, [d \in Deliveries |->
         [cmd[w].read[d] EXCEPT !.status = status,
                                !.at = IF status = "DELIVERED" THEN at ELSE @]])
  /\ End(w)
  /\ UNCHANGED <<journal, settlement, round>>

Unsettled(r) ==
  {d \in Deliveries : /\ delivery[d].status = "DELIVERED"
                      /\ delivery[d].driver = r
                      /\ delivery[d].settlement = Nothing}

\* register-driver-settlement: what the driver has delivered and not settled, read
\* without a lock.
SettleRead(w, t, r) ==
  /\ Unclaimed(t) /\ settlement[t].status = "none"
  /\ Unsettled(r) # {}
  /\ Begin(w, Command("settle", t, ReadOf(Unsettled(r)), Unsettled(r), {}))
  /\ UNCHANGED <<clock, road>>

SettleCommit(w) ==
  LET t == cmd[w].doc
      X == cmd[w].picked
  IN
  /\ cmd[w].op = "settle"
  /\ \E handed \in 0..MaxHanded :
       LET variance == handed - Cardinality(X \cap CashOnDelivery) IN
       /\ settlement' = [settlement EXCEPT ![t] =
            [status |-> IF Within(variance, Accepted) THEN "NONE" ELSE "PENDING_REVIEW",
             orders |-> X, variance |-> variance]]
       /\ Book(t, variance)
  /\ SaveOver(w, [d \in Deliveries |-> [cmd[w].read[d] EXCEPT !.settlement = t]])
  /\ End(w)
  /\ UNCHANGED round

\* review-driver-settlement: whoever decides last, the journal has it already.
ReviewSettlement(t) ==
  /\ settlement[t].status = "PENDING_REVIEW"
  /\ settlement' = [settlement EXCEPT ![t].status = "REVIEWED"]
  /\ AtOnce /\ UNCHANGED <<clock, delivery, round, raced>>

\* check-in-driver: one active round of a driver, by the check and the unique index.
CheckIn(k, r) ==
  /\ k \in live /\ round[k].status = "none"
  /\ \A other \in Rounds : ~(round[other].status = "ACTIVE" /\ round[other].driver = r)
  /\ Tick
  /\ round' = [round EXCEPT ![k] =
       [status |-> "ACTIVE", driver |-> r, from |-> clock', counted |-> {}, pay |-> 0]]
  /\ AtOnce /\ UNCHANGED <<delivery, settlement, raced>>

\* check-out-driver locks the round; the bonus is for what is delivered by now and
\* was delivered since the check-in.
CheckOutRead(w, k) ==
  /\ round[k].status = "ACTIVE"
  /\ Begin(w, Command("checkout", k, Nothing,
       {d \in Deliveries : /\ delivery[d].status = "DELIVERED"
                           /\ delivery[d].driver = round[k].driver
                           /\ delivery[d].at >= round[k].from}, {k}))
  /\ UNCHANGED <<clock, road>>

CheckOutCommit(w) ==
  LET k == cmd[w].doc IN
  /\ cmd[w].op = "checkout"
  /\ \E wage \in 0..MaxWage :
       LET pay == wage + Cardinality(cmd[w].picked) IN
       /\ round' = [round EXCEPT ![k].status = "CLOSED",
                                 ![k].counted = cmd[w].picked,
                                 ![k].pay = pay]
       /\ Book(k, pay)
  /\ End(w)
  /\ UNCHANGED <<delivery, settlement, raced>>

DriverStep ==
  \/ \E d \in Deliveries, r \in Drivers : Assign(d, r)
  \/ \E t \in Settlements : ReviewSettlement(t)
  \/ \E k \in Rounds, r \in Drivers : CheckIn(k, r)
  \/ \E w \in Workers :
       \/ \E d \in Deliveries : StatusRead(w, d)
       \/ StatusCommit(w)
       \/ \E t \in Settlements, r \in Drivers : SettleRead(w, t, r)
       \/ SettleCommit(w)
       \/ \E k \in Rounds : CheckOutRead(w, k)
       \/ CheckOutCommit(w)

=============================================================================
