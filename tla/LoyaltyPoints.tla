---------------------------- MODULE LoyaltyPoints ----------------------------
(***************************************************************************)
(* The points of customers: the ledger, the balance on the customer's row, *)
(* and the commands that move points.  A website order spends points in    *)
(* its own transaction; points are earned and given back in transactions   *)
(* of their own, after the commit of the command that caused them; when    *)
(* they fail, nothing repeats them.                                        *)
(*                                                                         *)
(* An order is named by its clientRequestId, and every order asks for a    *)
(* reward: the others do less.  What registration and cancellation do      *)
(* besides is the subject of OrderLifecycle.                               *)
(***************************************************************************)
EXTENDS Integers, Functions

CONSTANTS Orders,     \* website orders placed with a reward
          Customers,
          Owner,      \* the customer of an order: [Orders -> Customers]
          Earned,     \* pointsEarnedFor the order's total: [Orders -> Nat]
          Cost,       \* the reward's points_cost
          Opening,    \* imported balance: [Customers -> Nat]
          Workers,    \* requests served at a time
          NoOrder

ASSUME LoyaltyAssumption ==
  /\ Owner \in [Orders -> Customers]
  /\ Earned \in [Orders -> Nat]
  /\ Cost \in Nat
  /\ Opening \in [Customers -> Nat]
  /\ NoOrder \notin Orders

VARIABLES
  order,    \* absent, open, completed, cancelled
  ledger,   \* loyalty_transactions, one per order and kind
  balance,  \* customers.loyalty_points
  lost,     \* orders whose settlement was cut off (history)
  cmd       \* the request each worker serves

vars == <<order, ledger, balance, lost, cmd>>

\* orders.status; "open" are the statuses before the final ones.
Statuses == {"absent", "open", "completed", "cancelled"}

Final == {"completed", "cancelled"}

Kinds == {"earn", "redeem", "reverse_earn", "refund_redeem"}

Reversible == {"earn", "redeem"}

\* settleCancelledOrder: reversals.
Reversal == [k \in Reversible |-> IF k = "earn" THEN "reverse_earn" ELSE "refund_redeem"]

Command == [op     : {"none", "place", "status", "resave", "cancel"},
            stage  : {"idle", "prepared", "reserved", "read", "locked",
                      "award", "settle", "settling"},
            order  : Orders \cup {NoOrder},
            target : Statuses,                \* the status to write
            fresh  : BOOLEAN,                 \* the reservation is this request's
            due    : SUBSET Reversible]       \* rows found without a reversal

Idle == [op |-> "none", stage |-> "idle", order |-> NoOrder, target |-> "absent",
         fresh |-> FALSE, due |-> {}]

TypeOK ==
  /\ order \in [Orders -> Statuses]
  /\ ledger \subseteq Orders \X Kinds
  /\ balance \in [Customers -> Nat]
  /\ lost \subseteq Orders
  /\ cmd \in [Workers -> Command]

Init ==
  /\ order = [o \in Orders |-> "absent"]
  /\ ledger = {}
  /\ balance = Opening
  /\ lost = {}
  /\ cmd = [w \in Workers |-> Idle]

Placed == {o \in Orders : order[o] # "absent"}

At(w, op, stage) == cmd[w].op = op /\ cmd[w].stage = stage

\* A request that its first read would refuse ends without a trace, so none is begun.
Begin(w, op, stage, o, target) ==
  cmd' = [cmd EXCEPT ![w] = [op |-> op, stage |-> stage, order |-> o, target |-> target,
                             fresh |-> FALSE, due |-> {}]]

\* The command after its next statement.
Advanced(m, stage, fresh, due) ==
  [op |-> m.op, stage |-> stage, order |-> m.order, target |-> m.target,
   fresh |-> fresh, due |-> due]

Advance(w, stage, fresh, due) ==
  cmd' = [cmd EXCEPT ![w] = Advanced(cmd[w], stage, fresh, due)]

End(w) == cmd' = [cmd EXCEPT ![w] = Idle]

-----------------------------------------------------------------------------
(* Row locks, held until the commit.  The transactions after the commit     *)
(* take the customer's lock and release it in one step.                     *)

HoldsCustomer(w, c) == At(w, "place", "reserved") /\ Owner[cmd[w].order] = c

CustomerFree(c) == \A v \in Workers : ~HoldsCustomer(v, c)

HoldsOrder(w, o) == At(w, "cancel", "locked") /\ cmd[w].order = o

OrderFree(o) == \A v \in Workers : ~HoldsOrder(v, o)

-----------------------------------------------------------------------------
(* Points: every movement is a row and an update of the balance.            *)

PointsOf(o, kind) ==
  CASE kind = "earn"          -> Earned[o]
    [] kind = "redeem"        -> 0 - Cost
    [] kind = "reverse_earn"  -> 0 - Earned[o]
    [] kind = "refund_redeem" -> Cost

\* addPoints: GREATEST(loyalty_points + delta, 0).
Floored(n) == IF n < 0 THEN 0 ELSE n

Move(o, kind) ==
  /\ ledger' = ledger \cup {<<o, kind>>}
  /\ balance' = [balance EXCEPT ![Owner[o]] = Floored(balance[Owner[o]] + PointsOf(o, kind))]

NoMove == UNCHANGED <<ledger, balance>>

-----------------------------------------------------------------------------
(* POST /storefront/orders with a reward, one transaction.                  *)

\* The order of this clientRequestId is returned if there is one; prepare reads
\* the balance without a lock.
PlacePrepare(w, o) ==
  /\ cmd[w].stage = "idle"
  /\ order[o] = "absent"
  /\ balance[Owner[o]] >= Cost
  /\ Begin(w, "place", "prepared", o, "absent")
  /\ UNCHANGED <<order, ledger, balance, lost>>

\* Mutant of PlaceReserve: the balance that prepare read is trusted.
PlaceReserveUnchecked(w) ==
  LET o == cmd[w].order IN
  /\ At(w, "place", "prepared")
  /\ CustomerFree(Owner[o])
  /\ Advance(w, "reserved", <<o, "redeem">> \notin ledger, {})
  /\ UNCHANGED <<order, ledger, balance, lost>>

\* reserveRedemption: lock the customer, then the request's row, then the balance.
PlaceReserve(w) ==
  LET o == cmd[w].order
      fresh == <<o, "redeem">> \notin ledger IN
  /\ At(w, "place", "prepared")
  /\ CustomerFree(Owner[o])
  /\ IF fresh /\ balance[Owner[o]] < Cost              \* InsufficientLoyaltyPoints
     THEN End(w)
     ELSE Advance(w, "reserved", fresh, {})
  /\ UNCHANGED <<order, ledger, balance, lost>>

\* registerOrder, which answers with the order that exists, attach, and commit.
PlaceCommit(w) ==
  LET o == cmd[w].order IN
  /\ At(w, "place", "reserved")
  /\ order' = IF order[o] = "absent" THEN [order EXCEPT ![o] = "open"] ELSE order
  /\ IF cmd[w].fresh THEN Move(o, "redeem") ELSE NoMove
  /\ End(w)
  /\ UNCHANGED lost

\* Mutant of PlaceFail: the reservation outlives the registration that failed.
PlaceFailKept(w) ==
  /\ At(w, "place", "reserved")
  /\ IF cmd[w].fresh THEN Move(cmd[w].order, "redeem") ELSE NoMove
  /\ End(w)
  /\ UNCHANGED <<order, lost>>

\* registerOrder throws: the reservation is released, if it is still without an
\* order, and the error rolls the request back.
PlaceFail(w) ==
  /\ At(w, "place", "reserved")
  /\ End(w)
  /\ UNCHANGED <<order, ledger, balance, lost>>

-----------------------------------------------------------------------------
(* PATCH /orders/:id/status and .../kitchen-status: the row is loaded without *)
(* a lock and written back whole.                                           *)

StatusRead(w, o, t) ==
  /\ cmd[w].stage = "idle"
  /\ order[o] \notin Final                                \* OrderAlreadyFinalized
  /\ Begin(w, "status", "read", o, t)
  /\ UNCHANGED <<order, ledger, balance, lost>>

\* A kitchen status, or no status at all: the status that was read is kept.
ResaveRead(w, o) ==
  /\ cmd[w].stage = "idle"
  /\ Begin(w, "resave", "read", o, order[o])
  /\ UNCHANGED <<order, ledger, balance, lost>>

\* The save commits; OrderStatusChanged, if the status changed, is delivered then.
SaveRow(w) ==
  LET m == cmd[w] IN
  /\ At(w, "status", "read") \/ At(w, "resave", "read")
  /\ OrderFree(m.order)
  /\ order' = [order EXCEPT ![m.order] = m.target]
  /\ IF m.op = "status" /\ m.target = "completed" THEN Advance(w, "award", FALSE, {}) ELSE End(w)
  /\ UNCHANGED <<ledger, balance, lost>>

\* earnForOrder, for an order that was completed whatever became of it since.
AwardEarn(w) ==
  LET o == cmd[w].order IN
  /\ At(w, "status", "award")
  /\ CustomerFree(Owner[o])
  /\ IF <<o, "earn">> \in ledger THEN NoMove ELSE Move(o, "earn")
  /\ End(w)
  /\ UNCHANGED <<order, lost>>

-----------------------------------------------------------------------------
(* PATCH /orders/:id/cancel.                                                *)

CancelLock(w, o) ==
  /\ cmd[w].stage = "idle"
  /\ OrderFree(o)
  /\ order[o] \notin Final                                \* OrderAlreadyFinalized
  /\ Begin(w, "cancel", "locked", o, "cancelled")
  /\ UNCHANGED <<order, ledger, balance, lost>>

CancelCommit(w) ==
  /\ At(w, "cancel", "locked")
  /\ order' = [order EXCEPT ![cmd[w].order] = "cancelled"]
  /\ Advance(w, "settle", FALSE, {})
  /\ UNCHANGED <<ledger, balance, lost>>

\* The kinds of the order's rows that have no reversal yet.
Unsettled(o) ==
  {k \in Reversible : <<o, k>> \in ledger /\ <<o, Reversal[k]>> \notin ledger}

\* Mutant of SettleRead: an order that is no longer cancelled is left alone.
SettleReadIfCancelled(w) ==
  LET o == cmd[w].order
      due == IF order[o] = "cancelled" THEN Unsettled(o) ELSE {} IN
  /\ At(w, "cancel", "settle")
  /\ IF due = {} THEN End(w) ELSE Advance(w, "settling", FALSE, due)
  /\ UNCHANGED <<order, ledger, balance, lost>>

\* settleCancelledOrder selects the order's rows.
SettleRead(w) ==
  LET due == Unsettled(cmd[w].order) IN
  /\ At(w, "cancel", "settle")
  /\ IF due = {} THEN End(w) ELSE Advance(w, "settling", FALSE, due)
  /\ UNCHANGED <<order, ledger, balance, lost>>

\* Mutant of SettleRow: the first row that is dealt with ends the loop.
SettleRowOnce(w) ==
  \E k \in cmd[w].due :
    LET o == cmd[w].order IN
    /\ At(w, "cancel", "settling")
    /\ CustomerFree(Owner[o])
    /\ IF <<o, Reversal[k]>> \in ledger THEN NoMove ELSE Move(o, Reversal[k])
    /\ End(w)
    /\ UNCHANGED <<order, lost>>

\* One transaction per row, in no particular order.
SettleRow(w) ==
  \E k \in cmd[w].due :
    LET o == cmd[w].order
        rest == cmd[w].due \ {k} IN
    /\ At(w, "cancel", "settling")
    /\ CustomerFree(Owner[o])
    /\ IF <<o, Reversal[k]>> \in ledger THEN NoMove ELSE Move(o, Reversal[k])
    /\ IF rest = {} THEN End(w) ELSE Advance(w, "settling", FALSE, rest)
    /\ UNCHANGED <<order, lost>>

-----------------------------------------------------------------------------
(* Failures.                                                                *)

Settles(w) == At(w, "cancel", "settle") \/ At(w, "cancel", "settling")

\* Before the commit nothing remains; a subscriber that fails after it is logged
\* and forgotten, and so is one that the process does not live to run.
Fail(w) ==
  /\ cmd[w].stage # "idle"
  /\ lost' = IF Settles(w) THEN lost \cup {cmd[w].order} ELSE lost
  /\ End(w)
  /\ UNCHANGED <<order, ledger, balance>>

\* The server restarts.
Crash ==
  /\ \E w \in Workers : cmd[w].stage # "idle"
  /\ lost' = lost \cup {cmd[w].order : w \in {v \in Workers : Settles(v)}}
  /\ cmd' = [w \in Workers |-> Idle]
  /\ UNCHANGED <<order, ledger, balance>>

Step(w) ==
  \/ PlaceReserve(w) \/ PlaceCommit(w) \/ PlaceFail(w)
  \/ SaveRow(w) \/ AwardEarn(w)
  \/ CancelCommit(w) \/ SettleRead(w) \/ SettleRow(w)

Request(w) ==
  \/ \E o \in Orders : PlacePrepare(w, o)
  \/ \E o \in Placed :
       \/ \E t \in {"open", "completed"} : StatusRead(w, o, t)
       \/ ResaveRead(w, o)
       \/ CancelLock(w, o)

Next ==
  \/ \E w \in Workers : Request(w) \/ Step(w) \/ Fail(w)
  \/ Crash

Spec == Init /\ [][Next]_vars

\* A request that has reached the server is carried on, its after-commit work
\* included, and PostgreSQL grants a lock in the order of the waiters.
Fairness == \A w \in Workers : SF_vars(Step(w))

FairSpec == Spec /\ Fairness

-----------------------------------------------------------------------------
(* Properties.                                                              *)

Points == [r \in Orders \X Kinds |-> PointsOf(r[1], r[2])]

RowsOf(c) == {r \in ledger : Owner[r[1]] = c}

Movements(c) == SumFunctionOnSet(Points, RowsOf(c))

\* loyalty-ledger.port.ts: the balance of a customer is the imported one and the
\* sum of the movements since, whatever orders of the customer are placed,
\* completed and cancelled at the same time.  Points that were earned are only
\* taken back as far as they are still there, so a customer of whom some were
\* taken back is excepted.
BalanceIsLedger ==
  \A c \in Customers :
    (\A o \in Orders : Owner[o] = c => <<o, "reverse_earn">> \notin ledger)
      => balance[c] = Opening[c] + Movements(c)

\* InsufficientLoyaltyPointsError: points are spent only where they are, although
\* the registration of the order lies between the check and the commit: two
\* orders, or two devices of a customer, never spend the same points.
SpendsWhatIsThere ==
  [][\A o \in Orders :
       <<o, "redeem">> \in ledger' \ ledger => balance[Owner[o]] >= Cost]_vars

\* LoyaltyRedemptionService: points are spent for an order that was placed with
\* a reward, and for no other: neither a registration that failed after the
\* reservation nor the same order sent twice at a time costs points.
SpentWithTheOrder ==
  \A o \in Orders : <<o, "redeem">> \in ledger <=> order[o] # "absent"

SettlingOf(o) ==
  \E w \in Workers :
    /\ cmd[w].order = o
    /\ At(w, "cancel", "settle") \/ (At(w, "cancel", "settling") /\ "redeem" \in cmd[w].due)

\* settleCancelledOrder: once a cancelled order is settled its points have been
\* given back, unless the process stopped or the subscriber failed in between,
\* even when a stale save revived it and it was completed and cancelled again.
CancelledIsRefunded ==
  \A o \in Orders :
    order[o] = "cancelled" /\ o \notin lost /\ ~SettlingOf(o)
      => <<o, "refund_redeem">> \in ledger

\* The same, as a promise: the points of a cancelled order come back, unless
\* the work after the commit is lost.
RefundArrives ==
  \A o \in Orders :
    order[o] = "cancelled" ~> (<<o, "refund_redeem">> \in ledger \/ o \in lost)

=============================================================================
