--------------------------- MODULE PaymentControl ---------------------------
(***************************************************************************)
(* Payments of orders, the requests to adjust them, the cash corrections   *)
(* that approvals post, and the cancellation of the order, which reverses  *)
(* them.  An adjustment locks its request, then the payment, and writes    *)
(* the order's row when the method changes; a cancellation locks the order *)
(* only.                                                                   *)
(*                                                                         *)
(* Commands that take one lock and commit under it are a single step.      *)
(***************************************************************************)
EXTENDS Integers, Functions

CONSTANTS Orders,          \* orders registered with a payment method
          Requests,        \* ids of adjustment requests
          Users,           \* those who request and decide
          High,            \* users with ADJUSTMENT_APPROVE_HIGH
          Workers,         \* approvals and cancellations served at a time
          Methods,         \* payment methods
          Class,           \* kind and settlement channel of a method
          NoMethod,        \* "keep the method, correct the amount"
          Total,           \* orders.total: [Orders -> Nat]
          Amounts,         \* amounts that requests propose
          Threshold,       \* paymentAdjustmentHighThresholdEgp
          Strict,          \* ACCOUNTING_ENFORCEMENT=strict
          NoOrder, NoRequest, NoUser

ASSUME PaymentAssumption ==
  /\ High \subseteq Users
  /\ NoMethod \notin Methods
  /\ Total \in [Orders -> Nat]
  /\ Amounts \subseteq Int
  /\ Threshold \in Nat
  /\ Strict \in BOOLEAN
  /\ NoOrder \notin Orders
  /\ NoRequest \notin Requests
  /\ NoUser \notin Users

VARIABLES
  order,       \* absent, open, or cancelled once OrderCancelled is published
  orderMethod, \* orders.payment_method_id
  payment,     \* the payment of an order, one by unique index
  request,     \* payment_adjustment_requests
  correction,  \* journal with source payment_adjustment and the request's id
  chartReady,  \* accounts 1100 and 6950 exist
  cmd          \* the command each worker is running

vars == <<order, orderMethod, payment, request, correction, chartReady, cmd>>

Payment == [method : Methods \cup {NoMethod}, amount : Int]

NoPayment == [method |-> NoMethod, amount |-> 0]

Request == [status : {"absent", "PENDING", "APPROVED", "REJECTED"},
            by     : Users \cup {NoUser},
            order  : Orders \cup {NoOrder},
            method : Methods \cup {NoMethod},
            amount : Int,
            delta  : Int,
            previous : Payment]

NoSuchRequest == [status |-> "absent", by |-> NoUser, order |-> NoOrder,
                  method |-> NoMethod, amount |-> 0, delta |-> 0, previous |-> NoPayment]

Command == [op      : {"none", "approve", "cancel"},
            stage   : {"idle", "issued", "locked", "read"},
            order   : Orders \cup {NoOrder},
            request : Requests \cup {NoRequest},
            user    : Users \cup {NoUser},
            before  : Payment,              \* the payment as loaded
            seen    : SUBSET Requests]      \* approved requests as selected

Idle == [op |-> "none", stage |-> "idle", order |-> NoOrder, request |-> NoRequest,
         user |-> NoUser, before |-> NoPayment, seen |-> {}]

TypeOK ==
  /\ order \in [Orders -> {"absent", "open", "cancelled"}]
  /\ orderMethod \in [Orders -> Methods \cup {NoMethod}]
  /\ payment \in [Orders -> Payment]
  /\ request \in [Requests -> Request]
  /\ correction \in [Requests -> {"none", "POSTED", "REVERSED"}]
  /\ chartReady \in BOOLEAN
  /\ cmd \in [Workers -> Command]

Init ==
  /\ order = [o \in Orders |-> "absent"]
  /\ orderMethod = [o \in Orders |-> NoMethod]
  /\ payment = [o \in Orders |-> NoPayment]
  /\ request = [r \in Requests |-> NoSuchRequest]
  /\ correction = [r \in Requests |-> "none"]
  /\ chartReady \in BOOLEAN
  /\ cmd = [w \in Workers |-> Idle]

\* The request once it was decided; an approval keeps the payment it replaces.
Decided(q, status, previous) ==
  [status |-> status, by |-> q.by, order |-> q.order, method |-> q.method,
   amount |-> q.amount, delta |-> q.delta, previous |-> previous]

Abs(n) == IF n < 0 THEN -n ELSE n

Registered == {r \in Requests : request[r].status # "absent"}

Approved(o) == {r \in Requests : request[r].status = "APPROVED" /\ request[r].order = o}

At(w, op, stage) == cmd[w].op = op /\ cmd[w].stage = stage

Issued(op, o, r, u) ==
  [op |-> op, stage |-> "issued", order |-> o, request |-> r, user |-> u,
   before |-> NoPayment, seen |-> {}]

\* The command after its next statement, with what it has read so far.
Advanced(m, stage, before, seen) ==
  [op |-> m.op, stage |-> stage, order |-> m.order, request |-> m.request,
   user |-> m.user, before |-> before, seen |-> seen]

Advance(w, stage, before, seen) ==
  cmd' = [cmd EXCEPT ![w] = Advanced(cmd[w], stage, before, seen)]

End(w) == cmd' = [cmd EXCEPT ![w] = Idle]

-----------------------------------------------------------------------------
(* Row locks, held until the commit.                                        *)

HoldsRequest(w, r) == cmd[w].op = "approve" /\ cmd[w].stage \in {"locked", "read"} /\ cmd[w].request = r

\* Mutant of RequestFree: the approval does not lock its request.
RequestNeverLocked(r) == TRUE

RequestFree(r) == \A v \in Workers : ~HoldsRequest(v, r)

HoldsPayment(w, o) == At(w, "approve", "read") /\ cmd[w].order = o

\* Mutant of PaymentFree: the approval locks its request only.
PaymentNeverLocked(o) == TRUE

PaymentFree(o) == \A v \in Workers : ~HoldsPayment(v, o)

HoldsOrder(w, o) == cmd[w].op = "cancel" /\ cmd[w].stage \in {"locked", "read"} /\ cmd[w].order = o

OrderFree(o) == \A v \in Workers : ~HoldsOrder(v, o)

-----------------------------------------------------------------------------
(* POST /orders with a payment method: LockPaymentForOrderHandler runs in   *)
(* the registration's transaction.                                          *)

PlaceOrder(o, m) ==
  /\ order[o] = "absent"
  /\ order' = [order EXCEPT ![o] = "open"]
  /\ orderMethod' = [orderMethod EXCEPT ![o] = m]
  /\ payment' = [payment EXCEPT ![o] = [method |-> m, amount |-> Total[o]]]
  /\ UNCHANGED <<request, correction, chartReady, cmd>>

\* RegisterAccountHandler, until both accounts exist.
RegisterAccounts ==
  /\ ~chartReady
  /\ chartReady' = TRUE
  /\ UNCHANGED <<order, orderMethod, payment, request, correction, cmd>>

-----------------------------------------------------------------------------
(* POST /payment-control/adjustment-requests and .../reject.                *)

\* Nothing is asked about the order: its payment may be adjusted in any state.
RequestAdjustment(r, u, o, m, a) ==
  LET reclassified == m # NoMethod /\ Class[m] # Class[payment[o].method] IN
  /\ request[r].status = "absent"
  /\ order[o] # "absent"
  /\ request' = [request EXCEPT ![r] =
       [status |-> "PENDING", by |-> u, order |-> o, method |-> m, amount |-> a,
        delta |-> IF reclassified THEN a ELSE Abs(a - payment[o].amount),
        previous |-> NoPayment]]
  /\ UNCHANGED <<order, orderMethod, payment, correction, chartReady, cmd>>

Reject(r) ==
  /\ RequestFree(r)
  /\ request[r].status = "PENDING"
  /\ request' = [request EXCEPT ![r] = Decided(@, "REJECTED", NoPayment)]
  /\ UNCHANGED <<order, orderMethod, payment, correction, chartReady, cmd>>

-----------------------------------------------------------------------------
(* .../approve: ApprovePaymentAdjustmentHandler.                            *)

\* Requests that were decided already may be named too.
SubmitApprove(w) ==
  \E r \in Registered, u \in Users :
    /\ cmd[w].stage = "idle"
    /\ cmd' = [cmd EXCEPT ![w] = Issued("approve", request[r].order, r, u)]
    /\ UNCHANGED <<order, orderMethod, payment, request, correction, chartReady>>

\* lockRow on the request, segregation of duties, approval level.
ApproveLock(w) ==
  LET c == cmd[w] IN
  /\ At(w, "approve", "issued")
  /\ RequestFree(c.request)
  /\ IF \/ request[c.request].by = c.user
        \/ request[c.request].delta >= Threshold /\ c.user \notin High
     THEN End(w)
     ELSE Advance(w, "locked", NoPayment, {})
  /\ UNCHANGED <<order, orderMethod, payment, request, correction, chartReady>>

\* lockRow on the payment, read it, request.approve.
ApproveRead(w) ==
  LET c == cmd[w] IN
  /\ At(w, "approve", "locked")
  /\ PaymentFree(c.order)
  /\ IF request[c.request].status # "PENDING"             \* AlreadyDecided
     THEN End(w)
     ELSE Advance(w, "read", payment[c.order], {})
  /\ UNCHANGED <<order, orderMethod, payment, request, correction, chartReady>>

\* The payment after the adjustment.
Adjusted(w) ==
  LET q == request[cmd[w].request] IN
  [method |-> IF q.method = NoMethod THEN cmd[w].before.method ELSE q.method,
   amount |-> q.amount]

ChangesAmount(w) == Adjusted(w).amount # cmd[w].before.amount
ChangesMethod(w) == Adjusted(w).method # cmd[w].before.method

\* Both saves and the two subscribers of PaymentAdjustmentApproved; the order's
\* row is written, hence waited for, only when the method changes.
ApproveCommit(w) ==
  LET c == cmd[w] IN
  /\ At(w, "approve", "read")
  /\ ChangesMethod(w) => OrderFree(c.order)
  /\ Strict /\ ChangesAmount(w) => chartReady
  /\ payment' = [payment EXCEPT ![c.order] = Adjusted(w)]
  /\ request' = [request EXCEPT ![c.request] = Decided(@, "APPROVED", c.before)]
  /\ orderMethod' = IF ChangesMethod(w)
                    THEN [orderMethod EXCEPT ![c.order] = Adjusted(w).method]
                    ELSE orderMethod
  /\ correction' = IF ChangesAmount(w) /\ chartReady
                   THEN [correction EXCEPT ![c.request] = "POSTED"]
                   ELSE correction
  /\ End(w)
  /\ UNCHANGED <<order, chartReady>>

\* AccountingNotConfigured: everything is rolled back.
ApproveRefuse(w) ==
  /\ At(w, "approve", "read")
  /\ Strict /\ ChangesAmount(w) /\ ~chartReady
  /\ End(w)
  /\ UNCHANGED <<order, orderMethod, payment, request, correction, chartReady>>

-----------------------------------------------------------------------------
(* PATCH /orders/:id/cancel, seen from the payment's corrections.           *)

SubmitCancel(w) ==
  \E o \in Orders :
    /\ cmd[w].stage = "idle"
    /\ order[o] # "absent"
    /\ cmd' = [cmd EXCEPT ![w] = Issued("cancel", o, NoRequest, NoUser)]
    /\ UNCHANGED <<order, orderMethod, payment, request, correction, chartReady>>

CancelLock(w) ==
  LET c == cmd[w] IN
  /\ At(w, "cancel", "issued")
  /\ OrderFree(c.order)
  /\ IF order[c.order] = "cancelled"                      \* OrderAlreadyFinalized
     THEN End(w)
     ELSE Advance(w, "locked", NoPayment, {})
  /\ UNCHANGED <<order, orderMethod, payment, request, correction, chartReady>>

\* Mutant of CancelSelect: the payment is locked before its requests are
\* selected, in the opposite order to an approval.
CancelSelectLocked(w) ==
  /\ At(w, "cancel", "locked")
  /\ PaymentFree(cmd[w].order)
  /\ Advance(w, "read", NoPayment, Approved(cmd[w].order))
  /\ UNCHANGED <<order, orderMethod, payment, request, correction, chartReady>>

\* SELECT of the approved requests, without a lock on them or on the payment.
CancelSelect(w) ==
  /\ At(w, "cancel", "locked")
  /\ Advance(w, "read", NoPayment, Approved(cmd[w].order))
  /\ UNCHANGED <<order, orderMethod, payment, request, correction, chartReady>>

Reversed(j) == IF j = "POSTED" THEN "REVERSED" ELSE j

\* reverseBySource for each selected request.
CancelCommit(w) ==
  LET c == cmd[w] IN
  /\ At(w, "cancel", "read")
  /\ order' = [order EXCEPT ![c.order] = "cancelled"]
  /\ correction' = [r \in Requests |->
       IF r \in c.seen THEN Reversed(correction[r]) ELSE correction[r]]
  /\ End(w)
  /\ UNCHANGED <<orderMethod, payment, request, chartReady>>

-----------------------------------------------------------------------------
(* POST /accounting/repair/journals, kind payment_adjustment.               *)

\* A gap of the journal coverage report.
Gap(r) ==
  /\ request[r].status = "APPROVED"
  /\ request[r].amount # request[r].previous.amount
  /\ correction[r] = "none"

\* A listed gap that was filled in the meantime is left alone by postOnce, and
\* one that meets an incomplete chart of accounts stays a gap: neither is a step.
Repair(r) ==
  /\ RequestFree(r)
  /\ Gap(r)
  /\ chartReady
  /\ correction' = [correction EXCEPT ![r] = "POSTED"]
  /\ UNCHANGED <<order, orderMethod, payment, request, chartReady, cmd>>

\* A failure before the commit undoes everything the command wrote.
Rollback(w) ==
  /\ cmd[w].stage \in {"locked", "read"}
  /\ End(w)
  /\ UNCHANGED <<order, orderMethod, payment, request, correction, chartReady>>

Step(w) ==
  \/ ApproveLock(w) \/ ApproveRead(w) \/ ApproveCommit(w) \/ ApproveRefuse(w)
  \/ CancelLock(w) \/ CancelSelect(w) \/ CancelCommit(w)

Next ==
  \/ \E w \in Workers : SubmitApprove(w) \/ SubmitCancel(w) \/ Step(w) \/ Rollback(w)
  \/ \E o \in Orders, m \in Methods : PlaceOrder(o, m)
  \/ \E r \in Requests, u \in Users, o \in Orders, m \in Methods \cup {NoMethod}, a \in Amounts :
       RequestAdjustment(r, u, o, m, a)
  \/ \E r \in Requests : Reject(r) \/ Repair(r)
  \/ RegisterAccounts

Spec == Init /\ [][Next]_vars

\* A command that has reached the server is carried on until it is answered,
\* and PostgreSQL grants a lock in the order of the waiters.
Fairness == \A w \in Workers : SF_vars(Step(w))

FairSpec == Spec /\ Fairness

-----------------------------------------------------------------------------
(* Properties.                                                              *)

\* What an approved request changed of the amount.
Difference == [r \in Requests |-> request[r].amount - request[r].previous.amount]

Corrected(o) == SumFunctionOnSet(Difference, {r \in Approved(o) : correction[r] = "POSTED"})

\* BL-06: each approval covers the difference it made, so whatever approvals
\* interleave on one payment, once no gap is left the sale's total and the
\* corrections in force add up to the amount the payment records.
CorrectionsMatchPayment ==
  \A o \in Orders :
    order[o] = "open" /\ (\A r \in Approved(o) : ~Gap(r))
      => Total[o] + Corrected(o) = payment[o].amount

\* BL-06, SyncOrderPaymentMethodHandler: the order never names another payment
\* method than its payment does, although it is updated only when the approval
\* believes to have changed the method.
OrderNamesPaidMethod == \A o \in Orders : orderMethod[o] = payment[o].method

\* A decision is taken once: no approval, rejection or failure that comes later
\* changes the status of a decided request or the evidence of what it replaced.
DecidedForGood ==
  [][\A r \in Requests :
       request[r].status \in {"APPROVED", "REJECTED"} => request'[r] = request[r]]_vars

\* Approvals that wait for the order and cancellations that hold it never wait
\* for each other in a circle, and every command is answered.
EveryCommandEnds == \A w \in Workers : cmd[w].stage # "idle" ~> cmd[w].stage = "idle"

\* PostOrderCancellationJournalEntryHandler: the corrections of approved
\* adjustments are reversed together with the sale.  An approval or a repair
\* that commits after the cancellation has selected them posts one that stays.
CancelledKeepsNoCorrection ==
  \A r \in Requests :
    correction[r] = "POSTED" => order[request[r].order] # "cancelled"

=============================================================================
