------------------------ MODULE PaymentControlProofs ------------------------
(***************************************************************************)
(* What holds of PaymentControl for any orders, requests, users, methods,  *)
(* amounts, number of workers and accounting mode.                         *)
(***************************************************************************)
EXTENDS PaymentControl, FiniteSums, TLAPS

\* A registered request belongs to an order that was placed, and a command names
\* what it works on.
NamesRows ==
  /\ \A r \in Registered : request[r].order \in Orders /\ order[request[r].order] # "absent"
  /\ \A w \in Workers :
       /\ cmd[w].op = "approve" =>
            cmd[w].request \in Registered /\ cmd[w].order = request[cmd[w].request].order
       /\ cmd[w].op = "cancel" => cmd[w].order \in Orders /\ order[cmd[w].order] # "absent"

\* One approval at a time has a request locked, and one has a payment locked.
LocksExclusive ==
  /\ \A v, w \in Workers, r \in Requests : HoldsRequest(v, r) /\ HoldsRequest(w, r) => v = w
  /\ \A v, w \in Workers, o \in Orders : HoldsPayment(v, o) /\ HoldsPayment(w, o) => v = w

\* What an approval has read under its two locks is still true.
ApprovalSeesRows ==
  \A w \in Workers :
    At(w, "approve", "read") =>
      /\ cmd[w].before = payment[cmd[w].order]
      /\ request[cmd[w].request].status = "PENDING"

IInv ==
  /\ TypeOK
  /\ NamesRows
  /\ LocksExclusive
  /\ ApprovalSeesRows
  /\ OrderNamesPaidMethod

-----------------------------------------------------------------------------
(* Types of the values that steps write.                                    *)

LEMMA UpdateType ==
  ASSUME NEW S, NEW T, NEW f \in [S -> T], NEW x, NEW y \in T
  PROVE  [f EXCEPT ![x] = y] \in [S -> T]
  OBVIOUS

LEMMA UpdateValue ==
  ASSUME NEW S, NEW T, NEW f \in [S -> T], NEW x \in S, NEW y
  PROVE  /\ [f EXCEPT ![x] = y][x] = y
         /\ \A z \in S \ {x} : [f EXCEPT ![x] = y][z] = f[z]
  OBVIOUS

LEMMA NoPaymentType == NoPayment \in Payment
  BY SMT DEF NoPayment, Payment

LEMMA IdleType == Idle \in Command
  BY NoPaymentType, SMT DEF Idle, Command

LEMMA CommandFields ==
  ASSUME NEW m \in Command
  PROVE  /\ m.op \in {"none", "approve", "cancel"}
         /\ m.order \in Orders \cup {NoOrder}
         /\ m.request \in Requests \cup {NoRequest}
         /\ m.user \in Users \cup {NoUser}
         /\ m.before \in Payment
  BY SMT DEF Command

LEMMA RequestFields ==
  ASSUME NEW q \in Request
  PROVE  /\ q.by \in Users \cup {NoUser}
         /\ q.order \in Orders \cup {NoOrder}
         /\ q.method \in Methods \cup {NoMethod}
         /\ q.amount \in Int
         /\ q.delta \in Int
         /\ q.previous \in Payment
  BY SMT DEF Request

LEMMA PaymentFields ==
  ASSUME NEW p \in Payment
  PROVE  p.method \in Methods \cup {NoMethod} /\ p.amount \in Int
  BY SMT DEF Payment

LEMMA IssuedType ==
  ASSUME NEW op \in {"approve", "cancel"}, NEW o \in Orders,
         NEW r \in Requests \cup {NoRequest}, NEW u \in Users \cup {NoUser}
  PROVE  Issued(op, o, r, u) \in Command
  BY NoPaymentType, SMT DEF Issued, Command

LEMMA AdvancedType ==
  ASSUME NEW m \in Command, NEW st \in {"locked", "read"}, NEW p \in Payment,
         NEW seen \in SUBSET Requests
  PROVE  Advanced(m, st, p, seen) \in Command
  BY CommandFields, SMT DEF Advanced, Command

LEMMA DecidedType ==
  ASSUME NEW q \in Request, NEW st \in {"APPROVED", "REJECTED"}, NEW p \in Payment
  PROVE  Decided(q, st, p) \in Request
  BY RequestFields, SMT DEF Decided, Request

LEMMA AdjustedType ==
  ASSUME TypeOK, NEW w \in Workers, cmd[w].request \in Requests
  PROVE  Adjusted(w) \in Payment
  <1> DEFINE q == request[cmd[w].request]
  <1>1. q.method \in Methods \cup {NoMethod} /\ q.amount \in Int
    BY RequestFields DEF TypeOK
  <1>2. cmd[w].before.method \in Methods \cup {NoMethod}
    BY CommandFields, PaymentFields DEF TypeOK
  <1> QED BY <1>1, <1>2, SMT DEF Adjusted, Payment

-----------------------------------------------------------------------------
(* Steps that only move a command along.                                    *)

\* What a command may become: it names rows that exist, takes no lock that
\* another one has, and has read what the rows hold.
Sound(w, m) ==
  /\ m.op = "approve" => m.request \in Registered /\ m.order = request[m.request].order
  /\ m.op = "cancel" => m.order \in Orders /\ order[m.order] # "absent"
  /\ m.op = "approve" /\ m.stage \in {"locked", "read"} =>
       \A v \in Workers \ {w} : ~HoldsRequest(v, m.request)
  /\ m.op = "approve" /\ m.stage = "read" =>
       /\ \A v \in Workers \ {w} : ~HoldsPayment(v, m.order)
       /\ m.before = payment[m.order]
       /\ request[m.request].status = "PENDING"

LEMMA SoundMove ==
  ASSUME IInv, NEW w \in Workers, NEW m \in Command, Sound(w, m),
         cmd' = [cmd EXCEPT ![w] = m],
         UNCHANGED <<order, orderMethod, payment, request, correction, chartReady>>
  PROVE  IInv'
  <1>1. cmd \in [Workers -> Command]
    BY DEF IInv, TypeOK
  <1>2. cmd' \in [Workers -> Command]
    BY <1>1, UpdateType
  <1>3. cmd'[w] = m /\ \A v \in Workers \ {w} : cmd'[v] = cmd[v]
    BY <1>1, UpdateValue
  <1>4. TypeOK'
    BY <1>2 DEF IInv, TypeOK
  <1>5. NamesRows'
    BY <1>3 DEF IInv, NamesRows, Registered, Sound
  <1>6. LocksExclusive'
    <2>1. ASSUME NEW v \in Workers, NEW u \in Workers, NEW r \in Requests,
                 HoldsRequest(v, r)', HoldsRequest(u, r)'
          PROVE  v = u
      BY <1>3, <2>1 DEF IInv, LocksExclusive, HoldsRequest, Sound
    <2>2. ASSUME NEW v \in Workers, NEW u \in Workers, NEW o \in Orders,
                 HoldsPayment(v, o)', HoldsPayment(u, o)'
          PROVE  v = u
      BY <1>3, <2>2 DEF IInv, LocksExclusive, HoldsPayment, At, Sound
    <2> QED BY <2>1, <2>2 DEF LocksExclusive
  <1>7. ApprovalSeesRows'
    BY <1>3 DEF IInv, ApprovalSeesRows, At, Sound
  <1>8. OrderNamesPaidMethod'
    BY DEF IInv, OrderNamesPaidMethod
  <1> QED BY <1>4, <1>5, <1>6, <1>7, <1>8 DEF IInv

LEMMA EndInv ==
  ASSUME IInv, NEW w \in Workers, End(w),
         UNCHANGED <<order, orderMethod, payment, request, correction, chartReady>>
  PROVE  IInv'
  <1>1. Sound(w, Idle)
    BY DEF Sound, Idle
  <1> QED BY <1>1, IdleType, SoundMove DEF End

LEMMA SubmitInv ==
  ASSUME IInv, NEW w \in Workers, SubmitApprove(w) \/ SubmitCancel(w)
  PROVE  IInv'
  <1>1. CASE SubmitApprove(w)
    <2>1. PICK r \in Registered, u \in Users :
            /\ cmd' = [cmd EXCEPT ![w] = Issued("approve", request[r].order, r, u)]
            /\ UNCHANGED <<order, orderMethod, payment, request, correction, chartReady>>
      BY <1>1 DEF SubmitApprove
    <2> DEFINE m == Issued("approve", request[r].order, r, u)
    <2>2. m \in Command
      BY IssuedType DEF IInv, NamesRows, Registered
    <2>3. Sound(w, m)
      BY DEF Sound, Issued
    <2> QED BY <2>1, <2>2, <2>3, SoundMove
  <1>2. CASE SubmitCancel(w)
    <2>1. PICK o \in Orders :
            /\ order[o] # "absent"
            /\ cmd' = [cmd EXCEPT ![w] = Issued("cancel", o, NoRequest, NoUser)]
            /\ UNCHANGED <<order, orderMethod, payment, request, correction, chartReady>>
      BY <1>2 DEF SubmitCancel
    <2> DEFINE m == Issued("cancel", o, NoRequest, NoUser)
    <2>2. m \in Command
      BY IssuedType
    <2>3. Sound(w, m)
      BY <2>1 DEF Sound, Issued
    <2> QED BY <2>1, <2>2, <2>3, SoundMove
  <1> QED BY <1>1, <1>2

LEMMA ApproveLockInv ==
  ASSUME IInv, NEW w \in Workers, ApproveLock(w)
  PROVE  IInv'
  <1>1. CASE End(w)
    BY <1>1, EndInv DEF ApproveLock
  <1>2. CASE ~End(w)
    <2>1. /\ cmd[w].op = "approve"
          /\ RequestFree(cmd[w].request)
          /\ cmd' = [cmd EXCEPT ![w] = Advanced(cmd[w], "locked", NoPayment, {})]
          /\ UNCHANGED <<order, orderMethod, payment, request, correction, chartReady>>
      BY <1>2 DEF ApproveLock, Advance, At
    <2> DEFINE m == Advanced(cmd[w], "locked", NoPayment, {})
    <2>2. m \in Command
      BY AdvancedType, NoPaymentType DEF IInv, TypeOK
    <2>3. Sound(w, m)
      BY <2>1 DEF Sound, Advanced, RequestFree, IInv, NamesRows
    <2> QED BY <2>1, <2>2, <2>3, SoundMove
  <1> QED BY <1>1, <1>2

LEMMA ApproveReadInv ==
  ASSUME IInv, NEW w \in Workers, ApproveRead(w)
  PROVE  IInv'
  <1>1. CASE End(w)
    BY <1>1, EndInv DEF ApproveRead
  <1>2. CASE ~End(w)
    <2>1. /\ At(w, "approve", "locked")
          /\ PaymentFree(cmd[w].order)
          /\ request[cmd[w].request].status = "PENDING"
          /\ cmd' = [cmd EXCEPT ![w] = Advanced(cmd[w], "read", payment[cmd[w].order], {})]
          /\ UNCHANGED <<order, orderMethod, payment, request, correction, chartReady>>
      BY <1>2 DEF ApproveRead, Advance
    <2> DEFINE m == Advanced(cmd[w], "read", payment[cmd[w].order], {})
    <2>2. cmd[w].request \in Registered /\ cmd[w].order = request[cmd[w].request].order
      BY <2>1 DEF At, IInv, NamesRows
    <2>3. payment[cmd[w].order] \in Payment
      BY <2>2 DEF IInv, TypeOK, NamesRows
    <2>4. m \in Command
      BY <2>3, AdvancedType DEF IInv, TypeOK
    <2>5. \A v \in Workers \ {w} : ~HoldsRequest(v, cmd[w].request)
      BY <2>1, <2>2 DEF IInv, LocksExclusive, HoldsRequest, At, Registered
    <2>6. Sound(w, m)
      BY <2>1, <2>2, <2>5 DEF Sound, Advanced, PaymentFree, At
    <2> QED BY <2>1, <2>4, <2>6, SoundMove
  <1> QED BY <1>1, <1>2

LEMMA CancelMoveInv ==
  ASSUME IInv, NEW w \in Workers, CancelLock(w) \/ CancelSelect(w)
  PROVE  IInv'
  <1>1. CASE CancelLock(w) /\ End(w)
    BY <1>1, EndInv DEF CancelLock
  <1>2. CASE (CancelLock(w) /\ ~End(w)) \/ CancelSelect(w)
    <2>1. PICK st \in {"locked", "read"}, seen \in SUBSET Requests :
            /\ cmd[w].op = "cancel"
            /\ cmd' = [cmd EXCEPT ![w] = Advanced(cmd[w], st, NoPayment, seen)]
            /\ UNCHANGED <<order, orderMethod, payment, request, correction, chartReady>>
      BY <1>2 DEF CancelLock, CancelSelect, Advance, At, Approved
    <2> DEFINE m == Advanced(cmd[w], st, NoPayment, seen)
    <2>2. m \in Command
      BY AdvancedType, NoPaymentType DEF IInv, TypeOK
    <2>3. Sound(w, m)
      BY <2>1 DEF Sound, Advanced, IInv, NamesRows
    <2> QED BY <2>1, <2>2, <2>3, SoundMove
  <1> QED BY <1>1, <1>2

-----------------------------------------------------------------------------
(* Steps that write rows.                                                   *)

\* The rows of orders and journals play no part in what the commands hold.
LEMMA CommandsUntouched ==
  ASSUME LocksExclusive, UNCHANGED cmd
  PROVE  LocksExclusive'
  BY DEF LocksExclusive, HoldsRequest, HoldsPayment, At

LEMMA PlaceOrderInv ==
  ASSUME IInv, NEW o \in Orders, NEW m \in Methods, PlaceOrder(o, m)
  PROVE  IInv'
  <1> DEFINE p == [method |-> m, amount |-> Total[o]]
  <1>1. /\ order[o] = "absent"
        /\ order' = [order EXCEPT ![o] = "open"]
        /\ orderMethod' = [orderMethod EXCEPT ![o] = m]
        /\ payment' = [payment EXCEPT ![o] = p]
        /\ UNCHANGED <<request, correction, chartReady, cmd>>
    BY DEF PlaceOrder
  <1>2. TypeOK
    BY DEF IInv
  <1>3. p \in Payment
    BY PaymentAssumption, SMT DEF Payment
  <1>4. TypeOK'
    <2>1. order' \in [Orders -> {"absent", "open", "cancelled"}]
      BY <1>1, <1>2, UpdateType DEF TypeOK
    <2>2. orderMethod' \in [Orders -> Methods \cup {NoMethod}]
      BY <1>1, <1>2, UpdateType DEF TypeOK
    <2>3. payment' \in [Orders -> Payment]
      BY <1>1, <1>2, <1>3, UpdateType DEF TypeOK
    <2> QED BY <1>1, <1>2, <2>1, <2>2, <2>3 DEF TypeOK
  <1>5. \A z \in Orders \ {o} : /\ order'[z] = order[z]
                               /\ payment'[z] = payment[z]
                               /\ orderMethod'[z] = orderMethod[z]
    BY <1>1, <1>2 DEF TypeOK
  <1>6. order'[o] = "open" /\ orderMethod'[o] = m /\ payment'[o] = p
    BY <1>1, <1>2 DEF TypeOK
  <1>7. NamesRows'
    BY <1>1, <1>5, <1>6 DEF IInv, NamesRows, Registered
  <1>8. LocksExclusive'
    BY <1>1, CommandsUntouched DEF IInv
  <1>9. ApprovalSeesRows'
    <2>1. \A w \in Workers : At(w, "approve", "read") => cmd[w].order \in Orders \ {o}
      BY <1>1 DEF IInv, NamesRows, At
    <2> QED BY <1>1, <1>5, <2>1 DEF IInv, ApprovalSeesRows, At
  <1>10. OrderNamesPaidMethod'
    BY <1>5, <1>6 DEF IInv, OrderNamesPaidMethod
  <1> QED BY <1>4, <1>7, <1>8, <1>9, <1>10 DEF IInv

LEMMA RequestAdjustmentInv ==
  ASSUME IInv, NEW r \in Requests, NEW u \in Users, NEW o \in Orders,
         NEW m \in Methods \cup {NoMethod}, NEW a \in Amounts,
         RequestAdjustment(r, u, o, m, a)
  PROVE  IInv'
  <1>1. PICK d \in Int :
          request' = [request EXCEPT ![r] =
            [status |-> "PENDING", by |-> u, order |-> o, method |-> m, amount |-> a,
             delta |-> d, previous |-> NoPayment]]
    <2>1. a \in Int /\ payment[o].amount \in Int
      BY PaymentAssumption, PaymentFields DEF IInv, TypeOK
    <2>2. Abs(a - payment[o].amount) \in Int
      BY <2>1, SMT DEF Abs
    <2> QED BY <2>1, <2>2 DEF RequestAdjustment
  <1> DEFINE q == [status |-> "PENDING", by |-> u, order |-> o, method |-> m, amount |-> a,
                   delta |-> d, previous |-> NoPayment]
  <1>2. /\ request[r].status = "absent"
        /\ order[o] # "absent"
        /\ UNCHANGED <<order, orderMethod, payment, correction, chartReady, cmd>>
    BY DEF RequestAdjustment
  <1>3. q \in Request
    BY PaymentAssumption, NoPaymentType, SMT DEF Request
  <1>4. request' \in [Requests -> Request]
    BY <1>1, <1>3, UpdateType DEF IInv, TypeOK
  <1>5. request'[r] = q /\ \A s \in Requests \ {r} : request'[s] = request[s]
    BY <1>1 DEF IInv, TypeOK
  <1>6. TypeOK'
    BY <1>2, <1>4 DEF IInv, TypeOK
  <1>7. \A s \in Registered : s # r /\ s \in Registered' /\ request'[s] = request[s]
    BY <1>2, <1>5 DEF Registered
  <1>8. NamesRows'
    <2>1. \A s \in Registered' :
            request'[s].order \in Orders /\ order[request'[s].order] # "absent"
      BY <1>2, <1>5 DEF IInv, NamesRows, Registered
    <2> QED BY <1>2, <1>7, <2>1 DEF IInv, NamesRows
  <1>9. LocksExclusive'
    BY <1>2, CommandsUntouched DEF IInv
  <1>10. ApprovalSeesRows'
    BY <1>2, <1>7 DEF IInv, ApprovalSeesRows, NamesRows, At
  <1>11. OrderNamesPaidMethod'
    BY <1>2 DEF IInv, OrderNamesPaidMethod
  <1> QED BY <1>6, <1>8, <1>9, <1>10, <1>11 DEF IInv

LEMMA RejectInv ==
  ASSUME IInv, NEW r \in Requests, Reject(r)
  PROVE  IInv'
  <1> DEFINE q == Decided(request[r], "REJECTED", NoPayment)
  <1>1. /\ RequestFree(r)
        /\ request[r].status = "PENDING"
        /\ request' = [request EXCEPT ![r] = q]
        /\ UNCHANGED <<order, orderMethod, payment, correction, chartReady, cmd>>
    BY DEF Reject
  <1>2. q \in Request
    BY DecidedType, NoPaymentType DEF IInv, TypeOK
  <1>3. request' \in [Requests -> Request]
    BY <1>1, <1>2, UpdateType DEF IInv, TypeOK
  <1>4. request'[r] = q /\ \A s \in Requests \ {r} : request'[s] = request[s]
    BY <1>1 DEF IInv, TypeOK
  <1>5. TypeOK'
    BY <1>1, <1>3 DEF IInv, TypeOK
  <1>6. q.status = "REJECTED" /\ q.order = request[r].order
    BY DEF Decided
  <1>7. NamesRows'
    BY <1>1, <1>4, <1>6 DEF IInv, NamesRows, Registered
  <1>8. LocksExclusive'
    BY <1>1, CommandsUntouched DEF IInv
  <1>9. ApprovalSeesRows'
    <2>1. \A w \in Workers : At(w, "approve", "read") => cmd[w].request \in Requests \ {r}
      BY <1>1 DEF IInv, NamesRows, Registered, At, RequestFree, HoldsRequest
    <2> QED BY <1>1, <1>4, <2>1 DEF IInv, ApprovalSeesRows, At
  <1>10. OrderNamesPaidMethod'
    BY <1>1 DEF IInv, OrderNamesPaidMethod
  <1> QED BY <1>5, <1>7, <1>8, <1>9, <1>10 DEF IInv

\* The approval replaces the payment that it read and the request that it
\* found pending; nobody else is between a read and a commit of either.
LEMMA ApproveCommitInv ==
  ASSUME IInv, NEW w \in Workers, ApproveCommit(w)
  PROVE  IInv'
  <1> DEFINE c == cmd[w]
             r == c.request
             o == c.order
             p == Adjusted(w)
             q == Decided(request[r], "APPROVED", c.before)
  <1>1. /\ At(w, "approve", "read")
        /\ payment' = [payment EXCEPT ![o] = p]
        /\ request' = [request EXCEPT ![r] = q]
        /\ orderMethod' = IF ChangesMethod(w) THEN [orderMethod EXCEPT ![o] = p.method]
                                              ELSE orderMethod
        /\ correction' = correction \/ correction' = [correction EXCEPT ![r] = "POSTED"]
        /\ cmd' = [cmd EXCEPT ![w] = Idle]
        /\ UNCHANGED <<order, chartReady>>
    BY DEF ApproveCommit, End
  <1>2. r \in Requests /\ o \in Orders /\ o = request[r].order /\ r \in Registered
    BY <1>1 DEF IInv, NamesRows, Registered, At
  <1>3. c.before = payment[o] /\ request[r].status = "PENDING"
    BY <1>1 DEF IInv, ApprovalSeesRows
  <1>4. p \in Payment
    BY <1>2, AdjustedType DEF IInv
  <1>5. q \in Request
    BY <1>2, DecidedType, CommandFields DEF IInv, TypeOK
  <1>6. payment'[o] = p /\ \A z \in Orders \ {o} : payment'[z] = payment[z]
    BY <1>1, <1>2 DEF IInv, TypeOK
  <1>7. request'[r] = q /\ \A z \in Requests \ {r} : request'[z] = request[z]
    BY <1>1, <1>2 DEF IInv, TypeOK
  <1>8. cmd'[w] = Idle /\ \A v \in Workers \ {w} : cmd'[v] = cmd[v]
    BY <1>1 DEF IInv, TypeOK
  <1>9. q.status = "APPROVED" /\ q.order = o
    BY <1>2 DEF Decided
  <1>10. TypeOK'
    <2>1. payment' \in [Orders -> Payment]
      BY <1>1, <1>4, UpdateType DEF IInv, TypeOK
    <2>2. request' \in [Requests -> Request]
      BY <1>1, <1>5, UpdateType DEF IInv, TypeOK
    <2>3. orderMethod' \in [Orders -> Methods \cup {NoMethod}]
      BY <1>1, <1>4, PaymentFields, UpdateType DEF IInv, TypeOK
    <2>4. correction' \in [Requests -> {"none", "POSTED", "REVERSED"}]
      <3>1. CASE correction' = correction
        BY <3>1 DEF IInv, TypeOK
      <3>2. CASE correction' = [correction EXCEPT ![r] = "POSTED"]
        BY <3>2, UpdateType DEF IInv, TypeOK
      <3> QED BY <1>1, <3>1, <3>2
    <2>5. cmd' \in [Workers -> Command]
      BY <1>1, IdleType, UpdateType DEF IInv, TypeOK
    <2> QED BY <1>1, <2>1, <2>2, <2>3, <2>4, <2>5 DEF IInv, TypeOK
  <1>11. NamesRows'
    <2>1. Registered' = Registered /\ \A z \in Registered : request'[z].order = request[z].order
      BY <1>2, <1>7, <1>9 DEF Registered
    <2>2. \A v \in Workers : cmd'[v] = cmd[v] \/ cmd'[v].op = "none"
      BY <1>8 DEF Idle
    <2> QED BY <1>1, <2>1, <2>2 DEF IInv, NamesRows
  <1>12. LocksExclusive'
    BY <1>8 DEF IInv, LocksExclusive, HoldsRequest, HoldsPayment, At, Idle
  <1>13. ApprovalSeesRows'
    <2> SUFFICES ASSUME NEW v \in Workers, At(v, "approve", "read")'
                 PROVE  /\ cmd'[v].before = payment'[cmd'[v].order]
                        /\ request'[cmd'[v].request].status = "PENDING"
      BY DEF ApprovalSeesRows
    <2>1. v # w /\ cmd'[v] = cmd[v] /\ At(v, "approve", "read")
      BY <1>8 DEF At, Idle
    <2>2. cmd[v].request \in Requests /\ cmd[v].order \in Orders
      BY <2>1 DEF IInv, NamesRows, Registered, At
    <2>3. cmd[v].request # r
      BY <1>1, <1>2, <2>1 DEF IInv, LocksExclusive, HoldsRequest, At
    <2>4. cmd[v].order # o
      BY <1>1, <1>2, <2>1 DEF IInv, LocksExclusive, HoldsPayment, At
    <2> QED BY <1>6, <1>7, <2>1, <2>2, <2>3, <2>4 DEF IInv, ApprovalSeesRows
  <1>14. OrderNamesPaidMethod'
    <2>1. orderMethod[o] = c.before.method
      BY <1>2, <1>3 DEF IInv, OrderNamesPaidMethod
    <2>2. orderMethod'[o] = p.method
      BY <1>1, <1>2, <2>1 DEF ChangesMethod, IInv, TypeOK
    <2>3. \A z \in Orders \ {o} : orderMethod'[z] = orderMethod[z]
      BY <1>1 DEF IInv, TypeOK
    <2> QED BY <1>6, <2>2, <2>3 DEF IInv, OrderNamesPaidMethod
  <1> QED BY <1>10, <1>11, <1>12, <1>13, <1>14 DEF IInv

LEMMA CancelCommitInv ==
  ASSUME IInv, NEW w \in Workers, CancelCommit(w)
  PROVE  IInv'
  <1>1. /\ order' = [order EXCEPT ![cmd[w].order] = "cancelled"]
        /\ correction' = [r \in Requests |->
             IF r \in cmd[w].seen THEN Reversed(correction[r]) ELSE correction[r]]
        /\ cmd' = [cmd EXCEPT ![w] = Idle]
        /\ UNCHANGED <<orderMethod, payment, request, chartReady>>
    BY DEF CancelCommit, End
  <1>2. order' \in [Orders -> {"absent", "open", "cancelled"}]
    BY <1>1, UpdateType DEF IInv, TypeOK
  <1>3. correction' \in [Requests -> {"none", "POSTED", "REVERSED"}]
    BY <1>1 DEF IInv, TypeOK, Reversed
  <1>4. cmd' \in [Workers -> Command]
    BY <1>1, IdleType, UpdateType DEF IInv, TypeOK
  <1>5. cmd'[w] = Idle /\ \A v \in Workers \ {w} : cmd'[v] = cmd[v]
    BY <1>1 DEF IInv, TypeOK
  <1>6. \A z \in Orders : order'[z] = order[z] \/ order'[z] = "cancelled"
    BY <1>1 DEF IInv, TypeOK
  <1>7. TypeOK'
    BY <1>1, <1>2, <1>3, <1>4 DEF IInv, TypeOK
  <1>8. NamesRows'
    BY <1>1, <1>5, <1>6 DEF IInv, NamesRows, Registered, Idle
  <1>9. LocksExclusive'
    BY <1>5 DEF IInv, LocksExclusive, HoldsRequest, HoldsPayment, At, Idle
  <1>10. ApprovalSeesRows'
    BY <1>1, <1>5 DEF IInv, ApprovalSeesRows, At, Idle
  <1>11. OrderNamesPaidMethod'
    BY <1>1 DEF IInv, OrderNamesPaidMethod
  <1> QED BY <1>7, <1>8, <1>9, <1>10, <1>11 DEF IInv

LEMMA AccountingInv ==
  ASSUME IInv, RegisterAccounts \/ \E r \in Requests : Repair(r)
  PROVE  IInv'
  <1>1. /\ correction' \in [Requests -> {"none", "POSTED", "REVERSED"}]
        /\ chartReady' \in BOOLEAN
        /\ UNCHANGED <<order, orderMethod, payment, request, cmd>>
    <2>1. CASE RegisterAccounts
      BY <2>1 DEF RegisterAccounts, IInv, TypeOK
    <2>2. ASSUME NEW r \in Requests, Repair(r)
          PROVE  /\ correction' \in [Requests -> {"none", "POSTED", "REVERSED"}]
                 /\ chartReady' \in BOOLEAN
                 /\ UNCHANGED <<order, orderMethod, payment, request, cmd>>
      BY <2>2, UpdateType DEF Repair, IInv, TypeOK
    <2> QED BY <2>1, <2>2
  <1>2. TypeOK'
    BY <1>1 DEF IInv, TypeOK
  <1>3. NamesRows' /\ ApprovalSeesRows' /\ OrderNamesPaidMethod'
    BY <1>1 DEF IInv, NamesRows, Registered, ApprovalSeesRows, At, OrderNamesPaidMethod
  <1>4. LocksExclusive'
    BY <1>1, CommandsUntouched DEF IInv
  <1> QED BY <1>2, <1>3, <1>4 DEF IInv

-----------------------------------------------------------------------------
(* The invariant.                                                           *)

LEMMA InitInv == Init => IInv
  <1> SUFFICES ASSUME Init PROVE IInv
    OBVIOUS
  <1>1. NoSuchRequest \in Request
    BY NoPaymentType, SMT DEF NoSuchRequest, Request
  <1>2. TypeOK
    BY <1>1, IdleType, NoPaymentType DEF Init, TypeOK
  <1>3. Registered = {}
    BY DEF Init, Registered, NoSuchRequest
  <1>4. \A w \in Workers : cmd[w].op = "none"
    BY DEF Init, Idle
  <1>5. NamesRows /\ LocksExclusive /\ ApprovalSeesRows
    BY <1>3, <1>4 DEF NamesRows, LocksExclusive, ApprovalSeesRows, HoldsRequest, HoldsPayment, At
  <1>6. OrderNamesPaidMethod
    BY DEF Init, OrderNamesPaidMethod, NoPayment
  <1> QED BY <1>2, <1>5, <1>6 DEF IInv

LEMMA StepInv ==
  ASSUME IInv, NEW w \in Workers, Step(w) \/ Rollback(w)
  PROVE  IInv'
  <1>1. CASE ApproveLock(w)
    BY <1>1, ApproveLockInv
  <1>2. CASE ApproveRead(w)
    BY <1>2, ApproveReadInv
  <1>3. CASE ApproveCommit(w)
    BY <1>3, ApproveCommitInv
  <1>4. CASE ApproveRefuse(w)
    BY <1>4, EndInv DEF ApproveRefuse
  <1>5. CASE CancelLock(w) \/ CancelSelect(w)
    BY <1>5, CancelMoveInv
  <1>6. CASE CancelCommit(w)
    BY <1>6, CancelCommitInv
  <1>7. CASE Rollback(w)
    BY <1>7, EndInv DEF Rollback
  <1> QED BY <1>1, <1>2, <1>3, <1>4, <1>5, <1>6, <1>7 DEF Step

LEMMA NextInv == IInv /\ [Next]_vars => IInv'
  <1> SUFFICES ASSUME IInv, [Next]_vars PROVE IInv'
    OBVIOUS
  <1>1. ASSUME NEW w \in Workers, SubmitApprove(w) \/ SubmitCancel(w)
        PROVE  IInv'
    BY <1>1, SubmitInv
  <1>2. ASSUME NEW w \in Workers, Step(w) \/ Rollback(w)
        PROVE  IInv'
    BY <1>2, StepInv
  <1>3. ASSUME NEW o \in Orders, NEW m \in Methods, PlaceOrder(o, m)
        PROVE  IInv'
    BY <1>3, PlaceOrderInv
  <1>4. ASSUME NEW r \in Requests, NEW u \in Users, NEW o \in Orders,
               NEW m \in Methods \cup {NoMethod}, NEW a \in Amounts,
               RequestAdjustment(r, u, o, m, a)
        PROVE  IInv'
    BY <1>4, RequestAdjustmentInv
  <1>5. ASSUME NEW r \in Requests, Reject(r)
        PROVE  IInv'
    BY <1>5, RejectInv
  <1>6. CASE RegisterAccounts \/ \E r \in Requests : Repair(r)
    BY <1>6, AccountingInv
  <1>7. CASE UNCHANGED vars
    BY <1>7 DEF vars, IInv, TypeOK, NamesRows, Registered, LocksExclusive, HoldsRequest,
                HoldsPayment, ApprovalSeesRows, At, OrderNamesPaidMethod
  <1> QED BY <1>1, <1>2, <1>3, <1>4, <1>5, <1>6, <1>7 DEF Next

LEMMA InvAlways == Spec => []IInv
  BY InitInv, NextInv, PTL DEF Spec

-----------------------------------------------------------------------------
(* Theorems.                                                                *)

\* Every behaviour of the payment commands keeps to the declared state space.
THEOREM TypesHold == Spec => []TypeOK
  <1>1. IInv => TypeOK
    BY DEF IInv
  <1> QED BY <1>1, InvAlways, PTL

\* SyncOrderPaymentMethodHandler: orders.payment_method_id is the method of the
\* order's payment in every state, for any number of approvals at a time, since
\* the approval compares with a payment that it keeps locked until it commits.
THEOREM OrderAlwaysNamesPaidMethod == Spec => []OrderNamesPaidMethod
  <1>1. IInv => OrderNamesPaidMethod
    BY DEF IInv
  <1> QED BY <1>1, InvAlways, PTL

\* What a step does to a request: it registers it, or decides a pending one.
LEMMA DecidedUntouched ==
  ASSUME IInv, Next, NEW r \in Requests, request[r].status \in {"APPROVED", "REJECTED"}
  PROVE  request'[r] = request[r]
  <1>1. ASSUME NEW w \in Workers,
               SubmitApprove(w) \/ SubmitCancel(w) \/ (Step(w) /\ ~ApproveCommit(w)) \/ Rollback(w)
        PROVE  request' = request
    BY <1>1 DEF SubmitApprove, SubmitCancel, Step, ApproveLock, ApproveRead, ApproveRefuse,
                CancelLock, CancelSelect, CancelCommit, Rollback
  <1>2. ASSUME NEW w \in Workers, ApproveCommit(w)
        PROVE  request'[r] = request[r]
    <2>1. request[cmd[w].request].status = "PENDING"
      BY <1>2 DEF ApproveCommit, IInv, ApprovalSeesRows
    <2>2. request' = [request EXCEPT ![cmd[w].request] = Decided(@, "APPROVED", cmd[w].before)]
      BY <1>2 DEF ApproveCommit
    <2> QED BY <2>1, <2>2 DEF IInv, TypeOK
  <1>3. ASSUME NEW s \in Requests, Reject(s)
        PROVE  request'[r] = request[r]
    BY <1>3 DEF Reject, IInv, TypeOK
  <1>4. ASSUME NEW s \in Requests, NEW u \in Users, NEW o \in Orders,
               NEW m \in Methods \cup {NoMethod}, NEW a \in Amounts,
               RequestAdjustment(s, u, o, m, a)
        PROVE  request'[r] = request[r]
    BY <1>4 DEF RequestAdjustment, IInv, TypeOK
  <1>5. CASE \E o \in Orders, m \in Methods : PlaceOrder(o, m)
    BY <1>5 DEF PlaceOrder
  <1>6. CASE RegisterAccounts \/ \E s \in Requests : Repair(s)
    BY <1>6 DEF RegisterAccounts, Repair
  <1> QED BY <1>1, <1>2, <1>3, <1>4, <1>5, <1>6 DEF Next

\* AdjustmentRequestAlreadyDecided: whatever approvals and rejections race, the
\* decision and the evidence of the payment it replaced are never overwritten.
THEOREM DecisionsAreFinal == Spec => DecidedForGood
  <1>1. IInv /\ [Next]_vars =>
          [\A r \in Requests :
             request[r].status \in {"APPROVED", "REJECTED"} => request'[r] = request[r]]_vars
    BY DecidedUntouched
  <1> QED BY <1>1, InvAlways, PTL DEF Spec, DecidedForGood

-----------------------------------------------------------------------------
(* The amount of a payment and the corrections of its approvals.            *)

\* Approvals record the difference they make, whatever they interleave with.
ApprovalsAddUp ==
  \A o \in Orders :
    order[o] # "absent" =>
      payment[o].amount = Total[o] + SumFunctionOnSet(Difference, Approved(o))

\* A correction is reversed with its order, and a cancellation selects approved
\* requests of its order only.
ReversedWithOrder ==
  /\ \A r \in Requests :
       correction[r] = "REVERSED" =>
         request[r].status = "APPROVED" /\ order[request[r].order] = "cancelled"
  /\ \A w \in Workers :
       At(w, "cancel", "read") => cmd[w].seen \subseteq Approved(cmd[w].order)

SumInv ==
  /\ IsFiniteSet(Registered)
  /\ ApprovalsAddUp
  /\ ReversedWithOrder

LEMMA ApprovedFinite ==
  ASSUME SumInv, NEW o
  PROVE  IsFiniteSet(Approved(o))
  BY FS_Subset DEF SumInv, Approved, Registered

LEMMA DifferenceInt ==
  ASSUME TypeOK
  PROVE  \A r \in Requests : Difference[r] \in Int
  <1> SUFFICES ASSUME NEW r \in Requests PROVE Difference[r] \in Int
    OBVIOUS
  <1>1. request[r].amount \in Int /\ request[r].previous.amount \in Int
    BY RequestFields, PaymentFields DEF TypeOK
  <1> QED BY <1>1, SMT DEF Difference

\* Steps that decide nothing: what is approved keeps its sum.
LEMMA SumUntouched ==
  ASSUME IInv, SumInv, NEW o \in Orders,
         Approved(o)' = Approved(o),
         \A r \in Approved(o) : request'[r] = request[r]
  PROVE  SumFunctionOnSet(Difference, Approved(o))' = SumFunctionOnSet(Difference, Approved(o))
  <1>1. \A r \in Approved(o) : Difference[r] = Difference'[r] /\ Difference[r] \in Int
    BY DifferenceInt DEF Difference, Approved, IInv
  <1>2. IsFiniteSet(Approved(o))
    BY ApprovedFinite
  <1>3. SumFunctionOnSet(Difference, Approved(o)) = SumFunctionOnSet(Difference', Approved(o))
    BY <1>1, <1>2, SumSame
  <1> QED BY <1>3

\* Steps that only move a command along.
LEMMA MoveSums ==
  ASSUME IInv, SumInv, NEW w \in Workers, NEW m,
         cmd' = [cmd EXCEPT ![w] = m],
         m.op = "cancel" /\ m.stage = "read" => m.seen \subseteq Approved(m.order),
         UNCHANGED <<order, orderMethod, payment, request, correction, chartReady>>
  PROVE  SumInv'
  <1>1. \A v \in Workers : cmd'[v] = cmd[v] \/ cmd'[v] = m
    BY DEF IInv, TypeOK
  <1>2. Registered' = Registered /\ \A o : Approved(o)' = Approved(o)
    BY DEF Registered, Approved
  <1>3. Difference' = Difference
    BY DEF Difference
  <1>4. ApprovalsAddUp'
    BY <1>2, <1>3 DEF SumInv, ApprovalsAddUp
  <1>5. ReversedWithOrder'
    BY <1>1, <1>2 DEF SumInv, ReversedWithOrder, At
  <1> QED BY <1>2, <1>4, <1>5 DEF SumInv

LEMMA EndSums ==
  ASSUME IInv, SumInv, NEW w \in Workers, End(w),
         UNCHANGED <<order, orderMethod, payment, request, correction, chartReady>>
  PROVE  SumInv'
  BY MoveSums DEF End, Idle

LEMMA CommandSums ==
  ASSUME IInv, SumInv, NEW w \in Workers,
         \/ SubmitApprove(w) \/ SubmitCancel(w) \/ ApproveLock(w) \/ ApproveRead(w)
         \/ ApproveRefuse(w) \/ CancelLock(w) \/ CancelSelect(w) \/ Rollback(w)
  PROVE  SumInv'
  <1>1. UNCHANGED <<order, orderMethod, payment, request, correction, chartReady>>
    BY DEF SubmitApprove, SubmitCancel, ApproveLock, ApproveRead, ApproveRefuse, CancelLock,
           CancelSelect, Rollback
  <1>2. CASE End(w)
    BY <1>1, <1>2, EndSums
  <1>3. CASE SubmitApprove(w) \/ SubmitCancel(w)
    <2>1. PICK op, o, r, u : cmd' = [cmd EXCEPT ![w] = Issued(op, o, r, u)]
      BY <1>3 DEF SubmitApprove, SubmitCancel
    <2>2. Issued(op, o, r, u).stage = "issued"
      BY DEF Issued
    <2> QED BY <1>1, <2>1, <2>2, MoveSums
  <1>4. CASE CancelSelect(w)
    <2> DEFINE m == Advanced(cmd[w], "read", NoPayment, Approved(cmd[w].order))
    <2>1. cmd' = [cmd EXCEPT ![w] = m] /\ m.order = cmd[w].order /\ m.seen = Approved(cmd[w].order)
      BY <1>4 DEF CancelSelect, Advance, Advanced
    <2> HIDE DEF m
    <2> QED BY <1>1, <2>1, MoveSums
  <1>5. CASE (ApproveLock(w) \/ ApproveRead(w) \/ CancelLock(w)) /\ ~End(w)
    <2>1. PICK st, p :
            /\ cmd' = [cmd EXCEPT ![w] = Advanced(cmd[w], st, p, {})]
      BY <1>5 DEF ApproveLock, ApproveRead, CancelLock, Advance
    <2>2. Advanced(cmd[w], st, p, {}).seen = {}
      BY DEF Advanced
    <2> QED BY <1>1, <2>1, <2>2, MoveSums
  <1> QED BY <1>2, <1>3, <1>4, <1>5 DEF ApproveRefuse, Rollback

\* A step that registers, decides or repairs without approving anything.
LEMMA RowsSums ==
  ASSUME IInv, SumInv, UNCHANGED cmd, IsFiniteSet(Registered'),
         \A o \in Orders : order'[o] = order[o] \/ (order[o] = "absent" /\ order'[o] = "open"),
         \A o \in Orders :
           IF order[o] = "absent" THEN order'[o] # "absent" => payment'[o].amount = Total[o]
                                  ELSE payment'[o] = payment[o],
         \A r \in Requests :
           request'[r] = request[r] \/ (request[r].status # "APPROVED"
                                          /\ request'[r].status # "APPROVED"),
         \A r \in Requests : correction'[r] = "REVERSED" => correction[r] = "REVERSED"
  PROVE  SumInv'
  <1>1. \A o : Approved(o)' = Approved(o)
    BY DEF Approved
  <1>2. \A o : \A r \in Approved(o) : request'[r] = request[r]
    BY DEF Approved
  <1>3. ApprovalsAddUp'
    <2> SUFFICES ASSUME NEW o \in Orders, order'[o] # "absent"
                 PROVE  payment'[o].amount
                          = Total[o] + SumFunctionOnSet(Difference, Approved(o))'
      BY DEF ApprovalsAddUp
    <2>1. SumFunctionOnSet(Difference, Approved(o))' = SumFunctionOnSet(Difference, Approved(o))
      BY <1>1, <1>2, SumUntouched
    <2>2. CASE order[o] # "absent"
      BY <2>1, <2>2 DEF SumInv, ApprovalsAddUp
    <2>3. CASE order[o] = "absent"
      <3>1. Approved(o) = {}
        BY <2>3 DEF Approved, IInv, NamesRows, Registered
      <3>2. SumFunctionOnSet(Difference, Approved(o)) = 0
        BY <3>1, SumEmpty
      <3>3. Total[o] \in Nat
        BY PaymentAssumption
      <3>4. payment'[o].amount = Total[o]
        BY <2>3
      <3>5. Total[o] + 0 = Total[o]
        BY <3>3
      <3> QED BY <2>1, <3>2, <3>4, <3>5
    <2> QED BY <2>2, <2>3
  <1>4. ReversedWithOrder'
    <2>1. ASSUME NEW r \in Requests, correction'[r] = "REVERSED"
          PROVE  request'[r].status = "APPROVED" /\ order'[request'[r].order] = "cancelled"
      <3>1. request[r].status = "APPROVED" /\ order[request[r].order] = "cancelled"
        BY <2>1 DEF SumInv, ReversedWithOrder
      <3>2. request[r].order \in Orders
        BY <3>1 DEF IInv, NamesRows, Registered
      <3> QED BY <3>1, <3>2
    <2>2. ASSUME NEW w \in Workers, At(w, "cancel", "read")'
          PROVE  (cmd[w].seen \subseteq Approved(cmd[w].order))'
      <3>1. cmd[w].seen \subseteq Approved(cmd[w].order)
        BY <2>2 DEF At, SumInv, ReversedWithOrder
      <3>2. Approved(cmd[w].order)' = Approved(cmd[w].order)
        BY <1>1 DEF Approved
      <3> QED BY <3>1, <3>2
    <2> QED BY <2>1, <2>2 DEF ReversedWithOrder
  <1> QED BY <1>3, <1>4 DEF SumInv

LEMMA RegisteringSums ==
  ASSUME IInv, SumInv,
         \/ RegisterAccounts
         \/ \E o \in Orders, m \in Methods : PlaceOrder(o, m)
         \/ \E r \in Requests : Reject(r) \/ Repair(r)
         \/ \E r \in Requests, u \in Users, o \in Orders, m \in Methods \cup {NoMethod},
               a \in Amounts : RequestAdjustment(r, u, o, m, a)
  PROVE  SumInv'
  <1> USE DEF IInv, TypeOK
  <1>1. CASE RegisterAccounts
    <2>1. Registered' = Registered
      BY <1>1 DEF RegisterAccounts, Registered
    <2> QED BY <1>1, <2>1, RowsSums DEF RegisterAccounts, SumInv
  <1>2. ASSUME NEW o \in Orders, NEW m \in Methods, PlaceOrder(o, m)
        PROVE  SumInv'
    <2>1. Registered' = Registered
      BY <1>2 DEF PlaceOrder, Registered
    <2>2. /\ order[o] = "absent" /\ order'[o] = "open" /\ payment'[o].amount = Total[o]
          /\ \A z \in Orders \ {o} : order'[z] = order[z] /\ payment'[z] = payment[z]
          /\ UNCHANGED <<request, correction, cmd>>
      BY <1>2 DEF PlaceOrder
    <2> QED BY <2>1, <2>2, RowsSums DEF SumInv
  <1>3. ASSUME NEW r \in Requests, Reject(r)
        PROVE  SumInv'
    <2>1. Registered' = Registered
      BY <1>3 DEF Reject, Registered, Decided
    <2>2. /\ request[r].status = "PENDING" /\ request'[r].status = "REJECTED"
          /\ \A z \in Requests \ {r} : request'[z] = request[z]
          /\ UNCHANGED <<order, payment, correction, cmd>>
      BY <1>3 DEF Reject, Decided
    <2> QED BY <2>1, <2>2, RowsSums DEF SumInv
  <1>4. ASSUME NEW r \in Requests, Repair(r)
        PROVE  SumInv'
    <2>1. Registered' = Registered
      BY <1>4 DEF Repair, Registered
    <2>2. /\ \A z \in Requests : correction'[z] = "REVERSED" => correction[z] = "REVERSED"
          /\ UNCHANGED <<order, payment, request, cmd>>
      BY <1>4 DEF Repair
    <2> QED BY <2>1, <2>2, RowsSums DEF SumInv
  <1>5. ASSUME NEW r \in Requests, NEW u \in Users, NEW o \in Orders,
               NEW m \in Methods \cup {NoMethod}, NEW a \in Amounts,
               RequestAdjustment(r, u, o, m, a)
        PROVE  SumInv'
    <2>1. /\ request[r].status = "absent" /\ request'[r].status = "PENDING"
          /\ \A z \in Requests \ {r} : request'[z] = request[z]
          /\ UNCHANGED <<order, payment, correction, cmd>>
      BY <1>5 DEF RequestAdjustment
    <2>2. Registered' = Registered \cup {r}
      BY <2>1 DEF Registered
    <2>3. IsFiniteSet(Registered')
      BY <2>2, FS_AddElement DEF SumInv
    <2> QED BY <2>1, <2>3, RowsSums
  <1> QED BY <1>1, <1>2, <1>3, <1>4, <1>5

\* The difference is that of the payment under the lock, so it is what the sum lacks.
LEMMA ApproveSums ==
  ASSUME IInv, SumInv, NEW w \in Workers, ApproveCommit(w)
  PROVE  SumInv'
  <1>0. PICK o \in Orders, r \in Requests :
          /\ r = cmd[w].request /\ o = cmd[w].order /\ o = request[r].order
          /\ order[o] # "absent" /\ request[r].status = "PENDING"
          /\ cmd[w].before = payment[o]
    <2>1. At(w, "approve", "read")
      BY DEF ApproveCommit
    <2> QED BY <2>1 DEF IInv, NamesRows, Registered, ApprovalSeesRows, At
  <1> DEFINE q == Decided(request[r], "APPROVED", payment[o])
  <1>1. /\ payment' = [payment EXCEPT ![o] = Adjusted(w)]
        /\ request' = [request EXCEPT ![r] = q]
        /\ correction' = correction \/ correction' = [correction EXCEPT ![r] = "POSTED"]
        /\ cmd' = [cmd EXCEPT ![w] = Idle]
        /\ order' = order
    BY <1>0 DEF ApproveCommit, End
  <1>2. /\ o = request[r].order /\ request[r].status = "PENDING"
        /\ order[o] # "absent"
    BY <1>0
  <1>3. /\ q.status = "APPROVED" /\ q.order = o /\ q.amount = request[r].amount
        /\ q.previous = payment[o]
        /\ Adjusted(w).amount = request[r].amount
    BY <1>0 DEF Decided, Adjusted
  <1> HIDE DEF q
  <1>4. request'[r] = q /\ \A z \in Requests \ {r} : request'[z] = request[z]
    BY <1>1, <1>2 DEF IInv, TypeOK
  <1>5. /\ payment'[o].amount = request[r].amount
        /\ \A z \in Orders \ {o} : payment'[z] = payment[z]
    BY <1>1, <1>2, <1>3 DEF IInv, TypeOK
  <1>6. Registered' = Registered
    BY <1>2, <1>3, <1>4 DEF Registered
  <1>7. /\ r \notin Approved(o)
        /\ Approved(o)' = Approved(o) \cup {r}
        /\ \A z : z # o => Approved(z)' = Approved(z)
    <2>1. /\ \A s \in Requests \ {r} : request'[s] = request[s]
          /\ request'[r].status = "APPROVED" /\ request'[r].order = o
          /\ request[r].status # "APPROVED" /\ r \in Requests
      BY <1>2, <1>3, <1>4
    <2>2. r \notin Approved(o) /\ Approved(o)' = Approved(o) \cup {r}
      BY <2>1 DEF Approved
    <2>3. \A z : z # o => Approved(z)' = Approved(z)
      BY <2>1 DEF Approved
    <2> QED BY <2>2, <2>3
  <1>8. TypeOK'
    BY ApproveCommitInv DEF IInv
  <1>9. ASSUME NEW z \in Orders, order'[z] # "absent"
        PROVE  (payment[z].amount = Total[z] + SumFunctionOnSet(Difference, Approved(z)))'
    <2> DEFINE old == SumFunctionOnSet(Difference, Approved(z))
    <2>1. payment[z].amount = Total[z] + old
      BY <1>1, <1>9 DEF SumInv, ApprovalsAddUp
    <2>2. CASE z # o
      <3>1. \A s \in Approved(z) : request'[s] = request[s]
        BY <1>4, <1>7, <2>2 DEF Approved
      <3>2. old' = old
        BY <1>7, <2>2, <3>1, SumUntouched
      <3> QED BY <1>5, <2>1, <2>2, <3>2
    <2>3. CASE z = o
      <3> DEFINE A == Approved(o)
                 D == Difference'
                 total == SumFunctionOnSet(D, A)
      <3>1. IsFiniteSet(A) /\ A \subseteq Requests
        BY ApprovedFinite DEF Approved
      <3>2. \A s \in A : Difference[s] = D[s] /\ Difference[s] \in Int
        <4>1. \A s \in A : s \in Requests /\ request'[s] = request[s]
          BY <1>4, <1>7 DEF Approved
        <4>2. \A s \in A : Difference[s] \in Int
          BY <3>1, DifferenceInt DEF IInv
        <4> QED BY <4>1, <4>2 DEF Difference
      <3>3. \A s \in Requests : D[s] \in Int
        <4> SUFFICES ASSUME NEW s \in Requests PROVE D[s] \in Int
          OBVIOUS
        <4>1. request'[s].amount \in Int /\ request'[s].previous.amount \in Int
          BY <1>8, RequestFields, PaymentFields DEF TypeOK
        <4> QED BY <4>1, SMT DEF Difference
      <3>4. D[r] = request[r].amount - payment[o].amount
        BY <1>2, <1>3, <1>4 DEF Difference
      <3> HIDE DEF A, D
      <3>5. old = total
        BY <2>3, <3>1, <3>2, SumSame DEF A
      <3>6. SumFunctionOnSet(D, A \cup {r}) = total + D[r]
        BY <1>2, <1>7, <3>1, <3>3, SumAdd DEF A
      <3>7. total \in Int
        BY <3>1, <3>3, SumInt
      <3>8. Total[o] \in Nat /\ request[r].amount \in Int /\ payment[o].amount \in Int
        BY <1>2, PaymentAssumption, RequestFields, PaymentFields DEF IInv, TypeOK
      <3> HIDE DEF total
      <3>9. request[r].amount = Total[o] + (total + D[r])
        BY <2>1, <2>3, <3>4, <3>5, <3>7, <3>8
      <3>10. payment'[o].amount = Total[o] + SumFunctionOnSet(D, A \cup {r})
        BY <1>5, <3>6, <3>9
      <3> QED BY <1>7, <2>3, <3>10 DEF A, D
    <2> QED BY <2>2, <2>3
  <1>10. ReversedWithOrder'
    <2>1. \A v \in Workers : cmd'[v] = cmd[v] \/ cmd'[v] = Idle
      BY <1>1 DEF IInv, TypeOK
    <2>2. ASSUME NEW v \in Workers, At(v, "cancel", "read")'
          PROVE  (cmd[v].seen \subseteq Approved(cmd[v].order))'
      <3>1. cmd'[v] = cmd[v] /\ cmd[v].seen \subseteq Approved(cmd[v].order)
        BY <2>1, <2>2 DEF At, SumInv, ReversedWithOrder, Idle
      <3>2. Approved(cmd[v].order) \subseteq Approved(cmd[v].order)'
        BY <1>2, <1>4, <3>1 DEF Approved
      <3> QED BY <3>1, <3>2
    <2>3. ASSUME NEW s \in Requests, correction'[s] = "REVERSED"
          PROVE  request'[s].status = "APPROVED" /\ order'[request'[s].order] = "cancelled"
      <3>1. correction[s] = "REVERSED"
        BY <1>1, <2>3 DEF IInv, TypeOK
      <3>2. s # r
        BY <1>2, <3>1 DEF SumInv, ReversedWithOrder
      <3> QED BY <1>1, <1>4, <3>1, <3>2 DEF SumInv, ReversedWithOrder
    <2> QED BY <2>2, <2>3 DEF ReversedWithOrder
  <1>11. ApprovalsAddUp'
    BY <1>9 DEF ApprovalsAddUp
  <1> QED BY <1>6, <1>10, <1>11 DEF SumInv

LEMMA CancelSums ==
  ASSUME IInv, SumInv, NEW w \in Workers, CancelCommit(w)
  PROVE  SumInv'
  <1>1. /\ At(w, "cancel", "read")
        /\ order' = [order EXCEPT ![cmd[w].order] = "cancelled"]
        /\ correction' = [r \in Requests |->
             IF r \in cmd[w].seen THEN Reversed(correction[r]) ELSE correction[r]]
        /\ cmd' = [cmd EXCEPT ![w] = Idle]
        /\ UNCHANGED <<payment, request>>
    BY DEF CancelCommit, End
  <1>2. Registered' = Registered /\ Difference' = Difference /\ \A o : Approved(o)' = Approved(o)
    BY <1>1 DEF Registered, Difference, Approved
  <1>3. ReversedWithOrder'
    <2>1. \A v \in Workers : cmd'[v] = cmd[v] \/ cmd'[v] = Idle
      BY <1>1 DEF IInv, TypeOK
    <2>2. ASSUME NEW v \in Workers, At(v, "cancel", "read")'
          PROVE  (cmd[v].seen \subseteq Approved(cmd[v].order))'
      <3>1. cmd'[v] = cmd[v] /\ cmd[v].seen \subseteq Approved(cmd[v].order)
        BY <2>1, <2>2 DEF At, SumInv, ReversedWithOrder, Idle
      <3>2. Approved(cmd[v].order) \subseteq Approved(cmd[v].order)'
        BY <1>1, <3>1 DEF Approved
      <3> QED BY <3>1, <3>2
    <2>3. ASSUME NEW s \in Requests, correction'[s] = "REVERSED"
          PROVE  request'[s].status = "APPROVED" /\ order'[request'[s].order] = "cancelled"
      <3>1. CASE s \in cmd[w].seen
        <4>1. s \in Approved(cmd[w].order)
          BY <1>1, <3>1 DEF SumInv, ReversedWithOrder
        <4>2. request[s].status = "APPROVED" /\ request[s].order = cmd[w].order
          BY <4>1 DEF Approved
        <4>3. cmd[w].order \in Orders
          BY <1>1 DEF IInv, NamesRows, At
        <4> QED BY <1>1, <4>2, <4>3 DEF IInv, TypeOK
      <3>2. CASE s \notin cmd[w].seen
        <4>1. request[s].status = "APPROVED" /\ order[request[s].order] = "cancelled"
          BY <1>1, <2>3, <3>2 DEF SumInv, ReversedWithOrder
        <4>2. request[s].order \in Orders
          BY <4>1 DEF IInv, NamesRows, Registered
        <4> QED BY <1>1, <4>1, <4>2 DEF IInv, TypeOK
      <3> QED BY <3>1, <3>2
    <2> QED BY <2>2, <2>3 DEF ReversedWithOrder
  <1>4. \A o \in Orders : order'[o] # "absent" => order[o] # "absent"
    <2>1. order[cmd[w].order] # "absent"
      BY <1>1 DEF IInv, NamesRows, At
    <2> QED BY <1>1, <2>1 DEF IInv, TypeOK
  <1>5. ApprovalsAddUp'
    BY <1>1, <1>2, <1>4 DEF SumInv, ApprovalsAddUp
  <1> QED BY <1>2, <1>3, <1>5 DEF SumInv

LEMMA InitSums == Init => SumInv
  <1> SUFFICES ASSUME Init PROVE SumInv
    OBVIOUS
  <1>1. Registered = {}
    BY DEF Init, Registered, NoSuchRequest
  <1>2. ApprovalsAddUp
    BY DEF Init, ApprovalsAddUp
  <1>3. ReversedWithOrder
    BY DEF Init, ReversedWithOrder, At, Idle
  <1> QED BY <1>1, <1>2, <1>3, FS_EmptySet DEF SumInv

LEMMA NextSums == IInv /\ SumInv /\ [Next]_vars => SumInv'
  <1> SUFFICES ASSUME IInv, SumInv, [Next]_vars PROVE SumInv'
    OBVIOUS
  <1>1. ASSUME NEW w \in Workers, SubmitApprove(w) \/ SubmitCancel(w) \/ Step(w) \/ Rollback(w)
        PROVE  SumInv'
    BY <1>1, CommandSums, ApproveSums, CancelSums DEF Step
  <1>2. CASE UNCHANGED vars
    <2>1. /\ Registered' = Registered /\ Difference' = Difference
          /\ \A o : Approved(o)' = Approved(o)
      BY <1>2 DEF vars, Registered, Difference, Approved
    <2>2. ApprovalsAddUp'
      BY <1>2, <2>1 DEF vars, SumInv, ApprovalsAddUp
    <2>3. ReversedWithOrder'
      BY <1>2 DEF vars, SumInv, ReversedWithOrder, At, Approved
    <2> QED BY <2>1, <2>2, <2>3 DEF SumInv
  <1> QED BY <1>1, <1>2, RegisteringSums DEF Next

LEMMA SumsAlways == Spec => []SumInv
  BY InitSums, NextSums, InvAlways, PTL DEF Spec

\* BL-06: however approvals, rejections, repairs and failures interleave on the
\* payments, the corrections in force of an order that is open make up the difference
\* between what was sold and what the payment records, once the coverage report lists
\* none of its approvals.
THEOREM CorrectionsAddUp == Spec => []CorrectionsMatchPayment
  <1>1. IInv /\ SumInv => CorrectionsMatchPayment
    <2> SUFFICES ASSUME IInv, SumInv, NEW o \in Orders, order[o] = "open",
                        \A r \in Approved(o) : ~Gap(r)
                 PROVE  Total[o] + Corrected(o) = payment[o].amount
      BY DEF CorrectionsMatchPayment
    <2> DEFINE A == Approved(o)
               P == {r \in A : correction[r] = "POSTED"}
    <2>1. IsFiniteSet(A) /\ \A r \in A : Difference[r] \in Int
      BY ApprovedFinite, DifferenceInt DEF IInv, Approved
    <2>2. ASSUME NEW r \in A, r \notin P PROVE Difference[r] = 0
      <3>1. r \in Requests /\ request[r].status = "APPROVED" /\ request[r].order = o
        BY DEF Approved
      <3>2. correction[r] # "REVERSED"
        BY <3>1 DEF SumInv, ReversedWithOrder
      <3>3. correction[r] = "none"
        BY <2>2, <3>1, <3>2 DEF IInv, TypeOK
      <3>4. request[r].amount = request[r].previous.amount
        BY <3>1, <3>3 DEF Gap
      <3>5. request[r].amount \in Int
        BY <3>1, RequestFields DEF IInv, TypeOK
      <3> QED BY <3>1, <3>4, <3>5 DEF Difference
    <2>3. SumFunctionOnSet(Difference, A) = SumFunctionOnSet(Difference, P)
      <3>1. P \in SUBSET A
        OBVIOUS
      <3> HIDE DEF A, P
      <3> QED BY <2>1, <2>2, <3>1, SumOfRest
    <2> QED BY <2>3 DEF Corrected, SumInv, ApprovalsAddUp
  <1> QED BY <1>1, InvAlways, SumsAlways, PTL
=============================================================================
