------------------------ MODULE OrderLifecycleProofs ------------------------
(***************************************************************************)
(* What holds of OrderLifecycle for any orders, items, workers, recipes    *)
(* and accounting mode.                                                    *)
(***************************************************************************)
EXTENDS OrderLifecycle, TLAPS

Targets == {"unset", "unreversed"} \cup OrderStatuses \cup KitchenStatuses \cup JournalTypes

LEMMA UpdateType ==
  ASSUME NEW S, NEW T, NEW f \in [S -> T], NEW x, NEW y \in T
  PROVE  [f EXCEPT ![x] = y] \in [S -> T]
  OBVIOUS

LEMMA IdleType == Idle \in Command
  BY SMT DEF Idle, Command, Nothing, KitchenStatuses

LEMMA IssuedType ==
  ASSUME NEW op \in Ops, NEW o \in Orders, NEW k \in Keys \cup {NoKey},
         NEW a \in BOOLEAN, NEW t \in Targets
  PROVE  Issued(op, o, k, a, t) \in Command
  BY OrderAssumption, SMT DEF Issued, Targets, Command, Nothing, KitchenStatuses

-----------------------------------------------------------------------------
(* Types.                                                                   *)

\* A submitted command is in the domain of commands; a registration names an
\* order nobody has, every other command an order that exists.
LEMMA RequestIsSubmit ==
  ASSUME TypeOK, NEW w \in Workers, Request(w)
  PROVE  \E op \in Ops, o \in Orders, k \in Keys \cup {NoKey}, a \in BOOLEAN, t \in Targets :
           /\ Submit(w, op, o, k, a, t)
           /\ op = "register" => o \notin Placed /\ \A v \in Workers : cmd[v].order # o
           /\ op # "register" => o \in Placed
           /\ op = "kitchen" => t \in KitchenStatuses
           /\ op = "status" => t \in (OrderStatuses \ {"cancelled"}) \cup {"unset"}
  <1>1. CASE SubmitRegister(w)
    <2>1. PICK o \in Orders \ Placed, k \in Keys \cup {NoKey}, a \in BOOLEAN :
            /\ Submit(w, "register", o, k, a, "unset")
            /\ \A v \in Workers : cmd[v].order # o
      BY <1>1, SMT DEF SubmitRegister
    <2>2. "register" \in Ops /\ "unset" \in Targets
      BY <2>1, SMT DEF Submit, Targets
    <2> QED BY <2>1, <2>2
  <1>2. CASE SubmitCancel(w)
    <2>1. PICK o \in Placed : Submit(w, "cancel", o, NoKey, FALSE, "unset")
      BY <1>2 DEF SubmitCancel
    <2>2. "cancel" \in Ops /\ "unset" \in Targets /\ o \in Orders /\ NoKey \in Keys \cup {NoKey}
      BY <2>1, SMT DEF Submit, Targets, Placed
    <2> QED BY <2>1, <2>2
  <1>3. CASE SubmitStatus(w)
    <2>1. PICK o \in Placed, t \in (OrderStatuses \ {"cancelled"}) \cup {"unset"} :
            Submit(w, "status", o, NoKey, FALSE, t)
      BY <1>3 DEF SubmitStatus
    <2>2. "status" \in Ops /\ t \in Targets /\ o \in Orders /\ NoKey \in Keys \cup {NoKey}
      BY <2>1, SMT DEF Submit, Targets, Placed
    <2> QED BY <2>1, <2>2
  <1>4. CASE SubmitKitchen(w)
    <2>1. PICK o \in Placed, t \in KitchenStatuses : Submit(w, "kitchen", o, NoKey, FALSE, t)
      BY <1>4 DEF SubmitKitchen
    <2>2. "kitchen" \in Ops /\ t \in Targets /\ o \in Orders /\ NoKey \in Keys \cup {NoKey}
      BY <2>1, SMT DEF Submit, Targets, Placed
    <2> QED BY <2>1, <2>2
  <1>5. CASE SubmitRepair(w)
    <2>1. PICK o \in Orders, t \in JournalTypes \cup {"unreversed"} :
            Gap(o, t) /\ Submit(w, "repair", o, NoKey, FALSE, t)
      BY <1>5 DEF SubmitRepair
    <2>2. "repair" \in Ops /\ t \in Targets /\ NoKey \in Keys \cup {NoKey}
      BY <2>1, SMT DEF Submit, Targets
    <2>3. o \in Placed
      BY <2>1, SMT DEF Gap, Placed
    <2> QED BY <2>1, <2>2, <2>3
  <1> QED BY <1>1, <1>2, <1>3, <1>4, <1>5 DEF Request

LEMMA CommandFields ==
  ASSUME TypeOK, NEW w \in Workers
  PROVE  /\ cmd[w] \in Command
         /\ cmd[w].order \in Orders \cup {NoOrder}
         /\ cmd[w].key \in Keys \cup {NoKey}
         /\ cmd[w].status \in OrderStatuses \cup {"absent"}
         /\ cmd[w].kitchen \in KitchenStatuses
         /\ cmd[w].qty \in [Items -> Int]
  BY SMT DEF TypeOK, Command

\* The command a worker is running names an order.
NamesOrder(w) ==
  cmd[w].stage # "idle" =>
    /\ cmd[w].order \in Orders
    /\ cmd[w].op = "register" => cmd[w].order \notin Placed
    /\ cmd[w].op # "register" => cmd[w].order \in Placed
    /\ cmd[w].op = "kitchen" => cmd[w].target \in KitchenStatuses
    /\ cmd[w].op = "status" => cmd[w].target \in (OrderStatuses \ {"cancelled"}) \cup {"unset"}
    /\ cmd[w].op = "register" /\ cmd[w].stage = "read" => cmd[w].qty \in Recipes
    /\ cmd[w].op \in {"status", "kitchen"} /\ cmd[w].stage = "read"
         => cmd[w].status \in OrderStatuses

\* No two commands create the same order.
FreshIds ==
  \A v, w \in Workers :
    v # w /\ cmd[v].stage # "idle" /\ cmd[w].stage # "idle" /\ cmd[w].op = "register"
      => cmd[v].order # cmd[w].order

IdleNamesNone == \A w \in Workers : cmd[w].stage = "idle" => cmd[w].order = NoOrder

\* An order that was not placed has had no effect.
UnplacedUntouched ==
  \A o \in Orders \ Placed : consumed[o] = Nothing /\ o \notin cancellations

\* One command at a time holds an order's row.
RowLockExclusive ==
  \A v, w \in Workers, o \in Orders : HoldsRow(v, o) /\ HoldsRow(w, o) => v = w

\* What a cancellation computed under the lock is still true of the order.
CancelSeesRow ==
  \A w \in Workers :
    At(w, "cancel", "read") =>
      /\ status[cmd[w].order] \notin Final
      /\ cmd[w].qty = Outstanding(cmd[w].order)

\* A row that shows "cancelled", or a save that is about to write it, goes
\* back to a cancellation that took effect.
CancelledGoesBack ==
  /\ \A o \in Orders : status[o] = "cancelled" => o \in cancellations
  /\ \A w \in Workers :
       (At(w, "status", "read") \/ At(w, "kitchen", "read")) /\ cmd[w].status = "cancelled"
         => cmd[w].order \in cancellations

IInv ==
  /\ TypeOK
  /\ \A w \in Workers : NamesOrder(w)
  /\ FreshIds
  /\ IdleNamesNone
  /\ UnplacedUntouched
  /\ RowLockExclusive
  /\ CancelSeesRow
  /\ CancelledGoesBack
  /\ StockRestoredExactlyOnce

-----------------------------------------------------------------------------
(* The steps that only move a command along.                                *)

\* What is asked of the commands alone, apart from the rows they refer to.
CommandInv ==
  /\ cmd \in [Workers -> Command]
  /\ \A w \in Workers : NamesOrder(w)
  /\ FreshIds
  /\ IdleNamesNone
  /\ RowLockExclusive
  /\ CancelSeesRow
  /\ CancelledGoesBack

LEMMA CommandStep ==
  ASSUME IInv, UNCHANGED <<rows, stock, journal, cancellations, recipe>>,
         chartReady' \in BOOLEAN, CommandInv'
  PROVE  IInv'
  <1>1. TypeOK'
    BY SMT DEF IInv, TypeOK, CommandInv, rows, stock
  <1>2. UnplacedUntouched' /\ StockRestoredExactlyOnce'
    BY SMT DEF IInv, UnplacedUntouched, StockRestoredExactlyOnce, Placed, rows, stock
  <1> QED BY <1>1, <1>2, Zenon DEF IInv, CommandInv

\* Ending a command, whatever the rest of the step did to no other order.
LEMMA EndInv ==
  ASSUME IInv, NEW w \in Workers, End(w),
         UNCHANGED <<rows, stock, journal, cancellations, config>>
  PROVE  IInv'
  <1>1. cmd' \in [Workers -> Command] /\ \A v \in Workers \ {w} : cmd'[v] = cmd[v]
    BY IdleType, SMT DEF End, IInv, TypeOK
  <1>2. cmd'[w].stage = "idle" /\ cmd'[w].order = NoOrder
    BY SMT DEF End, IInv, TypeOK, Idle
  <1>3. \A v \in Workers : NamesOrder(v)'
    BY <1>1, <1>2, SMT DEF IInv, NamesOrder, Placed, rows
  <1>4. FreshIds' /\ IdleNamesNone'
    BY <1>1, <1>2, SMT DEF IInv, FreshIds, IdleNamesNone
  <1>5. RowLockExclusive'
    BY <1>1, <1>2, SMT DEF IInv, RowLockExclusive, HoldsRow
  <1>6. CancelSeesRow'
    BY <1>1, <1>2, SMT DEF IInv, CancelSeesRow, At, Outstanding, rows, stock
  <1>7. CancelledGoesBack'
    BY <1>1, <1>2, SMT DEF IInv, CancelledGoesBack, At, rows
  <1>8. CommandInv'
    BY <1>1, <1>3, <1>4, <1>5, <1>6, <1>7, Zenon DEF CommandInv
  <1> QED BY <1>8, CommandStep, SMT DEF config, IInv, TypeOK

LEMMA RequestInv ==
  ASSUME IInv, NEW w \in Workers, Request(w)
  PROVE  IInv'
  <1>1. PICK op \in Ops, o \in Orders, k \in Keys \cup {NoKey}, a \in BOOLEAN, t \in Targets :
           /\ Submit(w, op, o, k, a, t)
           /\ op = "register" => o \notin Placed /\ \A v \in Workers : cmd[v].order # o
           /\ op # "register" => o \in Placed
           /\ op = "kitchen" => t \in KitchenStatuses
           /\ op = "status" => t \in (OrderStatuses \ {"cancelled"}) \cup {"unset"}
    BY RequestIsSubmit DEF IInv
  <1>2. /\ cmd' \in [Workers -> Command]
        /\ \A v \in Workers \ {w} : cmd'[v] = cmd[v]
        /\ cmd'[w] = Issued(op, o, k, a, t)
    <2>1. Issued(op, o, k, a, t) \in Command
      BY IssuedType
    <2> QED BY <1>1, <2>1, SMT DEF Submit, IInv, TypeOK
  <1>3. /\ cmd'[w].op = op /\ cmd'[w].stage = "issued" /\ cmd'[w].order = o /\ cmd'[w].target = t
    BY <1>2, SMT DEF Issued
  <1>4. UNCHANGED <<rows, stock, journal, cancellations, config>>
    BY <1>1 DEF Submit
  <1>5. \A v \in Workers : NamesOrder(v)'
    BY <1>1, <1>2, <1>3, <1>4, SMT DEF IInv, NamesOrder, Placed, rows
  <1>6. FreshIds'
    <2>1. \A v \in Workers : cmd[v].stage # "idle" /\ cmd[v].op = "register" => cmd[v].order # o
      BY <1>1, SMT DEF IInv, NamesOrder
    <2> QED BY <1>1, <1>2, <1>3, <2>1, SMT DEF IInv, FreshIds
  <1>7. IdleNamesNone' /\ RowLockExclusive'
    BY <1>2, <1>3, SMT DEF IInv, IdleNamesNone, RowLockExclusive, HoldsRow
  <1>8. CancelSeesRow'
    BY <1>2, <1>3, <1>4, SMT DEF IInv, CancelSeesRow, At, Outstanding, rows, stock
  <1>9. CancelledGoesBack'
    BY <1>2, <1>3, <1>4, SMT DEF IInv, CancelledGoesBack, At, rows
  <1>10. CommandInv'
    BY <1>2, <1>5, <1>6, <1>7, <1>8, <1>9, Zenon DEF CommandInv
  <1> QED BY <1>4, <1>10, CommandStep, SMT DEF config, IInv, TypeOK

LEMMA RollbackInv ==
  ASSUME IInv, NEW w \in Workers, Rollback(w)
  PROVE  IInv'
  BY EndInv DEF Rollback

LEMMA RegisterRefuseInv ==
  ASSUME IInv, NEW w \in Workers, RegisterRefuse(w)
  PROVE  IInv'
  BY EndInv DEF RegisterRefuse

LEMMA ConfigInv ==
  ASSUME IInv, ActivateRecipe \/ RegisterAccounts
  PROVE  IInv'
  <1>1. /\ UNCHANGED <<rows, stock, journal, cancellations, cmd>>
        /\ recipe' \in Recipes
        /\ chartReady' \in BOOLEAN
    <2>1. CASE ActivateRecipe
      BY <2>1, SMT DEF ActivateRecipe, IInv, TypeOK, rows, stock
    <2>2. CASE RegisterAccounts
      BY <2>2, SMT DEF RegisterAccounts, IInv, TypeOK, rows, stock
    <2> QED BY <2>1, <2>2
  <1>2. TypeOK'
    BY <1>1, SMT DEF IInv, TypeOK, rows, stock
  <1>3. (\A w \in Workers : NamesOrder(w))' /\ FreshIds' /\ IdleNamesNone'
    BY <1>1, SMT DEF IInv, NamesOrder, FreshIds, IdleNamesNone, Placed, rows
  <1>4. UnplacedUntouched' /\ StockRestoredExactlyOnce'
    BY <1>1, SMT DEF IInv, UnplacedUntouched, StockRestoredExactlyOnce, Placed, rows, stock
  <1>5. RowLockExclusive' /\ CancelSeesRow' /\ CancelledGoesBack'
    BY <1>1, SMT DEF IInv, RowLockExclusive, HoldsRow, CancelSeesRow, CancelledGoesBack, At,
                     Outstanding, rows, stock
  <1> QED BY <1>2, <1>3, <1>4, <1>5, Zenon DEF IInv

-----------------------------------------------------------------------------
(* The reads.  Each keeps or ends the command, whose order is unchanged.    *)

\* A read moves one command from "issued" to "read" and touches nothing else;
\* what is left to show of it is what it put into the command.
ReadStep(w, c) ==
  /\ cmd[w].stage = "issued" /\ c.stage = "read"
  /\ cmd' = [cmd EXCEPT ![w] = c]
  /\ c.op = cmd[w].op /\ c.order = cmd[w].order /\ c.target = cmd[w].target
  /\ UNCHANGED <<rows, stock, journal, cancellations, config>>
  /\ c.op = "register" => c.qty \in Recipes
  /\ c.op \in {"status", "kitchen"} =>
       c.status \in OrderStatuses /\ (c.status = "cancelled" => c.order \in cancellations)
  /\ c.op = "cancel" => status[c.order] \notin Final /\ c.qty = Outstanding(c.order)
  /\ c.op \in {"cancel", "repair"} => RowFree(w, c.order)

LEMMA ReadInv ==
  ASSUME IInv, NEW w \in Workers, NEW c \in Command, ReadStep(w, c)
  PROVE  IInv'
  <1> USE DEF ReadStep
  <1>1. /\ cmd' \in [Workers -> Command]
        /\ \A v \in Workers \ {w} : cmd'[v] = cmd[v]
        /\ cmd'[w] = c
    BY SMT DEF IInv, TypeOK
  <1>2. \A v \in Workers : NamesOrder(v)'
    BY <1>1, SMT DEF IInv, NamesOrder, Placed, rows
  <1>3. FreshIds' /\ IdleNamesNone'
    BY <1>1, SMT DEF IInv, FreshIds, IdleNamesNone
  <1>4. RowLockExclusive'
    BY <1>1, SMT DEF IInv, RowLockExclusive, HoldsRow, RowFree
  <1>5. CancelSeesRow'
    BY <1>1, SMT DEF IInv, CancelSeesRow, At, Outstanding, rows, stock
  <1>6. CancelledGoesBack'
    BY <1>1, SMT DEF IInv, CancelledGoesBack, At, rows
  <1>7. CommandInv'
    BY <1>1, <1>2, <1>3, <1>4, <1>5, <1>6, Zenon DEF CommandInv
  <1> QED BY <1>7, CommandStep, SMT DEF config, IInv, TypeOK

\* A command keeps the fields that its reads do not fill in.
LEMMA LoadedFields ==
  ASSUME NEW m \in Command, NEW s \in OrderStatuses \cup {"absent"}, NEW k \in KitchenStatuses,
         NEW q \in [Items -> Int]
  PROVE  /\ Loaded(m, s, k, q) \in Command
         /\ Loaded(m, s, k, q).stage = "read"
         /\ Loaded(m, s, k, q).op = m.op
         /\ Loaded(m, s, k, q).order = m.order
         /\ Loaded(m, s, k, q).target = m.target
         /\ Loaded(m, s, k, q).status = s
         /\ Loaded(m, s, k, q).qty = q
  BY SMT DEF Loaded, Command

LEMMA RegisterReadInv ==
  ASSUME IInv, NEW w \in Workers, RegisterRead(w)
  PROVE  IInv'
  <1> DEFINE c == Loaded(cmd[w], cmd[w].status, cmd[w].kitchen, recipe)
  <1>1. UNCHANGED <<rows, stock, journal, cancellations, config>> /\ At(w, "register", "issued")
    BY DEF RegisterRead
  <1>2. CASE End(w)
    BY <1>1, <1>2, EndInv
  <1>3. CASE cmd' = [cmd EXCEPT ![w] = c]
    <2>1. recipe \in Recipes /\ recipe \in [Items -> Int]
      BY OrderAssumption, SMT DEF IInv, TypeOK
    <2>2. /\ cmd[w] \in Command
          /\ cmd[w].status \in OrderStatuses \cup {"absent"}
          /\ cmd[w].kitchen \in KitchenStatuses
      BY CommandFields DEF IInv
    <2>3. c \in Command /\ c.stage = "read" /\ c.op = cmd[w].op /\ c.order = cmd[w].order
            /\ c.target = cmd[w].target /\ c.qty = recipe
      <3>1. recipe \in [Items -> Int]
        BY <2>1
      <3>2. Loaded(cmd[w], cmd[w].status, cmd[w].kitchen, recipe) \in Command
        BY <2>2, <3>1, LoadedFields
      <3> QED BY <2>2, <3>1, <3>2, SMT DEF Loaded
    <2> HIDE DEF c
    <2>4. ReadStep(w, c)
      BY <1>1, <1>3, <2>1, <2>3, SMT DEF ReadStep, At
    <2> QED BY <2>3, <2>4, ReadInv
  <1> QED BY <1>2, <1>3 DEF RegisterRead, Load

LEMMA CancelReadInv ==
  ASSUME IInv, NEW w \in Workers, CancelRead(w)
  PROVE  IInv'
  <1> DEFINE o == cmd[w].order
             c == Loaded(cmd[w], cmd[w].status, kitchen[o], Outstanding(o))
  <1>1. /\ UNCHANGED <<rows, stock, journal, cancellations, config>>
        /\ At(w, "cancel", "issued") /\ RowFree(w, o)
    BY DEF CancelRead
  <1>2. CASE End(w)
    BY <1>1, <1>2, EndInv
  <1>3. CASE status[o] \notin Final /\ cmd' = [cmd EXCEPT ![w] = c]
    <2>1. o \in Orders
      BY <1>1, SMT DEF IInv, NamesOrder, At
    <2>2. kitchen[o] \in KitchenStatuses /\ Outstanding(o) \in [Items -> Int]
      BY <2>1, SMT DEF IInv, TypeOK, Outstanding
    <2>3. /\ cmd[w] \in Command
          /\ cmd[w].status \in OrderStatuses \cup {"absent"}
      BY CommandFields DEF IInv
    <2>4. c \in Command /\ c.stage = "read" /\ c.op = cmd[w].op /\ c.order = o
            /\ c.target = cmd[w].target /\ c.qty = Outstanding(o)
      BY <2>2, <2>3, LoadedFields
    <2> HIDE DEF c
    <2>5. ReadStep(w, c)
      BY <1>1, <1>3, <2>4, SMT DEF ReadStep, At
    <2> QED BY <2>4, <2>5, ReadInv
  <1> QED BY <1>2, <1>3 DEF CancelRead, Load

LEMMA StatusReadInv ==
  ASSUME IInv, NEW w \in Workers, StatusRead(w)
  PROVE  IInv'
  <1> DEFINE o == cmd[w].order
             s == IF cmd[w].target = "unset" THEN status[o] ELSE cmd[w].target
             c == Loaded(cmd[w], s, kitchen[o], cmd[w].qty)
  <1>1. UNCHANGED <<rows, stock, journal, cancellations, config>> /\ At(w, "status", "issued")
    BY DEF StatusRead
  <1>2. CASE End(w)
    BY <1>1, <1>2, EndInv
  <1>3. CASE cmd' = [cmd EXCEPT ![w] = c]
    <2>1. o \in Placed /\ o \in Orders
            /\ cmd[w].target \in (OrderStatuses \ {"cancelled"}) \cup {"unset"}
      BY <1>1, SMT DEF IInv, NamesOrder, At
    <2>2. kitchen[o] \in KitchenStatuses /\ status[o] \in OrderStatuses
      BY <2>1, SMT DEF IInv, TypeOK, Placed
    <2>3. s \in OrderStatuses /\ (s = "cancelled" => o \in cancellations)
      BY <2>1, <2>2, SMT DEF IInv, CancelledGoesBack
    <2> HIDE DEF s
    <2>4. c \in Command /\ c.stage = "read" /\ c.op = cmd[w].op /\ c.order = o
            /\ c.target = cmd[w].target /\ c.status = s
      BY <2>2, <2>3, CommandFields, LoadedFields DEF IInv
    <2> HIDE DEF c
    <2>5. ReadStep(w, c)
      BY <1>1, <1>3, <2>3, <2>4, SMT DEF ReadStep, At
    <2> QED BY <2>4, <2>5, ReadInv
  <1> QED BY <1>2, <1>3 DEF StatusRead, Load

LEMMA KitchenReadInv ==
  ASSUME IInv, NEW w \in Workers, KitchenRead(w)
  PROVE  IInv'
  <1> DEFINE o == cmd[w].order
             c == Loaded(cmd[w], status[o], cmd[w].target, cmd[w].qty)
  <1>1. UNCHANGED <<rows, stock, journal, cancellations, config>> /\ At(w, "kitchen", "issued")
    BY DEF KitchenRead
  <1>2. CASE End(w)
    BY <1>1, <1>2, EndInv
  <1>3. CASE status[o] # "cancelled" /\ cmd' = [cmd EXCEPT ![w] = c]
    <2>1. o \in Placed /\ o \in Orders /\ cmd[w].target \in KitchenStatuses
      BY <1>1, SMT DEF IInv, NamesOrder, At
    <2>2. status[o] \in OrderStatuses
      BY <2>1, SMT DEF IInv, TypeOK, Placed
    <2>3. c \in Command /\ c.stage = "read" /\ c.op = cmd[w].op /\ c.order = o
            /\ c.target = cmd[w].target /\ c.status = status[o]
      BY <2>1, <2>2, CommandFields, LoadedFields DEF IInv
    <2> HIDE DEF c
    <2>4. ReadStep(w, c)
      BY <1>1, <1>3, <2>2, <2>3, SMT DEF ReadStep, At
    <2> QED BY <2>3, <2>4, ReadInv
  <1> QED BY <1>2, <1>3 DEF KitchenRead, Load

LEMMA RepairReadInv ==
  ASSUME IInv, NEW w \in Workers, RepairRead(w)
  PROVE  IInv'
  <1> DEFINE c == Loaded(cmd[w], cmd[w].status, cmd[w].kitchen, cmd[w].qty)
  <1>1. /\ UNCHANGED <<rows, stock, journal, cancellations, config>>
        /\ At(w, "repair", "issued") /\ RowFree(w, cmd[w].order)
    BY DEF RepairRead
  <1>2. CASE End(w)
    BY <1>1, <1>2, EndInv
  <1>3. CASE cmd' = [cmd EXCEPT ![w] = c]
    <2>1. c \in Command /\ c.stage = "read" /\ c.op = cmd[w].op /\ c.order = cmd[w].order
            /\ c.target = cmd[w].target
      BY CommandFields, LoadedFields DEF IInv
    <2> HIDE DEF c
    <2>2. ReadStep(w, c)
      BY <1>1, <1>3, <2>1, SMT DEF ReadStep, At
    <2> QED BY <2>1, <2>2, ReadInv
  <1> QED BY <1>2, <1>3 DEF RepairRead, Load

-----------------------------------------------------------------------------
(* The commits.                                                             *)

\* After a commit only the worker that committed is different.
LEMMA EndFields ==
  ASSUME TypeOK, NEW w \in Workers, End(w)
  PROVE  /\ cmd' \in [Workers -> Command]
         /\ \A v \in Workers \ {w} : cmd'[v] = cmd[v]
         /\ cmd'[w].stage = "idle" /\ cmd'[w].order = NoOrder
  BY IdleType, SMT DEF End, TypeOK, Idle

LEMMA RegisterCommitInv ==
  ASSUME IInv, NEW w \in Workers, RegisterCommit(w)
  PROVE  IInv'
  <1> DEFINE o == cmd[w].order
             q == cmd[w].qty
  <1>1. /\ End(w) /\ At(w, "register", "read")
        /\ UNCHANGED <<restored, elsewhere, cancellations, config>>
    BY DEF RegisterCommit
  <1>2. /\ cmd' \in [Workers -> Command]
        /\ \A v \in Workers \ {w} : cmd'[v] = cmd[v]
        /\ cmd'[w].stage = "idle" /\ cmd'[w].order = NoOrder
    BY <1>1, EndFields DEF IInv
  <1>3. o \in Orders \ Placed /\ q \in Recipes
    BY <1>1, SMT DEF IInv, NamesOrder, At
  <1>4. q \in [Items -> Nat] /\ q \in [Items -> Int]
    BY <1>3, OrderAssumption, SMT
  <1>5. /\ status' = [status EXCEPT ![o] = "preparing"]
        /\ consumed' = [consumed EXCEPT ![o] = q]
        /\ status' \in [Orders -> OrderStatuses \cup {"absent"}]
        /\ consumed' \in [Orders -> [Items -> Nat]]
    BY <1>3, <1>4, SMT DEF RegisterCommit, IInv, TypeOK, OrderStatuses
  <1>6. \A p \in Orders \ {o} : status'[p] = status[p] /\ consumed'[p] = consumed[p]
    BY <1>5, SMT DEF IInv, TypeOK
  <1>7. status'[o] = "preparing" /\ consumed'[o] = q
    BY <1>3, <1>5, SMT DEF IInv, TypeOK
  <1>8. TypeOK'
    <2>1. cmd[w].key \in Keys \cup {NoKey}
      BY CommandFields DEF IInv
    <2>2. /\ clientKey' = [clientKey EXCEPT ![o] = cmd[w].key]
          /\ kitchen' = [kitchen EXCEPT ![o] = "NEW"]
          /\ balance' = [i \in Items |-> balance[i] - q[i]]
      BY DEF RegisterCommit
    <2>3. clientKey' \in [Orders -> Keys \cup {NoKey}] /\ kitchen' \in [Orders -> KitchenStatuses]
      <3>1. clientKey \in [Orders -> Keys \cup {NoKey}] /\ kitchen \in [Orders -> KitchenStatuses]
        BY DEF IInv, TypeOK
      <3>2. "NEW" \in KitchenStatuses
        BY DEF KitchenStatuses
      <3> QED BY <2>1, <2>2, <3>1, <3>2, UpdateType
    <2>4. balance' \in [Items -> Int]
      BY <1>4, <2>2, SMT DEF IInv, TypeOK
    <2>5. journal' \in [Orders -> [JournalTypes -> JournalStates]]
      <3> DEFINE j == [t \in JournalTypes |->
                         IF chartReady /\ NeedsJournal(o, t, q) THEN "POSTED" ELSE "none"]
      <3>1. journal' = [journal EXCEPT ![o] = j]
        BY DEF RegisterCommit
      <3>2. j \in [JournalTypes -> JournalStates]
        BY SMT DEF JournalStates
      <3> HIDE DEF j
      <3>3. journal \in [Orders -> [JournalTypes -> JournalStates]]
        BY DEF IInv, TypeOK
      <3> QED BY <3>1, <3>2, <3>3, UpdateType
    <2>6. /\ restored' \in [Orders -> [Items -> Int]] /\ elsewhere' \in [Items -> Int]
          /\ cancellations' \subseteq Orders
          /\ recipe' \in Recipes /\ chartReady' \in BOOLEAN
      BY <1>1, SMT DEF IInv, TypeOK, config
    <2> QED BY <1>2, <1>5, <2>3, <2>4, <2>5, <2>6, Zenon DEF TypeOK
  <1>9. \A v \in Workers : NamesOrder(v)'
    BY <1>1, <1>2, <1>3, <1>6, <1>7, SMT DEF IInv, NamesOrder, FreshIds, Placed, At
  <1>10. FreshIds' /\ IdleNamesNone' /\ RowLockExclusive'
    BY <1>2, SMT DEF IInv, FreshIds, IdleNamesNone, RowLockExclusive, HoldsRow
  <1>11. UnplacedUntouched'
    BY <1>1, <1>6, <1>7, SMT DEF IInv, UnplacedUntouched, Placed
  <1>12. CancelSeesRow'
    <2>1. \A v \in Workers \ {w} : At(v, "cancel", "read") => cmd[v].order \in Orders \ {o}
      BY <1>3, SMT DEF IInv, NamesOrder, At
    <2> QED BY <1>1, <1>2, <1>6, <2>1, SMT DEF IInv, CancelSeesRow, At, Outstanding
  <1>13. CancelledGoesBack'
    BY <1>1, <1>2, <1>6, <1>7, SMT DEF IInv, CancelledGoesBack, At
  <1>14. StockRestoredExactlyOnce'
    BY <1>1, <1>3, <1>6, <1>7, SMT DEF IInv, StockRestoredExactlyOnce, UnplacedUntouched
  <1> QED BY <1>8, <1>9, <1>10, <1>11, <1>12, <1>13, <1>14, Zenon DEF IInv

\* The stock a cancellation puts back: what is outstanding, which is all the
\* order consumed, or nothing when it was cancelled once already.
LEMMA CancelRestores ==
  ASSUME IInv, NEW w \in Workers, CancelCommit(w)
  PROVE  LET o == cmd[w].order IN
         /\ o \in Orders
         /\ Restored(cmd[w].qty) \in [Items -> Int]
         /\ Restored(cmd[w].qty) = IF o \in cancellations THEN Nothing ELSE consumed[o]
         /\ restored' = [restored EXCEPT ![o] = consumed[o]]
  <1> DEFINE o == cmd[w].order
             q == cmd[w].qty
  <1>1. At(w, "cancel", "read")
    BY DEF CancelCommit
  <1>2. o \in Orders
    BY <1>1, SMT DEF IInv, NamesOrder, At
  <1>3. q = [i \in Items |-> consumed[o][i] - restored[o][i]]
    BY <1>1 DEF IInv, CancelSeesRow, Outstanding
  <1>4. /\ consumed[o] \in [Items -> Nat]
        /\ restored[o] = IF o \in cancellations THEN consumed[o] ELSE Nothing
    BY <1>2, SMT DEF IInv, TypeOK, StockRestoredExactlyOnce
  <1> HIDE DEF o, q
  <1>5. Restored(q) = IF o \in cancellations THEN Nothing ELSE consumed[o]
    BY <1>3, <1>4, SMT DEF Restored, Nothing
  <1>6. Restored(q) \in [Items -> Int]
    BY <1>4, <1>5, SMT DEF Nothing
  <1>7. [i \in Items |-> restored[o][i] + Restored(q)[i]] = consumed[o]
    BY <1>4, <1>5, SMT DEF Nothing
  <1>8. restored' = [restored EXCEPT ![o] = [i \in Items |-> restored[o][i] + Restored(q)[i]]]
    BY <1>2, SMT DEF CancelCommit, IInv, TypeOK, o, q
  <1> QED BY <1>2, <1>5, <1>6, <1>7, <1>8 DEF o, q

LEMMA CancelCommitInv ==
  ASSUME IInv, NEW w \in Workers, CancelCommit(w)
  PROVE  IInv'
  <1> DEFINE o == cmd[w].order
  <1>1. End(w) /\ At(w, "cancel", "read") /\ UNCHANGED <<clientKey, consumed, elsewhere, config>>
    BY DEF CancelCommit
  <1>2. /\ cmd' \in [Workers -> Command]
        /\ \A v \in Workers \ {w} : cmd'[v] = cmd[v]
        /\ cmd'[w].stage = "idle" /\ cmd'[w].order = NoOrder
    BY <1>1, EndFields DEF IInv
  <1>3. /\ o \in Orders /\ o \in Placed
        /\ Restored(cmd[w].qty) \in [Items -> Int]
        /\ restored' = [restored EXCEPT ![o] = consumed[o]]
    BY <1>1, CancelRestores, SMT DEF IInv, NamesOrder, At
  <1>4. /\ status' = [status EXCEPT ![o] = "cancelled"]
        /\ kitchen' = [kitchen EXCEPT ![o] = cmd[w].kitchen]
        /\ balance' = [i \in Items |-> balance[i] + Restored(cmd[w].qty)[i]]
        /\ cancellations' = cancellations \cup {o}
    BY DEF CancelCommit
  <1>5. /\ \A p \in Orders \ {o} : status'[p] = status[p] /\ restored'[p] = restored[p]
        /\ status'[o] = "cancelled" /\ restored'[o] = consumed[o]
    BY <1>3, <1>4, SMT DEF IInv, TypeOK
  <1>6. TypeOK'
    <2>1. "cancelled" \in OrderStatuses \cup {"absent"} /\ cmd[w].kitchen \in KitchenStatuses
            /\ consumed[o] \in [Items -> Int]
      BY <1>3, CommandFields, SMT DEF OrderStatuses, IInv, TypeOK
    <2>2. status' \in [Orders -> OrderStatuses \cup {"absent"}]
            /\ kitchen' \in [Orders -> KitchenStatuses]
            /\ restored' \in [Orders -> [Items -> Int]]
      BY <1>3, <1>4, <2>1, UpdateType DEF IInv, TypeOK
    <2>3. balance' \in [Items -> Int] /\ cancellations' \subseteq Orders
      BY <1>3, <1>4, SMT DEF IInv, TypeOK
    <2>4. journal' \in [Orders -> [JournalTypes -> JournalStates]]
      <3> DEFINE j == [t \in JournalTypes |-> Reversed(journal[o][t])]
      <3>1. journal \in [Orders -> [JournalTypes -> JournalStates]]
        BY DEF IInv, TypeOK
      <3>2. j \in [JournalTypes -> JournalStates]
        BY <1>3, <3>1, SMT DEF Reversed, JournalStates
      <3>3. journal' = [journal EXCEPT ![o] = j]
        BY <1>3, <3>1, SMT DEF CancelCommit
      <3> HIDE DEF j
      <3> QED BY <3>1, <3>2, <3>3, UpdateType
    <2>5. /\ clientKey' \in [Orders -> Keys \cup {NoKey}] /\ consumed' \in [Orders -> [Items -> Nat]]
          /\ elsewhere' \in [Items -> Int] /\ recipe' \in Recipes /\ chartReady' \in BOOLEAN
      BY <1>1, SMT DEF IInv, TypeOK, config
    <2> QED BY <1>2, <2>2, <2>3, <2>4, <2>5, Zenon DEF TypeOK
  <1>7. \A v \in Workers : NamesOrder(v)'
    BY <1>2, <1>3, <1>5, SMT DEF IInv, NamesOrder, Placed
  <1>8. FreshIds' /\ IdleNamesNone' /\ RowLockExclusive'
    BY <1>2, SMT DEF IInv, FreshIds, IdleNamesNone, RowLockExclusive, HoldsRow
  <1>9. UnplacedUntouched'
    BY <1>1, <1>3, <1>4, <1>5, SMT DEF IInv, UnplacedUntouched, Placed
  <1>10. CancelSeesRow'
    <2>1. \A v \in Workers \ {w} : At(v, "cancel", "read") => cmd[v].order \in Orders \ {o}
      BY <1>1, <1>3, SMT DEF IInv, NamesOrder, RowLockExclusive, HoldsRow, At
    <2> QED BY <1>1, <1>2, <1>5, <2>1, SMT DEF IInv, CancelSeesRow, At, Outstanding
  <1>11. CancelledGoesBack'
    BY <1>2, <1>4, <1>5, SMT DEF IInv, CancelledGoesBack, At
  <1>12. StockRestoredExactlyOnce'
    BY <1>1, <1>3, <1>4, <1>5, SMT DEF IInv, StockRestoredExactlyOnce
  <1> QED BY <1>6, <1>7, <1>8, <1>9, <1>10, <1>11, <1>12, Zenon DEF IInv

LEMMA SaveRowInv ==
  ASSUME IInv, NEW w \in Workers, SaveRow(w)
  PROVE  IInv'
  <1> DEFINE o == cmd[w].order
             s == cmd[w].status
  <1>1. /\ End(w) /\ (At(w, "status", "read") \/ At(w, "kitchen", "read")) /\ RowFree(w, o)
        /\ UNCHANGED <<clientKey, stock, journal, cancellations, config>>
    BY DEF SaveRow
  <1>2. /\ cmd' \in [Workers -> Command]
        /\ \A v \in Workers \ {w} : cmd'[v] = cmd[v]
        /\ cmd'[w].stage = "idle" /\ cmd'[w].order = NoOrder
    BY <1>1, EndFields DEF IInv
  <1>3. /\ o \in Orders /\ o \in Placed /\ s \in OrderStatuses
        /\ s = "cancelled" => o \in cancellations
    BY <1>1, SMT DEF IInv, NamesOrder, CancelledGoesBack, At
  <1>4. /\ status' = [status EXCEPT ![o] = s]
        /\ kitchen' = [kitchen EXCEPT ![o] = cmd[w].kitchen]
    BY DEF SaveRow
  <1>5. /\ \A p \in Orders \ {o} : status'[p] = status[p]
        /\ status'[o] = s /\ s # "absent"
    BY <1>3, <1>4, SMT DEF IInv, TypeOK, OrderStatuses
  <1>6. TypeOK'
    <2>1. s \in OrderStatuses \cup {"absent"} /\ cmd[w].kitchen \in KitchenStatuses
      BY <1>3, CommandFields DEF IInv
    <2>2. status' \in [Orders -> OrderStatuses \cup {"absent"}]
            /\ kitchen' \in [Orders -> KitchenStatuses]
      BY <1>4, <2>1, UpdateType DEF IInv, TypeOK
    <2> QED BY <1>1, <1>2, <2>2, SMT DEF IInv, TypeOK, stock, config
  <1>7. \A v \in Workers : NamesOrder(v)'
    BY <1>2, <1>3, <1>5, SMT DEF IInv, NamesOrder, Placed
  <1>8. FreshIds' /\ IdleNamesNone' /\ RowLockExclusive'
    BY <1>2, SMT DEF IInv, FreshIds, IdleNamesNone, RowLockExclusive, HoldsRow
  <1>9. UnplacedUntouched'
    BY <1>1, <1>3, <1>5, SMT DEF IInv, UnplacedUntouched, Placed, stock
  <1>10. CancelSeesRow'
    <2>1. \A v \in Workers \ {w} : At(v, "cancel", "read") => cmd[v].order \in Orders \ {o}
      BY <1>1, SMT DEF IInv, NamesOrder, RowFree, HoldsRow, At
    <2> QED BY <1>1, <1>2, <1>5, <2>1, SMT DEF IInv, CancelSeesRow, At, Outstanding, stock
  <1>11. CancelledGoesBack'
    BY <1>1, <1>2, <1>3, <1>5, SMT DEF IInv, CancelledGoesBack, At
  <1>12. StockRestoredExactlyOnce'
    BY <1>1, SMT DEF IInv, StockRestoredExactlyOnce, stock
  <1> QED BY <1>6, <1>7, <1>8, <1>9, <1>10, <1>11, <1>12, Zenon DEF IInv

LEMMA RepairCommitInv ==
  ASSUME IInv, NEW w \in Workers, RepairCommit(w)
  PROVE  IInv'
  <1> DEFINE o == cmd[w].order
             t == cmd[w].target
             Ledger == [JournalTypes -> JournalStates]
  <1>1. End(w) /\ At(w, "repair", "read") /\ UNCHANGED <<rows, stock, cancellations, config>>
    BY DEF RepairCommit
  <1>2. /\ cmd' \in [Workers -> Command]
        /\ \A v \in Workers \ {w} : cmd'[v] = cmd[v]
        /\ cmd'[w].stage = "idle" /\ cmd'[w].order = NoOrder
    BY <1>1, EndFields DEF IInv
  <1>3. o \in Orders /\ journal \in [Orders -> Ledger] /\ journal[o] \in Ledger
    BY <1>1, SMT DEF IInv, TypeOK, NamesOrder, At
  <1>4. journal' \in [Orders -> Ledger]
    <2>1. CASE journal' = journal
      BY <1>3, <2>1
    <2>2. ASSUME NEW k \in JournalTypes, NEW x \in JournalStates,
                 journal' = [journal EXCEPT ![o][k] = x]
          PROVE  journal' \in [Orders -> Ledger]
      <3> DEFINE p == [journal[o] EXCEPT ![k] = x]
      <3>1. p \in Ledger
        BY <1>3, UpdateType
      <3>2. journal' = [journal EXCEPT ![o] = p]
        BY <2>2
      <3> HIDE DEF p, Ledger
      <3> QED BY <1>3, <3>1, <3>2, UpdateType
    <2>3. CASE \E k \in JournalTypes : journal' = [journal EXCEPT ![o][k] = Reversed(@)]
      <3>1. PICK k \in JournalTypes : journal' = [journal EXCEPT ![o][k] = Reversed(@)]
        BY <2>3
      <3>2. Reversed(journal[o][k]) \in JournalStates
        BY <1>3, SMT DEF Reversed, JournalStates
      <3>3. journal' = [journal EXCEPT ![o][k] = Reversed(journal[o][k])]
        BY <1>3, <3>1
      <3> QED BY <2>2, <3>2, <3>3
    <2>4. CASE t \in JournalTypes /\ journal' = [journal EXCEPT ![o][t] = "POSTED"]
      BY <2>2, <2>4 DEF JournalStates
    <2> QED BY <2>1, <2>3, <2>4, Zenon DEF RepairCommit
  <1>5. TypeOK'
    BY <1>1, <1>2, <1>4, SMT DEF IInv, TypeOK, rows, stock, config
  <1>6. \A v \in Workers : NamesOrder(v)'
    BY <1>1, <1>2, SMT DEF IInv, NamesOrder, Placed, rows
  <1>7. FreshIds' /\ IdleNamesNone' /\ RowLockExclusive'
    BY <1>2, SMT DEF IInv, FreshIds, IdleNamesNone, RowLockExclusive, HoldsRow
  <1>8. UnplacedUntouched' /\ StockRestoredExactlyOnce'
    BY <1>1, SMT DEF IInv, UnplacedUntouched, StockRestoredExactlyOnce, Placed, rows, stock
  <1>9. CancelSeesRow' /\ CancelledGoesBack'
    BY <1>1, <1>2, SMT DEF IInv, CancelSeesRow, CancelledGoesBack, At, Outstanding, rows, stock
  <1> QED BY <1>5, <1>6, <1>7, <1>8, <1>9, Zenon DEF IInv

-----------------------------------------------------------------------------
(* What the other contexts do.                                              *)

\* Another document's movement goes into the balance and into nothing of an order.
LEMMA MovedElsewhere ==
  ASSUME TypeOK, MoveElsewhere
  PROVE  /\ balance' \in [Items -> Int] /\ elsewhere' \in [Items -> Int]
         /\ \A i \in Items : balance'[i] - elsewhere'[i] = balance[i] - elsewhere[i]
         /\ \A i \in Items : elsewhere'[i] = elsewhere[i] => balance'[i] = balance[i]
         /\ UNCHANGED <<rows, consumed, restored, journal, cancellations, config, cmd>>
  <1>1. PICK i \in Items, n \in Net :
          /\ n # elsewhere[i]
          /\ elsewhere' = [elsewhere EXCEPT ![i] = n]
          /\ balance' = [balance EXCEPT ![i] = @ + (n - elsewhere[i])]
          /\ UNCHANGED <<rows, consumed, restored, journal, cancellations, config, cmd>>
    BY DEF MoveElsewhere
  <1>2. n \in Int /\ balance \in [Items -> Int] /\ elsewhere \in [Items -> Int]
    BY OrderAssumption DEF TypeOK
  <1>3. /\ elsewhere'[i] = n /\ balance'[i] = balance[i] + (n - elsewhere[i])
        /\ balance'[i] \in Int
        /\ \A j \in Items \ {i} : elsewhere'[j] = elsewhere[j] /\ balance'[j] = balance[j]
    BY <1>1, <1>2, SMT
  <1>4. balance' \in [Items -> Int] /\ elsewhere' \in [Items -> Int]
    BY <1>1, <1>2, SMT
  <1>5. ASSUME NEW j \in Items
        PROVE  /\ balance'[j] - elsewhere'[j] = balance[j] - elsewhere[j]
               /\ elsewhere'[j] = elsewhere[j] => balance'[j] = balance[j]
    BY <1>1, <1>2, <1>3, SMT
  <1> QED BY <1>1, <1>4, <1>5

\* An entry reversed by hand was in force; nothing else changes.
LEMMA ReversedByHand ==
  ASSUME TypeOK, ReverseByHand
  PROVE  /\ journal' \in [Orders -> [JournalTypes -> JournalStates]]
         /\ \A o \in Orders, t \in JournalTypes :
              \/ journal'[o][t] = journal[o][t]
              \/ journal[o][t] = "POSTED" /\ journal'[o][t] = "BY_HAND"
         /\ UNCHANGED <<rows, stock, cancellations, config, cmd>>
  <1>1. PICK o \in Orders, t \in JournalTypes :
          /\ journal[o][t] = "POSTED"
          /\ journal' = [journal EXCEPT ![o][t] = "BY_HAND"]
          /\ UNCHANGED <<rows, stock, cancellations, config, cmd>>
    BY DEF ReverseByHand
  <1> DEFINE j == [journal[o] EXCEPT ![t] = "BY_HAND"]
  <1>2. journal \in [Orders -> [JournalTypes -> JournalStates]] /\ "BY_HAND" \in JournalStates
    BY DEF TypeOK, JournalStates
  <1>3. j \in [JournalTypes -> JournalStates] /\ journal' = [journal EXCEPT ![o] = j]
    BY <1>1, <1>2, SMT
  <1>4. /\ j[t] = "BY_HAND" /\ \A k \in JournalTypes \ {t} : j[k] = journal[o][k]
    BY <1>2, SMT
  <1> HIDE DEF j
  <1>5. journal' \in [Orders -> [JournalTypes -> JournalStates]]
    BY <1>2, <1>3, UpdateType
  <1>6. journal'[o] = j /\ \A p \in Orders \ {o} : journal'[p] = journal[p]
    BY <1>2, <1>3
  <1> QED BY <1>1, <1>4, <1>5, <1>6

LEMMA ElsewhereInv ==
  ASSUME IInv, MoveElsewhere \/ ReverseByHand
  PROVE  IInv'
  <1>1. /\ balance' \in [Items -> Int] /\ elsewhere' \in [Items -> Int]
        /\ journal' \in [Orders -> [JournalTypes -> JournalStates]]
        /\ UNCHANGED <<rows, consumed, restored, cancellations, config, cmd>>
    <2>1. CASE MoveElsewhere
      BY <2>1, MovedElsewhere, SMT DEF IInv, TypeOK
    <2>2. CASE ReverseByHand
      BY <2>2, ReversedByHand, SMT DEF IInv, TypeOK, stock
    <2> QED BY <2>1, <2>2
  <1>2. TypeOK'
    BY <1>1, SMT DEF IInv, TypeOK, rows, config
  <1>3. (\A w \in Workers : NamesOrder(w))' /\ FreshIds' /\ IdleNamesNone'
    BY <1>1, SMT DEF IInv, NamesOrder, FreshIds, IdleNamesNone, Placed, rows
  <1>4. UnplacedUntouched' /\ StockRestoredExactlyOnce'
    BY <1>1, SMT DEF IInv, UnplacedUntouched, StockRestoredExactlyOnce, Placed, rows
  <1>5. RowLockExclusive' /\ CancelSeesRow' /\ CancelledGoesBack'
    BY <1>1, SMT DEF IInv, RowLockExclusive, HoldsRow, CancelSeesRow, CancelledGoesBack, At,
                     Outstanding, rows
  <1> QED BY <1>2, <1>3, <1>4, <1>5, Zenon DEF IInv

-----------------------------------------------------------------------------
(* The invariant, and what follows from it.                                 *)

LEMMA InitInv == Init => IInv
  <1> SUFFICES ASSUME Init PROVE IInv
    OBVIOUS
  <1>1. Nothing \in [Items -> Nat] /\ Nothing \in [Items -> Int] /\ Opening \in [Items -> Int]
    BY OrderAssumption, SMT DEF Nothing
  <1>2. \A w \in Workers : cmd[w].stage = "idle" /\ cmd[w].order = NoOrder
    BY SMT DEF Init, Idle
  <1>3. TypeOK
    BY <1>1, IdleType, SMT DEF Init, TypeOK, OrderStatuses, KitchenStatuses, JournalStates
  <1>4. /\ \A w \in Workers : NamesOrder(w)
        /\ FreshIds /\ IdleNamesNone /\ RowLockExclusive /\ CancelSeesRow
    BY <1>2, SMT DEF NamesOrder, FreshIds, IdleNamesNone, RowLockExclusive, HoldsRow,
                     CancelSeesRow, At
  <1>5. UnplacedUntouched /\ StockRestoredExactlyOnce /\ CancelledGoesBack
    BY <1>2, SMT DEF Init, UnplacedUntouched, StockRestoredExactlyOnce, CancelledGoesBack, At
  <1> QED BY <1>3, <1>4, <1>5, Zenon DEF IInv

LEMMA NextInv == IInv /\ [Next]_vars => IInv'
  <1> SUFFICES ASSUME IInv, [Next]_vars PROVE IInv'
    OBVIOUS
  <1>1. ASSUME NEW w \in Workers, Request(w) \/ Step(w) \/ Rollback(w) PROVE IInv'
    BY <1>1, RequestInv, RegisterReadInv, RegisterCommitInv, CancelReadInv, CancelCommitInv,
       StatusReadInv, KitchenReadInv, SaveRowInv, RepairReadInv, RepairCommitInv, RollbackInv,
       RegisterRefuseInv, Zenon DEF Step
  <1>2. CASE ActivateRecipe \/ RegisterAccounts \/ MoveElsewhere \/ ReverseByHand
    BY <1>2, ConfigInv, ElsewhereInv
  <1>3. CASE UNCHANGED vars
    <2>1. UNCHANGED <<rows, stock, journal, cancellations, config, cmd>>
      BY <1>3 DEF vars
    <2>2. TypeOK'
      BY <2>1, SMT DEF IInv, TypeOK, rows, stock, config
    <2>3. (\A w \in Workers : NamesOrder(w))' /\ FreshIds' /\ IdleNamesNone'
      BY <2>1, SMT DEF IInv, NamesOrder, FreshIds, IdleNamesNone, Placed, rows
    <2>4. UnplacedUntouched' /\ StockRestoredExactlyOnce'
      BY <2>1, SMT DEF IInv, UnplacedUntouched, StockRestoredExactlyOnce, Placed, rows, stock
    <2>5. RowLockExclusive' /\ CancelSeesRow' /\ CancelledGoesBack'
      BY <2>1, SMT DEF IInv, RowLockExclusive, HoldsRow, CancelSeesRow, CancelledGoesBack, At,
                       Outstanding, rows, stock
    <2> QED BY <2>2, <2>3, <2>4, <2>5, Zenon DEF IInv
  <1> QED BY <1>1, <1>2, <1>3 DEF Next

THEOREM Invariant == Spec => []IInv
  BY InitInv, NextInv, PTL DEF Spec

\* Every reachable state is well typed: in particular a stale save never
\* writes a status the orders table does not know, whatever was read before.
THEOREM TypeCorrect == Spec => []TypeOK
  <1>1. IInv => TypeOK
    BY DEF IInv
  <1> QED BY <1>1, Invariant, PTL

\* BL-02 and BL-07 for any number of orders, items and concurrent requests:
\* an order whose cancellation took effect got back exactly what it consumed,
\* any other order got nothing back.
THEOREM StockIsRestoredExactlyOnce == Spec => []StockRestoredExactlyOnce
  <1>1. IInv => StockRestoredExactlyOnce
    BY DEF IInv
  <1> QED BY <1>1, Invariant, PTL

\* A request by itself changes nothing but its own slot.
LEMMA RequestTouchesNothing ==
  ASSUME NEW w \in Workers, Request(w)
  PROVE  UNCHANGED <<rows, stock, journal, cancellations, config>>
  <1>1. \A op, o, k, a, t :
          Submit(w, op, o, k, a, t) => UNCHANGED <<rows, stock, journal, cancellations, config>>
    BY DEF Submit
  <1> QED BY <1>1, Zenon DEF Request, SubmitRegister, SubmitCancel, SubmitStatus, SubmitKitchen,
                             SubmitRepair

\* Only CancelCommit publishes a cancellation.
LEMMA OthersCancelNothing ==
  ASSUME NEW w \in Workers, Request(w) \/ Step(w) \/ Rollback(w), ~CancelCommit(w)
  PROVE  UNCHANGED cancellations
  <1>1. CASE Request(w)
    BY <1>1, RequestTouchesNothing
  <1>2. CASE Step(w) \/ Rollback(w)
    BY <1>2, SMT DEF Step, RegisterRead, RegisterCommit, CancelRead, StatusRead, KitchenRead,
                     SaveRow, RepairRead, RepairCommit, Rollback, RegisterRefuse
  <1> QED BY <1>1, <1>2

\* The row lock of CancelOrderHandler: the order is still open when its first
\* cancellation commits.
THEOREM CancelsOpenOrders == Spec => CancelledWhileOpen
  <1>1. IInv /\ [Next]_vars
          => [\A o \in cancellations' \ cancellations : status[o] \notin Final]_vars
    <2> SUFFICES ASSUME IInv, Next, NEW o \in cancellations' \ cancellations
                 PROVE  status[o] \notin Final
      OBVIOUS
    <2>1. PICK w \in Workers : CancelCommit(w)
      <3>1. cancellations' # cancellations
        OBVIOUS
      <3>2. ~(ActivateRecipe \/ RegisterAccounts \/ MoveElsewhere \/ ReverseByHand)
        BY <3>1 DEF ActivateRecipe, RegisterAccounts, MoveElsewhere, ReverseByHand
      <3>3. PICK w \in Workers : Request(w) \/ Step(w) \/ Rollback(w)
        BY <3>2 DEF Next
      <3> QED BY <3>1, <3>3, OthersCancelNothing
    <2>2. o = cmd[w].order /\ At(w, "cancel", "read")
      BY <2>1, SMT DEF CancelCommit
    <2> QED BY <2>2 DEF IInv, CancelSeesRow
  <1> QED BY <1>1, Invariant, PTL DEF Spec, CancelledWhileOpen

-----------------------------------------------------------------------------
(* The orders context implements SaleEffects.                               *)

LEMMA EffectOf ==
  ASSUME NEW o \in Orders
  PROVE  Effect[o] = IF o \in cancellations THEN "undone"
                     ELSE IF status[o] = "absent" THEN "none" ELSE "sold"
  BY DEF Effect

\* A step that touches one order changes the effect of that order only.
LEMMA EffectChange ==
  ASSUME NEW o \in Orders,
         \A p \in Orders \ {o} : status'[p] = status[p],
         cancellations' = cancellations \/ cancellations' = cancellations \cup {o}
  PROVE  /\ o \in cancellations' => Effect' = [Effect EXCEPT ![o] = "undone"]
         /\ o \notin cancellations' /\ status'[o] # "absent"
              => Effect' = [Effect EXCEPT ![o] = "sold"]
  <1> DEFINE E(p, C, st) == IF p \in C THEN "undone" ELSE IF st = "absent" THEN "none" ELSE "sold"
  <1>1. Effect' = [p \in Orders |-> E(p, cancellations', status'[p])]
    BY DEF Effect
  <1>2. Effect = [p \in Orders |-> E(p, cancellations, status[p])]
    BY DEF Effect
  <1>3. \A p \in Orders \ {o} : E(p, cancellations', status'[p]) = E(p, cancellations, status[p])
    BY SMT
  <1>4. \A e : E(o, cancellations', status'[o]) = e => Effect' = [Effect EXCEPT ![o] = e]
    <2> HIDE DEF E
    <2> QED BY <1>1, <1>2, <1>3, SMT
  <1> QED BY <1>4

\* Steps that neither place nor cancel an order are stutters of the promise.
LEMMA NoEffect ==
  ASSUME UNCHANGED <<stock, cancellations>>,
         \A o \in Orders : (status'[o] = "absent") <=> (status[o] = "absent")
  PROVE  UNCHANGED Sale!saleVars
  BY SMT DEF Sale!saleVars, Effect, OrdersStock, stock

LEMMA RegisterSells ==
  ASSUME IInv, NEW w \in Workers, RegisterCommit(w)
  PROVE  Sale!SaleNext
  <1> DEFINE o == cmd[w].order
             q == cmd[w].qty
  <1>1. /\ At(w, "register", "read")
        /\ status' = [status EXCEPT ![o] = "preparing"]
        /\ consumed' = [consumed EXCEPT ![o] = q]
        /\ balance' = [i \in Items |-> balance[i] - q[i]]
        /\ UNCHANGED <<elsewhere, cancellations>>
    BY DEF RegisterCommit
  <1>2. o \in Orders /\ status[o] = "absent" /\ o \notin cancellations /\ q \in Recipes
    BY <1>1, SMT DEF IInv, NamesOrder, UnplacedUntouched, Placed, At
  <1> HIDE DEF o, q
  <1>3. Effect[o] = "none"
    BY <1>2, EffectOf
  <1>4. Effect' = [Effect EXCEPT ![o] = "sold"]
    <2>1. status'[o] = "preparing" /\ \A p \in Orders \ {o} : status'[p] = status[p]
      BY <1>1, <1>2, SMT DEF IInv, TypeOK
    <2> QED BY <1>1, <1>2, <2>1, EffectChange
  <1>5. OrdersStock' = [i \in Items |-> OrdersStock[i] - q[i]]
    <2>1. q \in [Items -> Int]
      BY <1>2, OrderAssumption
    <2> QED BY <1>1, <2>1, SMT DEF OrdersStock, IInv, TypeOK
  <1>6. Sale!Sell(o)
    BY <1>1, <1>2, <1>3, <1>4, <1>5, Zenon DEF Sale!Sell
  <1> QED BY <1>2, <1>6 DEF Sale!SaleNext

LEMMA CancelUndoesOrStutters ==
  ASSUME IInv, NEW w \in Workers, CancelCommit(w)
  PROVE  Sale!SaleNext \/ UNCHANGED Sale!saleVars
  <1> DEFINE o == cmd[w].order
             r == Restored(cmd[w].qty)
  <1>1. /\ At(w, "cancel", "read")
        /\ status' = [status EXCEPT ![o] = "cancelled"]
        /\ balance' = [i \in Items |-> balance[i] + r[i]]
        /\ cancellations' = cancellations \cup {o}
        /\ UNCHANGED <<consumed, elsewhere>>
    BY DEF CancelCommit
  <1>2. o \in Orders /\ status[o] # "absent"
    BY <1>1, SMT DEF IInv, NamesOrder, Placed, At
  <1>3. r = IF o \in cancellations THEN Nothing ELSE consumed[o]
    BY CancelRestores
  <1> HIDE DEF o, r
  <1>4. CASE o \notin cancellations
    <2>1. Effect[o] = "sold"
      BY <1>2, <1>4, EffectOf
    <2>2. Effect' = [Effect EXCEPT ![o] = "undone"]
      <3>1. \A p \in Orders \ {o} : status'[p] = status[p]
        BY <1>1, <1>2, SMT DEF IInv, TypeOK
      <3> QED BY <1>1, <1>2, <3>1, EffectChange
    <2>3. OrdersStock' = [i \in Items |-> OrdersStock[i] + consumed[o][i]]
      <3>1. balance' = [i \in Items |-> balance[i] + consumed[o][i]]
        BY <1>1, <1>3, <1>4
      <3>2. consumed[o] \in [Items -> Nat]
        BY <1>2 DEF IInv, TypeOK
      <3> QED BY <1>1, <3>1, <3>2, SMT DEF OrdersStock, IInv, TypeOK
    <2>4. Sale!Undo(o)
      BY <1>1, <2>1, <2>2, <2>3, Zenon DEF Sale!Undo
    <2> QED BY <1>2, <2>4 DEF Sale!SaleNext
  <1>5. CASE o \in cancellations
    <2>1. balance' = balance
      BY <1>1, <1>3, <1>5, SMT DEF Nothing, IInv, TypeOK
    <2>2. Effect' = Effect
      BY <1>1, <1>2, <1>5, SMT DEF Effect, IInv, TypeOK
    <2> QED BY <1>1, <2>1, <2>2 DEF Sale!saleVars, OrdersStock
  <1> QED BY <1>4, <1>5

LEMMA SaveIsStutter ==
  ASSUME IInv, NEW w \in Workers, SaveRow(w)
  PROVE  UNCHANGED Sale!saleVars
  <1> DEFINE o == cmd[w].order
             s == cmd[w].status
  <1>1. /\ At(w, "status", "read") \/ At(w, "kitchen", "read")
        /\ status' = [status EXCEPT ![o] = s]
        /\ UNCHANGED <<stock, cancellations>>
    BY DEF SaveRow
  <1>2. o \in Orders /\ status[o] # "absent" /\ s # "absent"
    BY <1>1, SMT DEF IInv, NamesOrder, Placed, At, OrderStatuses
  <1>3. \A p \in Orders : (status'[p] = "absent") <=> (status[p] = "absent")
    BY <1>1, <1>2, SMT DEF IInv, TypeOK
  <1> QED BY <1>1, <1>3, NoEffect

LEMMA OthersAreStutters ==
  ASSUME NEW w \in Workers, Request(w) \/ Step(w) \/ Rollback(w),
         ~RegisterCommit(w), ~CancelCommit(w), ~SaveRow(w)
  PROVE  UNCHANGED Sale!saleVars
  <1>1. UNCHANGED <<rows, stock, cancellations>>
    <2>1. CASE Request(w)
      BY <2>1, RequestTouchesNothing
    <2>2. CASE Step(w) \/ Rollback(w)
      BY <2>2, SMT DEF Step, RegisterRead, CancelRead, StatusRead, KitchenRead,
                       RepairRead, RepairCommit, Rollback, RegisterRefuse
    <2> QED BY <2>1, <2>2
  <1> QED BY <1>1, NoEffect DEF rows

LEMMA ElsewhereIsStutter ==
  ASSUME IInv, MoveElsewhere \/ ReverseByHand
  PROVE  UNCHANGED Sale!saleVars
  <1>1. CASE MoveElsewhere
    <2>1. OrdersStock' = OrdersStock
      BY <1>1, MovedElsewhere, SMT DEF OrdersStock, IInv
    <2>2. UNCHANGED <<rows, consumed, cancellations>>
      BY <1>1 DEF MoveElsewhere
    <2> QED BY <2>1, <2>2, SMT DEF Sale!saleVars, Effect, rows
  <1>2. CASE ReverseByHand
    BY <1>2, NoEffect DEF ReverseByHand, rows
  <1> QED BY <1>1, <1>2

\* Refinement: whatever the commands do, the stock changes only as SaleEffects
\* says, one portion out per order and at most one and the same portion back, and what
\* other documents move comes on top of it.
THEOREM OrdersImplementSaleEffects == Spec => ImplementsSaleEffects
  <1>1. Init => Sale!SaleInit
    <2> SUFFICES ASSUME Init PROVE Sale!SaleInit
      OBVIOUS
    <2>1. Effect = [o \in Orders |-> "none"]
      BY SMT DEF Init, Effect
    <2>2. OrdersStock = Opening
      BY OrderAssumption, SMT DEF Init, OrdersStock, Nothing
    <2> QED BY <2>1, <2>2, Zenon DEF Init, Sale!SaleInit, Nothing
  <1>2. IInv /\ [Next]_vars => [Sale!SaleNext]_(Sale!saleVars)
    <2> SUFFICES ASSUME IInv, [Next]_vars
                 PROVE  Sale!SaleNext \/ UNCHANGED Sale!saleVars
      OBVIOUS
    <2>1. ASSUME NEW w \in Workers, Request(w) \/ Step(w) \/ Rollback(w)
          PROVE  Sale!SaleNext \/ UNCHANGED Sale!saleVars
      BY <2>1, RegisterSells, CancelUndoesOrStutters, SaveIsStutter, OthersAreStutters
    <2>2. CASE ActivateRecipe \/ RegisterAccounts
      BY <2>2, NoEffect DEF ActivateRecipe, RegisterAccounts, rows
    <2>3. CASE MoveElsewhere \/ ReverseByHand
      BY <2>3, ElsewhereIsStutter
    <2>4. CASE UNCHANGED vars
      BY <2>4, NoEffect DEF vars, rows
    <2> QED BY <2>1, <2>2, <2>3, <2>4 DEF Next
  <1> QED BY <1>1, <1>2, Invariant, PTL DEF Spec, ImplementsSaleEffects, Sale!SaleSpec

-----------------------------------------------------------------------------
(* Keys and the journals of an order.                                       *)

\* One registration at a time has looked a client's key up.
KeyLockExclusive ==
  \A v, w \in Workers, k \in Keys : HoldsKey(v, k) /\ HoldsKey(w, k) => v = w

\* The status that a repair found under the order's lock is still there.
RepairSeesOpen ==
  \A w \in Workers :
    At(w, "repair", "read") /\ cmd[w].target \in JournalTypes
      => status[cmd[w].order] # "cancelled"

\* In strict mode a registration leaves no gap, so there is nothing to repair,
\* and a cancellation turns every journal there is around.
StrictJournals ==
  Strict =>
    /\ \A w \in Workers : cmd[w].op # "repair"
    /\ \A o \in cancellations, t \in JournalTypes : journal[o][t] # "POSTED"
    /\ \A o \in Placed, t \in JournalTypes :
         NeedsJournal(o, t, consumed[o]) =>
           journal[o][t] \in {"BY_HAND", IF o \in cancellations THEN "REVERSED" ELSE "POSTED"}

BookInv ==
  /\ KeyLockExclusive
  /\ RegistrationHoldsItsKey
  /\ RepairSeesOpen
  /\ StrictJournals

\* A step that ends a command, or none, and leaves what was sold and the journals alone,
\* keeps all of this if no row becomes "cancelled" under a repair.
LEMMA QuietBooks ==
  ASSUME IInv, BookInv,
         \A v \in Workers : cmd'[v] = cmd[v] \/ (cmd'[v].stage = "idle" /\ cmd'[v].op = "none"),
         UNCHANGED <<clientKey, consumed, journal, cancellations>>,
         Placed' = Placed,
         \A o \in Orders : status'[o] = "cancelled" =>
           status[o] = "cancelled" \/ \A v \in Workers : cmd'[v].stage = "idle" \/ ~HoldsRow(v, o)
  PROVE  BookInv'
  <1>1. KeyLockExclusive' /\ RegistrationHoldsItsKey'
    BY SMT DEF BookInv, KeyLockExclusive, RegistrationHoldsItsKey, HoldsKey, At
  <1>2. RepairSeesOpen'
    BY SMT DEF BookInv, RepairSeesOpen, HoldsRow, At, IInv, NamesOrder
  <1>3. StrictJournals'
    BY SMT DEF BookInv, StrictJournals, NeedsJournal
  <1> QED BY <1>1, <1>2, <1>3 DEF BookInv

LEMMA EndsIdle ==
  ASSUME TypeOK, NEW w \in Workers, End(w)
  PROVE  \A v \in Workers : cmd'[v] = cmd[v] \/ (cmd'[v].stage = "idle" /\ cmd'[v].op = "none")
  BY SMT DEF End, TypeOK, Idle

LEMMA EndBooks ==
  ASSUME IInv, BookInv, NEW w \in Workers, End(w),
         UNCHANGED <<rows, stock, journal, cancellations, config>>
  PROVE  BookInv'
  <1>1. UNCHANGED <<clientKey, status, consumed>> /\ Placed' = Placed
    BY DEF rows, stock, Placed
  <1>2. \A v \in Workers : cmd'[v] = cmd[v] \/ (cmd'[v].stage = "idle" /\ cmd'[v].op = "none")
    BY EndsIdle DEF IInv
  <1> QED BY <1>1, <1>2, QuietBooks

\* In strict mode the coverage report is empty.
LEMMA StrictLeavesNoGap ==
  ASSUME IInv, BookInv, Strict, NEW o \in Orders, NEW t \in JournalTypes \cup {"unreversed"}
  PROVE  ~Gap(o, t)
  <1>1. CASE t \in JournalTypes
    BY <1>1, SMT DEF Gap, BookInv, StrictJournals, NeedsJournal, Placed, JournalTypes
  <1>2. CASE t = "unreversed"
    BY <1>2, SMT DEF Gap, BookInv, StrictJournals, IInv, CancelledGoesBack, JournalTypes
  <1> QED BY <1>1, <1>2

LEMMA RequestBooks ==
  ASSUME IInv, BookInv, NEW w \in Workers, Request(w)
  PROVE  BookInv'
  <1>1. PICK op \in Ops, o \in Orders, k \in Keys \cup {NoKey}, a \in BOOLEAN, t \in Targets :
           Submit(w, op, o, k, a, t)
    BY RequestIsSubmit DEF IInv
  <1>2. /\ \A v \in Workers \ {w} : cmd'[v] = cmd[v]
        /\ cmd'[w].stage = "issued"
        /\ UNCHANGED <<rows, stock, journal, cancellations, config>>
    BY <1>1, SMT DEF Submit, Issued, IInv, TypeOK
  <1>3. Strict => cmd'[w].op # "repair"
    <2>1. CASE SubmitRepair(w)
      BY <2>1, StrictLeavesNoGap DEF SubmitRepair
    <2>2. CASE ~SubmitRepair(w)
      <3>1. ASSUME NEW op2, NEW o2, NEW k2, NEW a2, NEW t2, Submit(w, op2, o2, k2, a2, t2)
            PROVE  cmd'[w].op = op2
        BY <3>1, SMT DEF Submit, Issued, IInv, TypeOK
      <3> QED BY <2>2, <3>1 DEF Request, SubmitRegister, SubmitCancel, SubmitStatus, SubmitKitchen
    <2> QED BY <2>1, <2>2
  <1>4. KeyLockExclusive' /\ RegistrationHoldsItsKey'
    BY <1>2, SMT DEF BookInv, KeyLockExclusive, RegistrationHoldsItsKey, HoldsKey, At, Placed, rows
  <1>5. RepairSeesOpen'
    BY <1>2, SMT DEF BookInv, RepairSeesOpen, At, rows
  <1>6. StrictJournals'
    BY <1>2, <1>3, SMT DEF BookInv, StrictJournals, NeedsJournal, Placed, rows, stock
  <1> QED BY <1>4, <1>5, <1>6 DEF BookInv

\* A read keeps the command's name and fills in what it found; a registration has
\* its key to itself, a repair an order that is open.
LEMMA ReadBooks ==
  ASSUME IInv, BookInv, NEW w \in Workers, NEW c,
         cmd[w].stage = "issued",
         cmd' = [cmd EXCEPT ![w] = c],
         c.op = cmd[w].op, c.key = cmd[w].key, c.order = cmd[w].order, c.target = cmd[w].target,
         UNCHANGED <<rows, stock, journal, cancellations, config>>,
         c.op = "register" =>
           KeyFree(w, c.key) /\ (c.key # NoKey => \A o \in Placed : clientKey[o] # c.key),
         c.op = "repair" /\ c.target \in JournalTypes => status[c.order] # "cancelled"
  PROVE  BookInv'
  <1>1. /\ \A v \in Workers \ {w} : cmd'[v] = cmd[v]
        /\ cmd'[w] = c
    BY SMT DEF IInv, TypeOK
  <1>2. KeyLockExclusive'
    BY <1>1, OrderAssumption, SMT DEF BookInv, KeyLockExclusive, HoldsKey, KeyFree
  <1>3. RegistrationHoldsItsKey'
    BY <1>1, SMT DEF BookInv, RegistrationHoldsItsKey, At, Placed, rows
  <1>4. RepairSeesOpen'
    BY <1>1, SMT DEF BookInv, RepairSeesOpen, At, rows
  <1>5. StrictJournals'
    BY <1>1, SMT DEF BookInv, StrictJournals, NeedsJournal, Placed, rows, stock
  <1> QED BY <1>2, <1>3, <1>4, <1>5 DEF BookInv

LEMMA ReadsBooks ==
  ASSUME IInv, BookInv, NEW w \in Workers,
         RegisterRead(w) \/ CancelRead(w) \/ StatusRead(w) \/ KitchenRead(w) \/ RepairRead(w)
  PROVE  BookInv'
  <1>1. UNCHANGED <<rows, stock, journal, cancellations, config>> /\ cmd[w].stage = "issued"
    BY DEF RegisterRead, CancelRead, StatusRead, KitchenRead, RepairRead, At
  <1>2. CASE End(w)
    BY <1>1, <1>2, EndBooks
  <1>3. CASE ~End(w)
    <2>1. PICK s, k, q : cmd' = [cmd EXCEPT ![w] = Loaded(cmd[w], s, k, q)]
      BY <1>3 DEF RegisterRead, CancelRead, StatusRead, KitchenRead, RepairRead, Load
    <2> DEFINE c == Loaded(cmd[w], s, k, q)
    <2>2. /\ c.op = cmd[w].op /\ c.key = cmd[w].key /\ c.order = cmd[w].order
          /\ c.target = cmd[w].target
      BY DEF Loaded
    <2> HIDE DEF c
    <2>3. cmd[w].op = "register" =>
            /\ KeyFree(w, cmd[w].key)
            /\ cmd[w].key # NoKey => \A o \in Placed : clientKey[o] # cmd[w].key
      BY <1>3 DEF RegisterRead, CancelRead, StatusRead, KitchenRead, RepairRead, At
    <2>4. cmd[w].op = "repair" /\ cmd[w].target \in JournalTypes
            => status[cmd[w].order] # "cancelled"
      BY <1>3 DEF RegisterRead, CancelRead, StatusRead, KitchenRead, RepairRead, At
    <2>5. cmd' = [cmd EXCEPT ![w] = c]
      BY <2>1 DEF c
    <2> QED BY <1>1, <2>2, <2>3, <2>4, <2>5, ReadBooks
  <1> QED BY <1>2, <1>3

LEMMA SaveRowBooks ==
  ASSUME IInv, BookInv, NEW w \in Workers, SaveRow(w)
  PROVE  BookInv'
  <1> DEFINE o == cmd[w].order
  <1>1. /\ At(w, "status", "read") \/ At(w, "kitchen", "read")
        /\ RowFree(w, o) /\ End(w)
        /\ status' = [status EXCEPT ![o] = cmd[w].status]
        /\ UNCHANGED <<clientKey, stock, journal, cancellations>>
    BY DEF SaveRow
  <1>2. o \in Orders /\ status[o] # "absent" /\ cmd[w].status # "absent"
    BY <1>1, SMT DEF IInv, NamesOrder, Placed, At, OrderStatuses
  <1>3. \A p \in Orders \ {o} : status'[p] = status[p]
    BY <1>1, <1>2, SMT DEF IInv, TypeOK
  <1>4. Placed' = Placed
    BY <1>1, <1>2, <1>3, SMT DEF Placed, IInv, TypeOK
  <1>5. \A v \in Workers : cmd'[v] = cmd[v] \/ (cmd'[v].stage = "idle" /\ cmd'[v].op = "none")
    BY <1>1, EndsIdle DEF IInv
  <1>6. cmd'[w].stage = "idle"
    BY <1>1, EndFields DEF IInv
  <1>7. \A p \in Orders : status'[p] = "cancelled" =>
          status[p] = "cancelled" \/ \A v \in Workers : cmd'[v].stage = "idle" \/ ~HoldsRow(v, p)
    BY <1>1, <1>3, <1>6 DEF RowFree
  <1> QED BY <1>1, <1>4, <1>5, <1>7, QuietBooks DEF stock

LEMMA RegisterCommitBooks ==
  ASSUME IInv, BookInv, NEW w \in Workers, RegisterCommit(w)
  PROVE  BookInv'
  <1> DEFINE o == cmd[w].order
             q == cmd[w].qty
  <1>1. /\ At(w, "register", "read") /\ RegisterAdmitted(w) /\ End(w)
        /\ status' = [status EXCEPT ![o] = "preparing"]
        /\ clientKey' = [clientKey EXCEPT ![o] = cmd[w].key]
        /\ consumed' = [consumed EXCEPT ![o] = q]
        /\ journal' = [journal EXCEPT ![o] = [t \in JournalTypes |->
                         IF chartReady /\ NeedsJournal(o, t, q) THEN "POSTED" ELSE "none"]]
        /\ UNCHANGED cancellations
    BY DEF RegisterCommit
  <1>2. /\ \A v \in Workers \ {w} : cmd'[v] = cmd[v]
        /\ cmd'[w].stage = "idle" /\ cmd'[w].op = "none"
    BY <1>1, EndFields, SMT DEF IInv, TypeOK, End, Idle
  <1>3. o \in Orders \ Placed /\ o \notin cancellations /\ q \in [Items -> Nat]
    BY <1>1, OrderAssumption, SMT DEF IInv, NamesOrder, UnplacedUntouched, At
  <1>4. /\ \A p \in Orders \ {o} : /\ status'[p] = status[p] /\ clientKey'[p] = clientKey[p]
                                   /\ consumed'[p] = consumed[p] /\ journal'[p] = journal[p]
        /\ status'[o] = "preparing" /\ clientKey'[o] = cmd[w].key /\ consumed'[o] = q
        /\ journal'[o] = [t \in JournalTypes |->
                            IF chartReady /\ NeedsJournal(o, t, q) THEN "POSTED" ELSE "none"]
    BY <1>1, <1>3, SMT DEF IInv, TypeOK
  <1>5. Placed' = Placed \cup {o}
    BY <1>3, <1>4, SMT DEF Placed
  <1>6. KeyLockExclusive'
    BY <1>2, SMT DEF BookInv, KeyLockExclusive, HoldsKey
  <1>7. RegistrationHoldsItsKey'
    <2> SUFFICES ASSUME NEW v \in Workers, At(v, "register", "read")', cmd'[v].key # NoKey,
                        NEW p \in Placed'
                 PROVE  clientKey'[p] # cmd'[v].key
      BY DEF RegistrationHoldsItsKey
    <2>1. v # w /\ cmd'[v] = cmd[v] /\ At(v, "register", "read")
      BY <1>2 DEF At
    <2>2. CASE p = o
      <3>1. cmd[v].key \in Keys
        BY <2>1, CommandFields DEF IInv
      <3>2. HoldsKey(v, cmd[v].key) /\ (cmd[w].key = cmd[v].key => HoldsKey(w, cmd[v].key))
        BY <1>1, <2>1 DEF HoldsKey, At
      <3> QED BY <1>4, <2>1, <2>2, <3>1, <3>2 DEF BookInv, KeyLockExclusive
    <2>3. CASE p # o
      <3>1. p \in Placed /\ clientKey'[p] = clientKey[p]
        BY <1>4, <1>5, <2>3 DEF Placed
      <3> QED BY <2>1, <3>1 DEF BookInv, RegistrationHoldsItsKey
    <2> QED BY <2>2, <2>3
  <1>8. RepairSeesOpen'
    BY <1>2, <1>4, SMT DEF BookInv, RepairSeesOpen, At, IInv, NamesOrder
  <1>9. StrictJournals'
    <2> SUFFICES ASSUME Strict PROVE StrictJournals'
      BY DEF StrictJournals
    <2>1. \A v \in Workers : cmd'[v].op # "repair"
      BY <1>2 DEF BookInv, StrictJournals
    <2>2. \A p \in cancellations', t \in JournalTypes : journal'[p][t] # "POSTED"
      BY <1>1, <1>3, <1>4 DEF BookInv, StrictJournals, IInv, TypeOK
    <2>3. ASSUME NEW p \in Placed', NEW t \in JournalTypes, NeedsJournal(p, t, consumed'[p])
          PROVE  journal'[p][t] \in {"BY_HAND", IF p \in cancellations' THEN "REVERSED" ELSE "POSTED"}
      <3>1. CASE p = o
        <4>1. chartReady
          BY <1>1, <1>4, <2>3, <3>1 DEF RegisterAdmitted
        <4> QED BY <1>1, <1>3, <1>4, <2>3, <3>1, <4>1
      <3>2. CASE p # o
        <4>1. p \in Placed /\ p \in Orders
          BY <1>5, <3>2 DEF Placed
        <4> QED BY <1>1, <1>4, <2>3, <3>2, <4>1 DEF BookInv, StrictJournals
      <3> QED BY <3>1, <3>2
    <2> QED BY <2>1, <2>2, <2>3 DEF StrictJournals, NeedsJournal
  <1> QED BY <1>6, <1>7, <1>8, <1>9 DEF BookInv

LEMMA CancelCommitBooks ==
  ASSUME IInv, BookInv, NEW w \in Workers, CancelCommit(w)
  PROVE  BookInv'
  <1> DEFINE o == cmd[w].order
  <1>1. /\ At(w, "cancel", "read") /\ End(w)
        /\ status' = [status EXCEPT ![o] = "cancelled"]
        /\ journal' = [journal EXCEPT ![o] = [t \in JournalTypes |-> Reversed(@[t])]]
        /\ cancellations' = cancellations \cup {o}
        /\ UNCHANGED <<clientKey, consumed>>
    BY DEF CancelCommit
  <1>2. /\ \A v \in Workers \ {w} : cmd'[v] = cmd[v]
        /\ cmd'[w].stage = "idle" /\ cmd'[w].op = "none"
    BY <1>1, EndFields, SMT DEF IInv, TypeOK, End, Idle
  <1>3. o \in Orders /\ o \in Placed
    BY <1>1, SMT DEF IInv, NamesOrder, At
  <1>4. /\ \A p \in Orders \ {o} : status'[p] = status[p] /\ journal'[p] = journal[p]
        /\ status'[o] = "cancelled"
        /\ journal'[o] = [t \in JournalTypes |-> Reversed(journal[o][t])]
    BY <1>1, <1>3, SMT DEF IInv, TypeOK
  <1>5. Placed' = Placed
    BY <1>3, <1>4, SMT DEF Placed
  <1>6. KeyLockExclusive' /\ RegistrationHoldsItsKey'
    BY <1>1, <1>2, <1>5, SMT DEF BookInv, KeyLockExclusive, RegistrationHoldsItsKey, HoldsKey, At
  <1>7. RepairSeesOpen'
    <2>1. \A v \in Workers \ {w} : At(v, "repair", "read") => cmd[v].order \in Orders \ {o}
      BY <1>1, <1>3, SMT DEF IInv, NamesOrder, RowLockExclusive, HoldsRow, At
    <2> QED BY <1>2, <1>4, <2>1, SMT DEF BookInv, RepairSeesOpen, At
  <1>8. StrictJournals'
    <2> SUFFICES ASSUME Strict PROVE StrictJournals'
      BY DEF StrictJournals
    <2>1. \A v \in Workers : cmd'[v].op # "repair"
      BY <1>2 DEF BookInv, StrictJournals
    <2>2. \A p \in cancellations', t \in JournalTypes : journal'[p][t] # "POSTED"
      BY <1>1, <1>4 DEF BookInv, StrictJournals, Reversed, IInv, TypeOK
    <2>3. ASSUME NEW p \in Placed', NEW t \in JournalTypes, NeedsJournal(p, t, consumed'[p])
          PROVE  journal'[p][t] \in {"BY_HAND", IF p \in cancellations' THEN "REVERSED" ELSE "POSTED"}
      <3>1. p \in Placed /\ p \in Orders /\ NeedsJournal(p, t, consumed[p])
        BY <1>1, <1>5, <2>3 DEF Placed
      <3>2. journal[p][t] \in {"BY_HAND", IF p \in cancellations THEN "REVERSED" ELSE "POSTED"}
        BY <3>1 DEF BookInv, StrictJournals
      <3> QED BY <1>1, <1>4, <3>1, <3>2 DEF Reversed
    <2> QED BY <2>1, <2>2, <2>3 DEF StrictJournals, NeedsJournal
  <1> QED BY <1>6, <1>7, <1>8 DEF BookInv

LEMMA RepairCommitBooks ==
  ASSUME IInv, BookInv, NEW w \in Workers, RepairCommit(w)
  PROVE  BookInv'
  <1>1. /\ At(w, "repair", "read") /\ End(w)
        /\ UNCHANGED <<rows, stock, cancellations, config>>
    BY DEF RepairCommit
  <1>2. \A v \in Workers : cmd'[v] = cmd[v] \/ (cmd'[v].stage = "idle" /\ cmd'[v].op = "none")
    BY <1>1, EndsIdle DEF IInv
  <1>3. KeyLockExclusive' /\ RegistrationHoldsItsKey' /\ RepairSeesOpen'
    BY <1>1, <1>2, SMT DEF BookInv, KeyLockExclusive, RegistrationHoldsItsKey, RepairSeesOpen,
                           HoldsKey, At, Placed, rows
  <1>4. ~Strict
    BY <1>1 DEF BookInv, StrictJournals, At
  <1> QED BY <1>3, <1>4 DEF BookInv, StrictJournals

LEMMA ReverseByHandBooks ==
  ASSUME IInv, BookInv, ReverseByHand
  PROVE  BookInv'
  <1>1. /\ \A o \in Orders, t \in JournalTypes :
             \/ journal'[o][t] = journal[o][t]
             \/ journal[o][t] = "POSTED" /\ journal'[o][t] = "BY_HAND"
        /\ UNCHANGED <<rows, stock, cancellations, config, cmd>>
    BY ReversedByHand DEF IInv
  <1>2. KeyLockExclusive' /\ RegistrationHoldsItsKey' /\ RepairSeesOpen'
    BY <1>1, SMT DEF BookInv, KeyLockExclusive, RegistrationHoldsItsKey, RepairSeesOpen,
                     HoldsKey, At, Placed, rows
  <1>3. StrictJournals'
    <2> SUFFICES ASSUME Strict PROVE StrictJournals'
      BY DEF StrictJournals
    <2>1. \A v \in Workers : cmd'[v].op # "repair"
      BY <1>1 DEF BookInv, StrictJournals
    <2>2. \A p \in cancellations', t \in JournalTypes : journal'[p][t] # "POSTED"
      BY <1>1, SMT DEF BookInv, StrictJournals, IInv, TypeOK
    <2>3. ASSUME NEW p \in Placed', NEW t \in JournalTypes, NeedsJournal(p, t, consumed'[p])
          PROVE  journal'[p][t] \in {"BY_HAND", IF p \in cancellations' THEN "REVERSED" ELSE "POSTED"}
      <3>1. p \in Placed /\ p \in Orders /\ NeedsJournal(p, t, consumed[p])
        BY <1>1, <2>3 DEF Placed, rows, stock
      <3>2. journal[p][t] \in {"BY_HAND", IF p \in cancellations THEN "REVERSED" ELSE "POSTED"}
        BY <3>1 DEF BookInv, StrictJournals
      <3> QED BY <1>1, <3>1, <3>2
    <2> QED BY <2>1, <2>2, <2>3 DEF StrictJournals, NeedsJournal
  <1> QED BY <1>2, <1>3 DEF BookInv

LEMMA InitBooks == Init => BookInv
  <1> SUFFICES ASSUME Init PROVE BookInv
    OBVIOUS
  <1>1. \A w \in Workers : cmd[w].stage = "idle" /\ cmd[w].op = "none"
    BY SMT DEF Init, Idle
  <1>2. KeyLockExclusive /\ RegistrationHoldsItsKey /\ RepairSeesOpen
    BY <1>1 DEF KeyLockExclusive, HoldsKey, RegistrationHoldsItsKey, RepairSeesOpen, At
  <1>3. StrictJournals
    BY <1>1 DEF Init, StrictJournals, Placed
  <1> QED BY <1>2, <1>3 DEF BookInv

LEMMA NextBooks == IInv /\ BookInv /\ [Next]_vars => BookInv'
  <1> SUFFICES ASSUME IInv, BookInv, [Next]_vars PROVE BookInv'
    OBVIOUS
  <1>1. ASSUME NEW w \in Workers, Request(w) PROVE BookInv'
    BY <1>1, RequestBooks
  <1>2. ASSUME NEW w \in Workers, Step(w) \/ Rollback(w) PROVE BookInv'
    <2>1. CASE RegisterRefuse(w) \/ Rollback(w)
      BY <2>1, EndBooks DEF RegisterRefuse, Rollback
    <2> QED BY <1>2, <2>1, ReadsBooks, RegisterCommitBooks, CancelCommitBooks, SaveRowBooks,
                RepairCommitBooks, Zenon DEF Step
  <1>3. CASE ActivateRecipe \/ RegisterAccounts \/ MoveElsewhere \/ UNCHANGED vars
    <2>1. UNCHANGED <<rows, consumed, journal, cancellations, cmd>>
      BY <1>3 DEF ActivateRecipe, RegisterAccounts, MoveElsewhere, vars, stock
    <2>2. UNCHANGED <<clientKey, status>> /\ Placed' = Placed
      BY <2>1 DEF rows, Placed
    <2> QED BY <2>1, <2>2, QuietBooks
  <1> QED BY <1>1, <1>2, <1>3, ReverseByHandBooks DEF Next

LEMMA BooksAlways == Spec => []BookInv
  BY InitBooks, NextBooks, Invariant, PTL DEF Spec

\* BL-08, cancellation, in strict mode: what was cancelled has no journal in force.
THEOREM CancelledOrdersAreReversed == Spec => []CancelledOrderIsReversed
  <1>1. IInv /\ BookInv => CancelledOrderIsReversed
    BY DEF IInv, CancelledGoesBack, BookInv, StrictJournals, CancelledOrderIsReversed
  <1> QED BY <1>1, Invariant, BooksAlways, PTL

\* BL-08, registration, in strict mode: what was sold and not cancelled was journaled,
\* and nothing but a reversal by hand has undone that.
THEOREM SalesAreJournaled == Spec => []RegisteredIsJournaled
  <1>1. BookInv => RegisteredIsJournaled
    BY DEF BookInv, StrictJournals, RegisteredIsJournaled
  <1> QED BY <1>1, BooksAlways, PTL

\* The advisory lock keeps a key free from its lookup to the commit.
THEOREM KeysAreHeld == Spec => []RegistrationHoldsItsKey
  <1>1. BookInv => RegistrationHoldsItsKey
    BY DEF BookInv
  <1> QED BY <1>1, BooksAlways, PTL

\* Who posts a journal: a registration, whose order is being prepared, or a repair,
\* which holds the order's row.
LEMMA PostingStep ==
  ASSUME IInv, BookInv, Next, NEW o \in Orders, NEW t \in JournalTypes,
         journal[o][t] # "POSTED", journal'[o][t] = "POSTED"
  PROVE  status'[o] # "cancelled"
  <1>1. journal' # journal
    OBVIOUS
  <1>2. PICK w \in Workers : RegisterCommit(w) \/ CancelCommit(w) \/ RepairCommit(w)
    <2>1. ~(ActivateRecipe \/ RegisterAccounts \/ MoveElsewhere \/ ReverseByHand)
      <3>1. ~ReverseByHand
        BY ReversedByHand DEF IInv
      <3> QED BY <1>1, <3>1 DEF ActivateRecipe, RegisterAccounts, MoveElsewhere
    <2>2. PICK w \in Workers : Request(w) \/ Step(w) \/ Rollback(w)
      BY <2>1 DEF Next
    <2>3. ~Request(w)
      BY <1>1, RequestTouchesNothing
    <2> QED BY <1>1, <2>2, <2>3, SMT DEF Step, RegisterRead, CancelRead, StatusRead, KitchenRead,
                SaveRow, RepairRead, Rollback, RegisterRefuse
  <1>3. cmd[w].order \in Orders
    BY <1>2, SMT DEF RegisterCommit, CancelCommit, RepairCommit, IInv, NamesOrder, At
  <1>4. CASE RegisterCommit(w)
    <2>1. /\ status' = [status EXCEPT ![cmd[w].order] = "preparing"]
          /\ \A p \in Orders \ {cmd[w].order} : journal'[p] = journal[p]
      BY <1>4, SMT DEF RegisterCommit, IInv, TypeOK
    <2>2. o = cmd[w].order
      BY <2>1
    <2> QED BY <2>1, <2>2 DEF IInv, TypeOK
  <1>5. CASE CancelCommit(w)
    <2>1. journal' = [journal EXCEPT ![cmd[w].order] = [k \in JournalTypes |-> Reversed(@[k])]]
      BY <1>5 DEF CancelCommit
    <2> QED BY <1>3, <2>1, SMT DEF Reversed, IInv, TypeOK
  <1>6. CASE RepairCommit(w)
    <2>1. At(w, "repair", "read") /\ status' = status
      BY <1>6 DEF RepairCommit, rows
    <2>2. ASSUME NEW k \in JournalTypes,
                 journal' = [journal EXCEPT ![cmd[w].order][k] = Reversed(@)]
          PROVE  FALSE
      <3>1. /\ journal \in [Orders -> [JournalTypes -> JournalStates]]
            /\ Reversed(journal[cmd[w].order][k]) # "POSTED"
        BY SMT DEF Reversed, IInv, TypeOK, JournalStates
      <3>2. journal'[o][t] = journal[o][t] \/ journal'[o][t] = Reversed(journal[cmd[w].order][k])
        BY <1>3, <2>2, <3>1, SMT
      <3> QED BY <3>1, <3>2
    <2>3. /\ cmd[w].target \in JournalTypes
          /\ journal' = [journal EXCEPT ![cmd[w].order][cmd[w].target] = "POSTED"]
      BY <1>1, <1>6, <2>2 DEF RepairCommit
    <2>4. o = cmd[w].order
      BY <1>3, <2>3, SMT DEF IInv, TypeOK
    <2> QED BY <2>1, <2>3, <2>4 DEF BookInv, RepairSeesOpen
  <1> QED BY <1>2, <1>4, <1>5, <1>6

\* The row lock of the repair, in either accounting mode: no journal is posted for an
\* order that is cancelled by then.
THEOREM CancelledGetsNoJournal == Spec => NothingPostedForCancelled
  <1>1. IInv /\ BookInv /\ [Next]_vars
          => [\A o \in Orders, t \in JournalTypes :
                journal[o][t] # "POSTED" /\ journal'[o][t] = "POSTED"
                  => status'[o] # "cancelled"]_vars
    BY PostingStep
  <1> QED BY <1>1, Invariant, BooksAlways, PTL DEF Spec, NothingPostedForCancelled

-----------------------------------------------------------------------------
(* Who takes a balance below zero.                                          *)

LEMMA OverdrawingStep ==
  ASSUME IInv, Next, NEW i \in Items,
         balance'[i] < balance[i], balance'[i] < 0, elsewhere'[i] = elsewhere[i]
  PROVE  /\ i \in MayGoNegative
         /\ \E w \in Workers : cmd[w].approved /\ cmd[w].qty[i] > 0 /\ cmd'[w] # cmd[w]
  <1>1. balance' # balance /\ balance \in [Items -> Int]
    BY DEF IInv, TypeOK
  <1>2. ~MoveElsewhere
    BY <1>1, MovedElsewhere DEF IInv, TypeOK
  <1>3. PICK w \in Workers : RegisterCommit(w) \/ CancelCommit(w)
    <2>1. ~(ActivateRecipe \/ RegisterAccounts \/ ReverseByHand)
      BY <1>1 DEF ActivateRecipe, RegisterAccounts, ReverseByHand, stock
    <2>2. PICK w \in Workers : Request(w) \/ Step(w) \/ Rollback(w)
      BY <1>2, <2>1 DEF Next
    <2>3. ~Request(w)
      BY <1>1, RequestTouchesNothing DEF stock
    <2> QED BY <1>1, <2>2, <2>3, SMT DEF Step, RegisterRead, CancelRead, StatusRead, KitchenRead,
                SaveRow, RepairRead, RepairCommit, Rollback, RegisterRefuse, stock
  <1>4. ~CancelCommit(w)
    <2> SUFFICES ASSUME CancelCommit(w) PROVE FALSE
      OBVIOUS
    <2> DEFINE r == Restored(cmd[w].qty)
    <2>1. cmd[w].order \in Orders
            /\ r = IF cmd[w].order \in cancellations THEN Nothing ELSE consumed[cmd[w].order]
      BY CancelRestores
    <2>2. r[i] \in Nat
      BY <2>1, SMT DEF Nothing, IInv, TypeOK
    <2>3. balance'[i] = balance[i] + r[i]
      BY DEF CancelCommit
    <2> HIDE DEF r
    <2> QED BY <1>1, <2>2, <2>3
  <1>5. /\ At(w, "register", "read") /\ Enough(cmd[w].qty, cmd[w].approved) /\ End(w)
        /\ balance' = [j \in Items |-> balance[j] - cmd[w].qty[j]]
    BY <1>3, <1>4 DEF RegisterCommit, RegisterAdmitted
  <1>6. cmd[w].qty \in [Items -> Nat]
    BY <1>5, OrderAssumption, SMT DEF IInv, NamesOrder, At
  <1>7. cmd[w].qty[i] > 0 /\ ~(balance[i] >= cmd[w].qty[i])
    BY <1>1, <1>5, <1>6
  <1>8. i \in MayGoNegative /\ cmd[w].approved
    BY <1>5, <1>6, <1>7 DEF Enough, AllowNegative
  <1>9. cmd'[w] # cmd[w]
    BY <1>5, EndFields DEF IInv, At
  <1> QED BY <1>7, <1>8, <1>9

\* The check that counts is the one under the balance's lock: whatever other sales and
\* documents have made of an item since the first check, below zero or not, no order
\* command takes it below zero but an approved sale of an item that may go there.
THEOREM OnlyApprovedSalesGoBelowZero == Spec => OnlyApprovedSalesOverdraw
  <1>1. IInv /\ [Next]_vars
          => [\A i \in Items :
                balance'[i] < balance[i] /\ balance'[i] < 0 /\ elsewhere'[i] = elsewhere[i] =>
                  /\ i \in MayGoNegative
                  /\ \E w \in Workers : cmd[w].approved /\ cmd[w].qty[i] > 0 /\ cmd'[w] # cmd[w]]_vars
    BY OverdrawingStep
  <1> QED BY <1>1, Invariant, PTL DEF Spec, OnlyApprovedSalesOverdraw

=============================================================================
