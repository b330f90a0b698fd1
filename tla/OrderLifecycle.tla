--------------------------- MODULE OrderLifecycle ---------------------------
(***************************************************************************)
(* The orders context of the backend with what an order drags along: the   *)
(* stock it consumes (inventory), its two automatic journals (accounting)  *)
(* and the journal repair that runs next to the order commands.  Other     *)
(* contexts write two of these rows as well, and do so here: the stock's   *)
(* balances (MoveElsewhere) and a journal's status (ReverseByHand).        *)
(*                                                                         *)
(* A worker is one HTTP request.  A command is split where the database    *)
(* lets another command in: at its first read and at its commit.  Rows     *)
(* that a command locks stay locked until it commits (READ COMMITTED), so  *)
(* everything after the last lock is one step.                             *)
(***************************************************************************)
EXTENDS Integers

CONSTANTS Orders,        \* ids that Order.register may draw
          Items,         \* inventory items, the ingredients of the dish
          Workers,       \* requests served at the same time
          Keys, NoKey,   \* client_request_id values, and their absence
          NoOrder,       \* no order is named by the command
          Recipes,       \* versions of the dish's recipe: [Items -> Nat]
          Opening,       \* branch stock at the start: [Items -> Nat]
          MayGoNegative, \* items under ALLOW_WITH_APPROVAL
          Priced,        \* orders whose total is above zero
          CostedItems,   \* items with a unit cost
          Net,           \* bound: what other documents move of an item, net
          Strict,        \* ACCOUNTING_ENFORCEMENT=strict
          Ops            \* the commands the users issue

ASSUME OrderAssumption ==
  /\ NoKey \notin Keys
  /\ NoOrder \notin Orders
  /\ Recipes # {} /\ Recipes \subseteq [Items -> Nat]
  /\ Opening \in [Items -> Nat]
  /\ Net \subseteq Int
  /\ MayGoNegative \subseteq Items
  /\ CostedItems \subseteq Items
  /\ Priced \subseteq Orders
  /\ Strict \in BOOLEAN
  /\ Ops \subseteq {"register", "cancel", "status", "kitchen", "repair"}

OrderStatuses   == {"preparing", "out_for_delivery", "completed", "cancelled"}
Final           == {"completed", "cancelled"}
KitchenStatuses == {"NEW", "ACCEPTED", "PREPARING", "READY"}
JournalTypes    == {"order_sale", "order_cogs"}

\* journal_entries.status, with no entry and the entry that an accountant reversed
\* ("BY_HAND") told apart from the one reversed with its order.
JournalStates   == {"none", "POSTED", "REVERSED", "BY_HAND"}

KitchenRank == [k \in KitchenStatuses |->
  CASE k = "NEW" -> 0 [] k = "ACCEPTED" -> 1 [] k = "PREPARING" -> 2 [] k = "READY" -> 3]

VARIABLES
  status,        \* orders.status, "absent" before the row exists
  kitchen,       \* orders.kitchen_status
  clientKey,     \* orders.client_request_id
  balance,       \* branch_stock_balances.quantity
  consumed,      \* CONSUMPTION movements of an order, per item
  restored,      \* order_cancellation movements of an order, per item
  elsewhere,     \* net of the movements of all other documents, per item
  journal,       \* the journal of (source_type, order); one by unique index
  cancellations, \* orders whose OrderCancelled event was published
  recipe,        \* the active recipe version
  chartReady,    \* the chart of accounts has the accounts of a sale
  cmd            \* the command each worker is running

rows == <<status, kitchen, clientKey>>
stock == <<balance, consumed, restored, elsewhere>>
config == <<recipe, chartReady>>
vars == <<rows, stock, journal, cancellations, config, cmd>>

Nothing == [i \in Items |-> 0]

Command == [op       : {"none", "register", "cancel", "status", "kitchen", "repair"},
            stage    : {"idle", "issued", "read"},
            order    : Orders \cup {NoOrder},
            key      : Keys \cup {NoKey},
            approved : BOOLEAN,                  \* stockApproved of the request
            target   : {"unset", "unreversed"} \cup OrderStatuses
                         \cup KitchenStatuses \cup JournalTypes,
            status   : OrderStatuses \cup {"absent"},  \* as loaded
            kitchen  : KitchenStatuses,                \* as loaded
            qty      : [Items -> Int]]           \* to consume, or outstanding

Idle == [op |-> "none", stage |-> "idle", order |-> NoOrder, key |-> NoKey,
         approved |-> FALSE, target |-> "unset", status |-> "absent",
         kitchen |-> "NEW", qty |-> Nothing]

TypeOK ==
  /\ status \in [Orders -> OrderStatuses \cup {"absent"}]
  /\ kitchen \in [Orders -> KitchenStatuses]
  /\ clientKey \in [Orders -> Keys \cup {NoKey}]
  /\ balance \in [Items -> Int]
  /\ consumed \in [Orders -> [Items -> Nat]]
  /\ restored \in [Orders -> [Items -> Int]]
  /\ elsewhere \in [Items -> Int]
  /\ journal \in [Orders -> [JournalTypes -> JournalStates]]
  /\ cancellations \subseteq Orders
  /\ recipe \in Recipes
  /\ chartReady \in BOOLEAN
  /\ cmd \in [Workers -> Command]

Init ==
  /\ status = [o \in Orders |-> "absent"]
  /\ kitchen = [o \in Orders |-> "NEW"]
  /\ clientKey = [o \in Orders |-> NoKey]
  /\ balance = Opening
  /\ consumed = [o \in Orders |-> Nothing]
  /\ restored = [o \in Orders |-> Nothing]
  /\ elsewhere = Nothing
  /\ journal = [o \in Orders |-> [t \in JournalTypes |-> "none"]]
  /\ cancellations = {}
  /\ recipe \in Recipes
  /\ chartReady \in BOOLEAN
  /\ cmd = [w \in Workers |-> Idle]

Placed == {o \in Orders : status[o] # "absent"}

-----------------------------------------------------------------------------
(* Locks.  Both are released by the commit, so who holds one follows from   *)
(* the stage of the commands.                                               *)

\* Mutant of HoldsRow: the row is locked FOR SHARE on arrival and upgraded later.
SharedFirst(w, o) == cmd[w].op \in {"cancel", "repair"} /\ cmd[w].stage # "idle" /\ cmd[w].order = o

\* SELECT ... FOR UPDATE on orders: cancellation and repair take it first.
HoldsRow(w, o) == cmd[w].op \in {"cancel", "repair"} /\ cmd[w].stage = "read" /\ cmd[w].order = o

\* Mutant of RowFree: lockRow forgotten.
RowNeverLocked(w, o) == TRUE

RowFree(w, o) == \A v \in Workers \ {w} : ~HoldsRow(v, o)

\* pg_advisory_xact_lock on the client request id.
HoldsKey(w, k) == cmd[w].op = "register" /\ cmd[w].stage = "read" /\ cmd[w].key = k

\* Mutant of KeyFree: no advisory lock before the idempotency lookup.
KeyNeverLocked(w, k) == TRUE

KeyFree(w, k) == k = NoKey \/ \A v \in Workers \ {w} : ~HoldsKey(v, k)

At(w, op, stage) == cmd[w].op = op /\ cmd[w].stage = stage

\* The command with what its reads have put into memory.
Loaded(m, s, k, q) ==
  [op |-> m.op, stage |-> "read", order |-> m.order, key |-> m.key, approved |-> m.approved,
   target |-> m.target, status |-> s, kitchen |-> k, qty |-> q]

Load(w, s, k, q) == cmd' = [cmd EXCEPT ![w] = Loaded(cmd[w], s, k, q)]

End(w) == cmd' = [cmd EXCEPT ![w] = Idle]

-----------------------------------------------------------------------------
(* Requests.                                                                *)

\* A gap of the journal coverage report.
Gap(o, t) ==
  \/ /\ t \in JournalTypes
     /\ status[o] \notin {"absent", "cancelled"}
     /\ journal[o][t] = "none"
     /\ IF t = "order_sale" THEN o \in Priced
                            ELSE \E i \in CostedItems : consumed[o][i] > 0
  \/ /\ t = "unreversed"
     /\ status[o] = "cancelled"
     /\ \E j \in JournalTypes : journal[o][j] = "POSTED"

Issued(op, o, k, a, t) ==
  [op |-> op, stage |-> "issued", order |-> o, key |-> k, approved |-> a, target |-> t,
   status |-> "absent", kitchen |-> "NEW", qty |-> Nothing]

Submit(w, op, o, k, a, t) ==
  /\ op \in Ops
  /\ cmd[w].stage = "idle"
  /\ cmd' = [cmd EXCEPT ![w] = Issued(op, o, k, a, t)]
  /\ UNCHANGED <<rows, stock, journal, cancellations, config>>

\* POST /orders; the id is drawn by Order.register, hence fresh.
SubmitRegister(w) ==
  \E o \in Orders \ Placed, k \in Keys \cup {NoKey}, a \in BOOLEAN :
    /\ \A v \in Workers : cmd[v].order # o
    /\ Submit(w, "register", o, k, a, "unset")

SubmitCancel(w) == \E o \in Placed : Submit(w, "cancel", o, NoKey, FALSE, "unset")

\* Mutant of SubmitStatus: "cancelled" goes through the general endpoint.
SubmitAnyStatus(w) ==
  \E o \in Placed, t \in OrderStatuses \cup {"unset"} : Submit(w, "status", o, NoKey, FALSE, t)

\* The dto's status is optional, and "cancelled" is refused before any read.
SubmitStatus(w) ==
  \E o \in Placed, t \in (OrderStatuses \ {"cancelled"}) \cup {"unset"} :
    Submit(w, "status", o, NoKey, FALSE, t)

SubmitKitchen(w) ==
  \E o \in Placed, t \in KitchenStatuses : Submit(w, "kitchen", o, NoKey, FALSE, t)

\* The repair works through the gaps that the coverage query returned.
SubmitRepair(w) ==
  \E o \in Orders, t \in JournalTypes \cup {"unreversed"} :
    Gap(o, t) /\ Submit(w, "repair", o, NoKey, FALSE, t)

\* A failure before the commit (a subscriber that throws, a closed period, a
\* deadlock victim, a lost connection) undoes everything the command wrote.
Rollback(w) ==
  /\ cmd[w].stage = "read"
  /\ End(w)
  /\ UNCHANGED <<rows, stock, journal, cancellations, config>>

-----------------------------------------------------------------------------
(* POST /orders: RegisterOrderHandler.                                      *)

AllowNegative(i, approved) == i \in MayGoNegative /\ approved

Enough(q, approved) ==
  \A i \in Items : q[i] = 0 \/ AllowNegative(i, approved) \/ balance[i] >= q[i]

\* What the strict policy of AccountingPostingService refuses to skip.
NeedsJournal(o, t, q) ==
  IF t = "order_sale" THEN o \in Priced ELSE \E i \in CostedItems : q[i] > 0

\* Advisory lock, idempotency lookup, recipe resolution, first stock check.
RegisterRead(w) ==
  LET c == cmd[w] IN
  /\ At(w, "register", "issued")
  /\ KeyFree(w, c.key)
  /\ IF \/ c.key # NoKey /\ \E o \in Placed : clientKey[o] = c.key   \* return existing
        \/ ~Enough(recipe, c.approved)                              \* InsufficientStock
     THEN End(w)
     ELSE Load(w, c.status, c.kitchen, recipe)
  /\ UNCHANGED <<rows, stock, journal, cancellations, config>>

\* Mutants of RegisterAdmitted: only the first stock check counts, and
\* a missing chart of accounts is skipped in strict mode too.
AdmittedOnFirstCheck(w) ==
  /\ cmd[w].key = NoKey \/ \A o \in Placed : clientKey[o] # cmd[w].key
  /\ Strict /\ (\E t \in JournalTypes : NeedsJournal(cmd[w].order, t, cmd[w].qty)) => chartReady

AdmittedUnjournaled(w) ==
  /\ cmd[w].key = NoKey \/ \A o \in Placed : clientKey[o] # cmd[w].key
  /\ Enough(cmd[w].qty, cmd[w].approved)

\* The checks that can still roll the registration back: the unique index on
\* the key, the balance under its row lock, the accounts in strict mode.
RegisterAdmitted(w) ==
  LET c == cmd[w] IN
  /\ c.key = NoKey \/ \A o \in Placed : clientKey[o] # c.key
  /\ Enough(c.qty, c.approved)
  /\ Strict /\ (\E t \in JournalTypes : NeedsJournal(c.order, t, c.qty)) => chartReady

RegisterCommit(w) ==
  LET c == cmd[w] IN
  /\ At(w, "register", "read")
  /\ RegisterAdmitted(w)
  /\ status' = [status EXCEPT ![c.order] = "preparing"]
  /\ kitchen' = [kitchen EXCEPT ![c.order] = "NEW"]
  /\ clientKey' = [clientKey EXCEPT ![c.order] = c.key]
  /\ consumed' = [consumed EXCEPT ![c.order] = c.qty]
  /\ balance' = [i \in Items |-> balance[i] - c.qty[i]]
  /\ journal' = [journal EXCEPT ![c.order] = [t \in JournalTypes |->
                   IF chartReady /\ NeedsJournal(c.order, t, c.qty) THEN "POSTED" ELSE "none"]]
  /\ End(w)
  /\ UNCHANGED <<restored, elsewhere, cancellations, config>>

\* InsufficientStock, AccountingNotConfigured, a unique violation.
RegisterRefuse(w) ==
  /\ At(w, "register", "read")
  /\ ~RegisterAdmitted(w)
  /\ End(w)
  /\ UNCHANGED <<rows, stock, journal, cancellations, config>>

-----------------------------------------------------------------------------
(* PATCH /orders/:id/cancel: CancelOrderHandler.                            *)

\* Mutant of Outstanding: the restored quantity is recomputed from the recipe.
RecipeToday(o) == recipe

\* What the order consumed and has not got back, from its own movements.
Outstanding(o) == [i \in Items |-> consumed[o][i] - restored[o][i]]

\* lockRow, setStatus("cancelled") on the row just read, outstanding stock.
CancelRead(w) ==
  LET c == cmd[w] IN
  /\ At(w, "cancel", "issued")
  /\ RowFree(w, c.order)
  /\ IF status[c.order] \in Final                        \* OrderAlreadyFinalized
     THEN End(w)
     ELSE Load(w, c.status, kitchen[c.order], Outstanding(c.order))
  /\ UNCHANGED <<rows, stock, journal, cancellations, config>>

Restored(q) == [i \in Items |-> IF q[i] > 0 THEN q[i] ELSE 0]

Reversed(j) == IF j = "POSTED" THEN "REVERSED" ELSE j

CancelCommit(w) ==
  LET c == cmd[w] IN
  /\ At(w, "cancel", "read")
  /\ status' = [status EXCEPT ![c.order] = "cancelled"]
  /\ kitchen' = [kitchen EXCEPT ![c.order] = c.kitchen]
  /\ restored' = [restored EXCEPT ![c.order] = [i \in Items |-> @[i] + Restored(c.qty)[i]]]
  /\ balance' = [i \in Items |-> balance[i] + Restored(c.qty)[i]]
  /\ journal' = [journal EXCEPT ![c.order] = [t \in JournalTypes |-> Reversed(@[t])]]
  /\ cancellations' = cancellations \cup {c.order}
  /\ End(w)
  /\ UNCHANGED <<clientKey, consumed, elsewhere, config>>

-----------------------------------------------------------------------------
(* PATCH /orders/:id/status and /kitchen-status.  The row is read without   *)
(* a lock, changed in memory and written back whole.                        *)

StatusRead(w) ==
  LET c == cmd[w] IN
  /\ At(w, "status", "issued")
  /\ IF c.target # "unset" /\ status[c.order] \in Final   \* OrderAlreadyFinalized
     THEN End(w)
     ELSE Load(w, IF c.target = "unset" THEN status[c.order] ELSE c.target,
                  kitchen[c.order], c.qty)
  /\ UNCHANGED <<rows, stock, journal, cancellations, config>>

KitchenRead(w) ==
  LET c == cmd[w] IN
  /\ At(w, "kitchen", "issued")
  /\ IF \/ status[c.order] = "cancelled"                  \* OrderCancelledError
        \/ KitchenRank[c.target] # KitchenRank[kitchen[c.order]] + 1
     THEN End(w)
     ELSE Load(w, status[c.order], c.target, c.qty)
  /\ UNCHANGED <<rows, stock, journal, cancellations, config>>

\* OrderRepository.save: the upsert waits for the row, then sets both columns
\* to what the command holds in memory.
SaveRow(w) ==
  LET c == cmd[w] IN
  /\ At(w, "status", "read") \/ At(w, "kitchen", "read")
  /\ RowFree(w, c.order)
  /\ status' = [status EXCEPT ![c.order] = c.status]
  /\ kitchen' = [kitchen EXCEPT ![c.order] = c.kitchen]
  /\ End(w)
  /\ UNCHANGED <<clientKey, stock, journal, cancellations, config>>

-----------------------------------------------------------------------------
(* POST /accounting/repair/journals, one gap: AccountingRepairService.      *)

\* Mutant of RepairRead: the gap is trusted, the status not read again.
RepairTrustsGap(w) ==
  /\ At(w, "repair", "issued")
  /\ RowFree(w, cmd[w].order)
  /\ Load(w, cmd[w].status, cmd[w].kitchen, cmd[w].qty)
  /\ UNCHANGED <<rows, stock, journal, cancellations, config>>

\* lockRow; a sale or COGS gap is skipped when the order is cancelled by now,
\* a cancellation gap is reversed whatever the order's status has become.
RepairRead(w) ==
  LET c == cmd[w] IN
  /\ At(w, "repair", "issued")
  /\ RowFree(w, c.order)
  /\ IF c.target \in JournalTypes /\ status[c.order] = "cancelled"
     THEN End(w)
     ELSE Load(w, cmd[w].status, cmd[w].kitchen, cmd[w].qty)
  /\ UNCHANGED <<rows, stock, journal, cancellations, config>>

\* postOnce, or reverseBySource on the journal that the gap names.
RepairCommit(w) ==
  LET c == cmd[w] IN
  /\ At(w, "repair", "read")
  /\ \/ /\ c.target = "unreversed"
        /\ \E t \in JournalTypes : journal' = [journal EXCEPT ![c.order][t] = Reversed(@)]
     \/ /\ c.target \in JournalTypes
        /\ chartReady /\ journal[c.order][c.target] = "none"
        /\ journal' = [journal EXCEPT ![c.order][c.target] = "POSTED"]
     \/ /\ c.target \in JournalTypes
        /\ ~chartReady \/ journal[c.order][c.target] # "none"   \* FAILED, or already posted
        /\ UNCHANGED journal
  /\ End(w)
  /\ UNCHANGED <<rows, stock, cancellations, config>>

-----------------------------------------------------------------------------
(* Configuration that changes while orders are taken.                       *)

\* ActivateRecipeVersionHandler.
ActivateRecipe ==
  \E r \in Recipes \ {recipe} :
    /\ recipe' = r
    /\ UNCHANGED <<rows, stock, journal, cancellations, chartReady, cmd>>

\* RegisterAccountHandler, until the accounts of a sale all exist.
RegisterAccounts ==
  /\ ~chartReady
  /\ chartReady' = TRUE
  /\ UNCHANGED <<rows, stock, journal, cancellations, recipe, cmd>>

-----------------------------------------------------------------------------
(* What other contexts do to the same rows.                                 *)

\* recordMovement for a receipt, a transfer, a conversion, a stocktake, ...  A
\* stocktake's variance and a purchase return waive the check, so a balance can
\* end up anywhere, below zero too.
MoveElsewhere ==
  \E i \in Items, n \in Net :
    /\ n # elsewhere[i]
    /\ elsewhere' = [elsewhere EXCEPT ![i] = n]
    /\ balance' = [balance EXCEPT ![i] = @ + (n - elsewhere[i])]
    /\ UNCHANGED <<rows, consumed, restored, journal, cancellations, config, cmd>>

\* POST /accounting/journal-entries/:id/reverse, of the entry of an order: under the
\* entry's lock and whatever has become of the order.  A cancellation that had found
\* the entry in force runs into the unique index on reversal_of_entry_id: Rollback.
ReverseByHand ==
  \E o \in Orders, t \in JournalTypes :
    /\ journal[o][t] = "POSTED"
    /\ journal' = [journal EXCEPT ![o][t] = "BY_HAND"]
    /\ UNCHANGED <<rows, stock, cancellations, config, cmd>>

Request(w) ==
  SubmitRegister(w) \/ SubmitCancel(w) \/ SubmitStatus(w) \/ SubmitKitchen(w) \/ SubmitRepair(w)

Step(w) ==
  \/ RegisterRead(w) \/ RegisterCommit(w) \/ RegisterRefuse(w)
  \/ CancelRead(w) \/ CancelCommit(w)
  \/ StatusRead(w) \/ KitchenRead(w) \/ SaveRow(w)
  \/ RepairRead(w) \/ RepairCommit(w)

Next ==
  \/ \E w \in Workers : Request(w) \/ Step(w) \/ Rollback(w)
  \/ ActivateRecipe
  \/ RegisterAccounts
  \/ MoveElsewhere
  \/ ReverseByHand

Spec == Init /\ [][Next]_vars

\* A request that has reached the server is carried on until it is answered,
\* and PostgreSQL grants a lock in the order of the waiters.  Nothing obliges a
\* command to fail, so a rollback is no part of it.
Fairness == \A w \in Workers : SF_vars(Step(w))

FairSpec == Spec /\ Fairness

-----------------------------------------------------------------------------
(* The promise about the stock, with the effect of an order read off the    *)
(* row and the published cancellation, and the movements of other documents *)
(* taken out of the balance.                                                *)

Effect == [o \in Orders |-> IF o \in cancellations THEN "undone"
                           ELSE IF status[o] = "absent" THEN "none" ELSE "sold"]

\* What the branch would hold had nothing but orders moved it.
OrdersStock == [i \in Items |-> balance[i] - elsewhere[i]]

Sale == INSTANCE SaleEffects
          WITH Portions <- Recipes, effect <- Effect, portion <- consumed, stock <- OrdersStock

\* The orders context implements SaleEffects: stale saves, retries, repairs
\* and cancellations of orders that came back to life change no stock.
ImplementsSaleEffects == Sale!SaleSpec

-----------------------------------------------------------------------------
(* Properties.                                                              *)

\* BL-02, BL-07: whatever interleaving of cancels, stale saves, retries and
\* recipe changes, an order whose cancellation took effect got back exactly
\* what it consumed, and any other order got nothing back.
StockRestoredExactlyOnce ==
  \A o \in Orders : restored[o] = IF o \in cancellations THEN consumed[o] ELSE Nothing

\* register-order.handler.ts, recordMovement: whatever other sales and documents took
\* since the first check, and however far below zero a stocktake has left the item, no
\* order command takes an item below zero but an approved sale of one that may.
OnlyApprovedSalesOverdraw ==
  [][\A i \in Items :
       balance'[i] < balance[i] /\ balance'[i] < 0 /\ elsewhere'[i] = elsewhere[i] =>
         /\ i \in MayGoNegative
         /\ \E w \in Workers : cmd[w].approved /\ cmd[w].qty[i] > 0 /\ cmd'[w] # cmd[w]]_vars

\* BL-08, cancellation: in strict mode no journal of an order whose
\* cancellation took effect stays in force, and no order shows the status
\* "cancelled" without its reversals, even after stale saves.
CancelledOrderIsReversed ==
  Strict => \A o \in Orders :
    /\ o \in cancellations => \A t \in JournalTypes : journal[o][t] # "POSTED"
    /\ status[o] = "cancelled" => o \in cancellations

\* BL-08, registration: in strict mode an order whose cancellation has not taken
\* effect has every journal its price and its consumption call for, and nothing but an
\* accountant, by hand, has put one out of force.
RegisteredIsJournaled ==
  Strict => \A o \in Placed \ cancellations, t \in JournalTypes :
    NeedsJournal(o, t, consumed[o]) => journal[o][t] \in {"POSTED", "BY_HAND"}

\* The advisory lock: once a registration has looked its key up, nobody else
\* creates an order under that key, so a retry is answered with the existing
\* order and never with a unique violation.
RegistrationHoldsItsKey ==
  \A w \in Workers :
    At(w, "register", "read") /\ cmd[w].key # NoKey
      => \A o \in Placed : clientKey[o] # cmd[w].key

\* BL-02, the row lock: the status a cancellation validated still holds when
\* it commits, so a completed order is never cancelled under its feet and no
\* order is cancelled by two commands of which both believed it open.
CancelledWhileOpen ==
  [][\A o \in cancellations' \ cancellations : status[o] \notin Final]_vars

\* The repair decides on the order's status under the order's lock: no
\* automatic journal is ever posted for an order that is cancelled by then.
NothingPostedForCancelled ==
  [][\A o \in Orders, t \in JournalTypes :
       journal[o][t] # "POSTED" /\ journal'[o][t] = "POSTED" => status'[o] # "cancelled"]_vars

\* No lock is waited for for ever and every command is answered.
EveryCommandEnds == \A w \in Workers : cmd[w].stage # "idle" ~> cmd[w].stage = "idle"

\* domain/errors.ts, OrderAlreadyFinalizedError: the status of a completed or
\* cancelled order cannot be changed any more.  It can: UpdateOrderStatus and
\* AdvanceKitchenStatus write back the status they read without a lock.
FinalStatusIsFinal ==
  [][\A o \in Orders : status[o] \in Final => status'[o] = status[o]]_vars

=============================================================================
