# Satamoni ERP backend: TLA+ models and proofs

The repository holds a restaurant ERP: a NestJS/Drizzle/PostgreSQL backend
(`src/backend`) and a web frontend.  The backend is a modular monolith.  Each
directory under `src/backend/src/contexts/` is a bounded context with command
handlers, aggregates and repositories; contexts meet through injected ports,
through the event bus and through the database.  The rules that matter for money
and stock live in the command handlers and in three shared services.  This
directory models those rules, checks them with TLC and proves the central ones
with TLAPS.

## 1. Inventory

How a command runs.  `AuditLogInterceptor` wraps every mutating HTTP request in one
`TransactionService.run`; a handler's own `tx.run` joins it.  All repositories go
through a proxy to that transaction (READ COMMITTED).  `lockRow` is
`SELECT .. FOR UPDATE` on an aggregate's row, `advisoryLock` is
`pg_advisory_xact_lock`; both are released by the commit.  `EventBusService.publish`
writes the outbox row and calls the critical subscribers (postings, payment lock)
inside the transaction; the others run in-process after the commit.  A failure anywhere
before the commit undoes everything.

| Component | State | Operations | What makes it correct | Hard behaviour |
|---|---|---|---|---|
| orders | `orders` (status, kitchen status, idempotency key), items | register, cancel, status, kitchen status, rating | a final status stays; a cancellation undoes exactly what the registration did; one order per key | commands that read without a lock and write the row back whole; concurrent cancels; retries |
| inventory: ledger | `stock_movements`, `branch_stock_balances` | recordMovement under the balance's row lock | balance = sum of movements; no unapproved negative | check without a lock, re-check under it |
| inventory: transfers, stocktakes, batches | transfer requests, stocktakes, batches | request, approve, reject, dispatch, receive, cancel; count; write off | goods leave once and arrive once | no row is locked |
| accounting: automatic postings | `journal_entries`, one per source by unique index | postOnce, reverseBySource, coverage report, repair | every sale journaled, every cancellation reversed, no journal for a cancelled order | repair from a gap list that has aged; strict and deferred modes |
| accounting: periods, fiscal year | `accounting_periods`, closings | close, reverse, closing entry | nothing enters a closed period; the closing entry equals the year | postings racing the closing |
| payment-control | payments, adjustment requests, reconciliation records | lock payment, request/approve/reject adjustment, match/ignore | approved changes are applied and journaled once; a cancelled order keeps no correction | lock order, stale amounts |
| shared: transactions | ambient transaction, callbacks | run with retry, isolated, afterCommit, locks | atomic commands, callbacks only after a commit | deadlock, retry under an outer transaction |
| shared: event bus | subscriptions, outbox | publish, subscribe | critical effects atomic with the command | after-commit work lost in a crash |
| loyalty, storefront | points balance, ledger rows | earn, reserve, attach, release, settle | balance = ledger; a cancelled order keeps no points | order of after-commit subscribers; floor at zero |
| whatsapp | pending orders, conversations | receive, confirm, reject | a pending order becomes at most one order | confirm without a lock |
| procurement | requests, orders, receipts, invoices, payments, returns | a state machine each | never pay more than an invoice; an order's status agrees with its receipts | some handlers lock, some do not |
| purchases, expenses | purchases, expenses | register, review, cancel, edit | reviewed once, journaled once | read without a lock |
| production | conversion orders | start, complete, cancel | inputs consumed and outputs produced once | row lock first |
| shifts, branch-day | shifts, drawer entries, branch days | open, entry, close, review; close day | the closing sum covers every entry | entry against close |
| delivery | assignments, driver shifts, settlements | assign, status, settle, check in/out | an assignment is settled once | settlement against status |
| hr-payroll | runs, adjustments, attendance, leave | draft, approve, cancel | no adjustment is skipped or applied twice | adjustment against approval |
| printing | print jobs | queue, claim, printed, failed, retry | a job is printed by one agent | conditional updates |
| treasury | treasuries, transfers | transfer | one balanced journal | none of its own |
| frontend: the till and its queue | cart on the screen, `pending-orders` in IndexedDB | press, queue, send, cancel | a sale is kept until it is an order, and is one order | lost answers, two tabs, no transaction across the network |
| catalog, customers, crm, branches, settings, identity-access, media, notifications, home-tiles, reporting | configuration and views | CRUD, queries | unique codes and names | none, except that recipes change under open orders |

Every line where this code can go wrong in a way that a unit test would hardly
reach is in `PROJECT.json`, `hazards`, with the properties that cover it or the
reason why none does.

## 2. Plan

Each module that is proved about has its parameters as CONSTANTS with a named
assumption, one action per operation and no RECURSIVE operator.

| Part | Modules | State |
|---|---|---|
| the sale, its stock, its journals and their repair | `OrderLifecycle`, abstract `SaleEffects` | checked; every safety property and the refinement proved |
| payments and their corrections | `PaymentControl` | checked; every safety property proved |
| points of customers | `LoyaltyPoints` | checked; every safety property proved |
| from the till to the ticket | `OfflineSales`, `PrintQueue`, composed in `SaleToPaper` | checked; safety proved |
| documents that move stock | `StockLedger`, `StockTransfers`, `GoodsReceipts`, `SupplierInvoices`, `ConversionOrders`, `CashPurchases`, `Expenses`, `PendingOrders`, composed in `StockDocuments` | checked; every safety property proved |
| months and years | `AccountingPeriods` | checked; every property proved |
| shifts, drivers, payroll and the day | `ClosingCommands`, `CashShifts`, `DriverRounds`, `PayrollRuns`, composed in `BackOffice` | checked; every property proved |

Left, in the order of their weight: savepoints and after-commit callbacks of
`TransactionService` as a module of their own; bank reconciliation; attendance and
leave.

Every safety invariant, action property and refinement that a run checks is a theorem
(§5).  Left for the proofs: an abstract specification of the documents, which `StockDocuments`
would be shown to implement as `OrderLifecycle` implements `SaleEffects`.

## 3. Modules

### OrderLifecycle

A worker is one HTTP request.  `cmd[w]` is what the request has in memory: its
command, its input and what its reads returned.  A command goes through three stages.

| Stage | Code |
|---|---|
| idle to issued (`Submit*`) | the controller received the request, nothing is read |
| issued to read (`RegisterRead`, `CancelRead`, `StatusRead`, `KitchenRead`, `RepairRead`) | everything the handler reads and checks up to its first write; an exception ends the command here |
| read to idle (`RegisterCommit`, `CancelCommit`, `SaveRow`, `RepairCommit`) | all writes and critical subscribers, then the commit |

Two stages are enough because that is where another command's commit can make a
difference: under READ COMMITTED the reads before the first write are the ones that can
be stale, and what is read later is read under the row locks the writes take.
`RegisterCommit` re-checks the balance, exactly as `recordMovement` does under
its lock.  `Rollback` can end any command that has begun to work: an exception of a
subscriber, a lost connection or a deadlock victim leaves no trace.

Locks are not variables.  A row lock belongs to the cancellation or repair that is at
stage read (`HoldsRow`), the advisory lock to the registration that is (`HoldsKey`).
`StatusRead` and `KitchenRead` take no lock, as in the code; `SaveRow` waits for the
row, because an UPDATE does.

| Variable | Database |
|---|---|
| `status`, `kitchen`, `clientKey` | columns of `orders`; "absent" before the insert |
| `balance` | `branch_stock_balances.quantity` of the branch |
| `consumed`, `restored` | the order's CONSUMPTION and `order_cancellation` movements |
| `elsewhere` | net of the movements of all other documents on the branch's balance |
| `journal` | the entry with source (type, order): none, POSTED, REVERSED, or BY_HAND if it was not reversed with its order; one by unique index |
| `cancellations` | the orders whose `OrderCancelled` event was published |
| `recipe`, `chartReady` | the active recipe version; whether the required accounts exist |

Abstractions.  One branch, one dish per order; a recipe version says how much of each
item it takes, so combos, variants and modifiers are a choice of recipe.  Prices
only decide whether there is a sale journal (`Priced`), unit costs whether
there is a COGS journal (`CostedItems`).  Periods are open (a closed one is a
`Rollback`).  A repair request handles one gap; the requests of the code handle
several, one savepoint each.

Other contexts write two of these rows.  A receipt, a transfer or a stocktake moves the same
balance, a stocktake's variance and a purchase return with the check waived: `MoveElsewhere` lets
the net of all of them be any number of `Net` at any moment, so that a balance may be below zero
without an order's doing.  An accountant may reverse an order's entry by hand at any moment
(`ReverseByHand`).  The properties say what an order command may do in such
surroundings, not what the balance or the entry is.

### SaleEffects

What the orders context promises about the stock: an order takes its portion
once (`Sell`) and gives the same portion back at most once (`Undo`).  The refinement
mapping reads an order's effect from its row and from the published
cancellation; the order's `status` column cannot serve, because a stale save may
change it back.  It takes what other documents moved out of the balance (`OrdersStock`).

### PaymentControl

A payment is created in the registration's transaction (`PlaceOrder`) and changes only
when a request to adjust it is approved.  The approval locks the request
(`ApproveLock`: segregation of duties and approval level), locks and reads the payment
(`ApproveRead`), and writes payment, request, the order's method and the correcting
journal in one commit (`ApproveCommit`), where it waits for the order's row if the method
changes.  A cancellation holds the order's row (`CancelLock`), selects the approved
requests without any further lock (`CancelSelect`) and reverses their corrections
(`CancelCommit`).  Requests, rejections and the repair of one gap take at most one
lock and read nothing that another commit could make stale before they write, so each
is one action; so is the difference `delta` that a request is saved with: it is as old at
the approval as it would be had the request read the payment a moment earlier.

| Variable | Database |
|---|---|
| `order`, `orderMethod` | absent, open, or cancelled once `OrderCancelled` is published; `orders.payment_method_id` |
| `payment` | the row of `payments` of an order, method and amount |
| `request` | `payment_adjustment_requests`, with `amount_delta` and the `previous_*` evidence |
| `correction` | the journal with source (payment_adjustment, request): none, POSTED, REVERSED |
| `cmd` | the approval or cancellation a worker is running, with what it has read |

Abstractions.  An order without a payment method has no payment and is left out.  The sale
and COGS journals and the status column are the business of `OrderLifecycle`; what both
modules share is the cancellation, of which each shows its side.  An order that was
completed is one that nobody cancels.  `Class` stands for the kind and the settlement
channel of a method, amounts are whole pounds.

### LoyaltyPoints

Points are kept twice: as rows of a ledger and as a number on the customer's row.  An
order of the website spends points inside its own transaction (`PlaceReserve`, then
`PlaceCommit` or `PlaceFail`).  Points for a completed order and the return of spent
points are given by subscribers after the commit, in transactions of their own
(`AwardEarn`; `SettleRead`, `SettleRow`), so they can fail alone, and a restart of the
server (`Crash`) loses them.

| Variable | Database |
|---|---|
| `order` | absent, open, completed or cancelled |
| `ledger` | `loyalty_transactions`, at most one per order and kind |
| `balance` | `customers.loyalty_points` |
| `cmd` | the request of each worker |
| `lost` | history: orders whose settlement was cut off |

Every order asks for a reward and is named by its `clientRequestId`.  What the order
does to stock and journals is in `OrderLifecycle`.

### OfflineSales, PrintQueue, SaleToPaper

`OfflineSales` has the browser on one side of an unreliable network and the server on
the other.  The cashier presses the button; `useCreateOrder` posts the sale or stores it
in IndexedDB; `useOfflineSync` of every open tab sends what is stored.  Requests and
answers are lost, a request may arrive after the browser has given it up, tabs are closed,
and the write to IndexedDB can be undone after it has reported success.  The
registration at the server is one step here, because `OrderLifecycle` shows what
goes on inside it.

| Variable | Program |
|---|---|
| `online` | `navigator.onLine` |
| `till` | the cart on the screen and the mutation that works on it |
| `fate` | what the cashier was told of a cart |
| `store`, `createdAt`, `clock` | the store `pending-orders`, and `Date.now()` that sorts it |
| `sync` | the loop of `useOfflineSync` in each tab |
| `requests` | posted and not answered |
| `orders` | number of orders per `client_request_id` |
| `refused` | sales that the server does not accept |
| `doubted`, `aborted` | history: given back although posted; lost by the browser |

`PrintQueue` is the table `print_jobs` with the agents of the branch, which are programs
of their own and modelled from the endpoints they call.  Every change is one
conditional UPDATE: `Queue`, `Claim`, `Report`, `Retry`.  Between claim and report the
paper comes out or not (`ComesOut`, `Jam`), and the agent may die (`AgentDies`).  `job` is the
status, `agent` what each agent holds; `retried`, `paper` and `orphaned` are history.

`SaleToPaper` composes the two: the after-commit subscriber that queues the tickets of a
registered order runs before the answer goes out, or not at all if it fails or the server stops
(`unprinted`).  Its proofs
show that the composition implements both parts.

### StockLedger and the documents

All documents that move stock do it in one pattern, which `StockLedger` holds: read the
document, with or without its row lock; write one movement per line, each under the lock
of its balance; save the document whole; commit.  Lines may come in either order, so
two requests can wait for each other, and `Victim` is the one that PostgreSQL ends.

| Variable | Database |
|---|---|
| `row` | the documents: status, quantities, references |
| `balance` | `branch_stock_balances.quantity` |
| `total`, `moved` | sums of `stock_movements`, of a balance and of a document |
| `entries` | journal entries in force for a document |
| `consumed` | what was written off a batch |
| `live` | the documents of this behaviour |
| `stale` | history: documents saved, or confirmed, over a row that was not the one read, or cut off |
| `cmd` | the transaction of each worker |

`StockTransfers` has transfers, stocktakes and movements by hand; `GoodsReceipts`
purchase orders, receipts with their batches, and returns; `SupplierInvoices` invoices and
payments; `ConversionOrders` production; `CashPurchases` purchases without an order;
`Expenses` what moves no stock and is posted at most once; `PendingOrders` the orders that come in
by WhatsApp, whose routes run outside a transaction of the request, so that a confirmation
commits the order (`OrderRegistered`) and the pending order (`SaveConfirmed`) one after the
other, or is cut off in between (`CutOff`).
`StockDocuments` composes them: any request on any document next to any other.
Documents carry one quantity for all their lines, lines name distinct items, unit costs are
left out, and a row hit by a stale save is not worked on again.  An invoice of nothing but free
goods has the total 0: it can never be paid, so `InvoiceIsSettled` asks of a paid one that something
was paid.

### AccountingPeriods

`period` is `accounting_periods`, `entry` the entries of the journal, named `<<source, n>>`,
where `<<source, n + 1>>` reverses `<<source, n>>`; `ledger` is what stands on the income
accounts month by month, `closed` is `fiscal_year_closings`, `today` the month of the
business date.  A posting looks at its month in the aggregate and in the trigger, both times without
a lock, and commits later; a year is closed by an entry in the first month of the next
one.  `late` and `overtaken` are history: months that got an entry after they were closed, and
requests that were overtaken by a closing.

### ClosingCommands and the back office

A shift, a round, a settlement, a payroll month and a day are closed in one pattern: read
what happened since the opening, add it up, write the outcome, book the difference.
`ClosingCommands` has the requests with their locks, the journal (`Book` is `postOnce`,
`Reverse` is `reverseBySource`) and the clock that stamps rows.

| Module | Variables | Database |
|---|---|---|
| `ClosingCommands` | `live`, `clock`, `journal`, `cmd` | the rows of this behaviour; the order of time stamps; `journal_entries`; transactions |
| `CashShifts` | `shift`, `movement` | `cashier_shifts`; `cash_drawer_entries` and cash orders |
| `DriverRounds` | `delivery`, `settlement`, `round`; `raced` | `delivery_assignments`, `driver_settlements`, `driver_attendance_shifts`; history of stale saves |
| `PayrollRuns` | `adjustment`, `run`; `unseen` | `payroll_adjustments`, `payroll_runs`; history of adjustments that came after an approval had looked |
| `BackOffice` | `day` | `branch_days`; the closing asks its questions one by one (`DayActive`, `DayTotal`, `DayPending`, `DayDrivers`, `DayInsert`) |

Points of the translation that are easy to miss.  A drawer entry is checked against a shift read
without a lock, and its insert waits for the shift's row through the foreign key.  A
closing counts the entries of its cashier in its window, whichever shift they name; registering an
order looks at no shift.  Between the questions of the day anything may commit, and the
variances are added up before the shifts under review are asked for.  The question for open orders
is left out, so the model closes days that the code would not.  Movements, deliveries and
bonuses are worth one pound; the net pay of a run is any value; there is one branch, one
business date, one payroll month.  The accounts exist, the month is open and whoever
approves is known to the system.

### The MC and Proofs modules

`<Module>MC` holds the instances for TLC, `<Module>Proofs` the proofs; those of `OfflineSales` and
`PrintQueue` are in `SaleToPaperProofs`, with their composition.  `FiniteSums` has the lemmas about sums
over finite sets that the proofs share.

## 4. Runs

| Run | Question | Bounds |
|---|---|---|
| `orders_strict` | are stock, journals and key right under every interleaving? | 2 orders, 2 requests, 1 item with 3 units under ALLOW_WITH_APPROVAL, other documents take 2 of them or none, recipes of 1 and 2 units, 1 key, no unit cost, strict |
| `orders_repair` | is a repair safe next to cancellations, and is every request answered? | 1 order, 2 requests, every command, deferred, stock of 1 under ALLOW_WITH_APPROVAL |
| `orders_finality` | is a final status final?  **No.** | 1 order, 2 requests |
| `payments_deferred` | do corrections, order and payment agree, and do decisions stay? | 1 payment, 2 requests, 2 users, 2 methods of different classes, amounts 1 to 3, 2 commands, deferred |
| `payments_strict` | is every approval and cancellation answered? | 1 payment, 1 request, 2 commands, strict |
| `payments_cancelled` | does a cancelled order keep no correction?  **No.** | as `payments_deferred`, strict |
| `loyalty` | do balance and ledger agree, and do spent points come back? | 2 orders of 1 customer with points for one reward, 2 requests, failures and restarts |
| `sales` | is a sale kept, is it one order, does it arrive? | 2 carts, each may be refused, 1 tab, the button pressed twice, 1 post of the till under way |
| `tickets` | does each try print at most once, and does the ticket come out? | 1 cart, 2 agents, a ticket and a bill, 1 retry |
| `documents` | does every document move exactly the stock it says, and is every request answered? | 2 requests, 2 branches, 2 items in either order, quantities 0 to 2, twelve pairings of documents |
| `periods` | does the ledger show what stands, and does a closing take the year's income? | 2 requests, 1 source by hand and 1 automatic, 2 years of 2 months |
| `back_office` | is money counted, booked and paid once, and is a closed day complete? | 2 requests, 4 moments, two shifts, settlements, rounds or runs at a time, six pairings |

Why the bounds suffice.  Every property is about one document, or about a pair of commands:
two concurrent requests give every pairwise interleaving, and sequences of any length are
explored because a worker starts a new request after each answer.  Two orders are needed
for the last units of an item (3 units against recipes of 1 and 2) and for the shared
idempotency key.  One order in two is `Priced`, so that orders with and without a
sale journal occur.  Two recipe versions make a restored quantity taken from the
wrong version visible.  Sales come with an approval and without one, so that the same item
may go below zero in one and may not in the other; an item that may not behaves like one whose sales
are never approved.  The last units and the key are only meaningful with two orders, repairs
only in deferred mode (strict mode leaves no gap to repair), which is why there are two passing
runs.  COGS journals occur in `orders_repair`; they differ from sale journals only in what
calls for one.

In the payment runs two requests on one payment are what two approvals need to
disturb each other, and a total of 2 with amounts 1, 2 and 3 gives corrections up, down and of
nothing; the threshold of 2 lies between them.  The deferred run starts with and without
the accounts, so it has the behaviours of strict mode as well, except for the refusal of an
approval, which `payments_strict` has.

Two orders of one customer with points for one reward are what it takes to spend the same
points twice.  Two carts are needed for a queue with an order in it, a second press for a
cart that is given back and pressed again.  One post of the till may still be under way when
the tab sends the same sale from the queue.  The proofs have no such bounds.

The documents meet only where they share a balance or name each other, so a behaviour has one
of twelve sets of documents (`ScenariosMC` of `StockDocumentsMC`): a transfer, alone and with
a stocktake; a stocktake with a movement by hand; an order with two receipts; a
receipt with its batch and with a return; an invoice with its payments; a
conversion with a cash purchase, with a movement by hand and with its batch; an expense; a pending order with
a movement by hand, which puts in what a second confirmation takes.  Two items
in either order are what a deadlock takes.  The back office is split in the same way:
closings against entries, against sales of a second shift, against the day, settlements
against rounds, and payroll.  Four moments tell opening, movement, closing and a later opening
apart.

Workers, and in the back office things of one kind, are interchangeable; symmetry is used in
the runs without liveness only.  Deadlock is checked except in three runs, where the
system may really stop: rows of the bounded sets run out, and the clock and the months end
(`documents`, `periods`, `back_office`).

The type invariants are proved instead of run where they are theorems: orders, payments,
points, sales, tickets, documents and back office.  In `AccountingPeriods` `TypeOK` documents the
types; the proofs rest on a stronger `Shape`.

Fairness.  `FairSpec` asks strong fairness of each worker's step: the server carries a
request on until it is answered (Node's event loop and the PostgreSQL session do not
drop it), and PostgreSQL queues the waiters of a lock in order, so a waiter whose
lock is free again and again gets it.  In the documents a deadlock is detected sooner or later
(`Victim`).  Of the till: the timer and the event loop of a tab go on, a connection comes
back, and a post that is repeated for ever is answered in the end.  Of the printers: the
server goes on with what it has committed, an agent that asks for work again and again gets
some, finishes it and is answered.  Nothing is assumed about users, recipe
changes, the chart of accounts or crashes.  `Rollback` and `Fail` are no part of a
fair step: a command must be answered by going on, whether it succeeds or is refused by its
own checks.

The mutants in `PROJECT.json` are plausible defects: a forgotten row lock or advisory
lock, a check that is not repeated under the lock, a portion recomputed from today's
recipe, a repair that trusts an aged list, locks in the opposite order, a
condition left out of an UPDATE, a queue entry deleted before the answer, a window with a wrong
end, a question not asked.  Each breaks the property it is paired with.

### Findings

* **A final status is not final** (`FinalStatusIsFinal`).  The status and kitchen
  endpoints read the order without a lock and save both status columns.  Trace: a
  status update reads "preparing"; a cancellation commits; the update saves "preparing"
  or "completed".  The stock is back and the journals are reversed, and the order is alive.
  `StockRestoredExactlyOnce` and `CancelledOrderIsReversed` show that the damage ends there: a
  second cancellation finds nothing outstanding and nothing posted.
* **A cancelled order can keep a correction** (`CancelledKeepsNoCorrection`).  Nothing on the
  way from a request to its approval or repair looks at the order.  An adjustment approved after the
  cancellation, or between its select and its commit, posts a correction that no
  cancellation and no gap of the coverage report will ever find.

### Observations

Where a property makes an exception, the exception is a history variable and says what
the code lets happen.

* Journal.  `close-period.handler.ts` says that nothing enters a closed month, but the check
  and the trigger read the month without a lock: a posting that had looked before lands
  afterwards (`ClosedMonthRests` allows exactly this), and a year closed meanwhile misses it
  (`late`).  The closing entry is dated on the first day of the next year and is part of
  that year's income statement, so the next closing books the difference of the two years
  and does not zero the accounts as the comment of `close-fiscal-year.handler.ts` says.  A year
  cannot be closed once January of the next is, nor again after its closing entry was reversed.
  Drafts may be dated in closed months.
* Journal coverage.  A reversed journal counts as a journal, so an order that a stale save
  revived, or whose entry was reversed by hand, is in no gap list (`journal-coverage.ts`).
* Reversal by hand.  The handler takes any posted entry, whatever its source, and undoes nothing of the
  document behind it.  `AccountingPeriods` has it for every entry and `OrderLifecycle` for those of an
  order.  The journal properties of `PaymentControl`, `StockDocuments` and `BackOffice` speak of
  what the documents' own commands post and reverse: a correction, a receipt, an invoice's
  variance, a conversion, a shift or a payroll run whose entry an accountant reverses keeps its row.
* Payments.  The approval level is decided on the difference to the payment as it was when
  the adjustment was requested; two requests in opposite directions, each below the
  threshold, can change the payment by more than that.
* Stale saves of whole rows (`stale`).  Transfers, returns, invoices, batches, purchase orders
  and rejected or edited purchases are read without a lock.  A purchase edited over its
  confirmation is pending again, can be stocked twice, and is posted once.
* Expenses.  The review posts without `postOnce`, and the unique index has no "expense", so two
  reviews at a time post twice; an edit that read the expense before its review opens it again
  with its entry posted.
* WhatsApp.  Two confirmations at a time make two orders of one pending order, and a stop between
  the order's commit and the save leaves it pending, to be confirmed once more;
  nothing ties the order to it, for no idempotency key is passed.  `errors.ts` says that an order
  that was reviewed cannot be acted on again.  The bot's drafts are kept in order by a queue in the
  process, which is enough for one server.
* Receipts.  A draft receipt of an order that was sent can be confirmed after the order was
  cancelled.  The received quantity an approver overrides has no upper bound.  Writing off a
  batch leaves the balance as it is.  Two registrations with one supplier document both
  pass the duplicate check.
* Stocktake.  The variance is applied as a difference and the check is waived, so sales between the
  count and its approval make the counted balance wrong; an item that may not go negative can end up
  below zero.
* Shifts.  An entry that found the shift active lands after its closing and is in no expected
  cash of that shift (`late`); it may fall into the window of the next.  The day adds up the variances
  before it asks for shifts under review; one reviewed in between is missing (`under`).
* Drivers.  Two settlements of one driver can collect the same deliveries although
  `delivery-assignment.aggregate.ts` says none is counted twice, and a stale save of the status
  takes a delivery out of its settlement (`raced`).  A delivery that commits between
  a check-out's read and commit is in no round's bonus.
* Payroll.  An adjustment that is inserted between the look and the commit of an approval is
  skipped although `approve-payroll-run.handler.ts` says it must not be (`unseen`); one that is
  registered after the approval waits for the run to be cancelled.
* Till and printers.  An error page of a proxy makes the cashier start over with a new key,
  which may be a second order (`doubted`).  A refused sale stays at the head of the queue.  IndexedDB
  can abort a write that had succeeded (`aborted`).  A job that is PRINTING when its agent
  dies stays so: only FAILED jobs are retried.  A report of failure that is sent again can
  hit a later try.
* Points.  A cancellation that commits before the award of its order leaves the
  points of the order with the customer; the floor at zero forgives what was spent.

## 5. Proofs

Every invariant, action property and refinement that a passing run checks is proved for all values
of the constants.  Each proof follows the same plan: an invariant that says what a command in
flight has read or locked and why that is still true, one lemma for each kind of step, and PTL to
put them under `[]`.

`OrderLifecycleProofs` proves, for any sets of orders, workers, items, recipes and
keys and either accounting mode, from `OrderAssumption` alone:

* `TypeCorrect`: `Spec => []TypeOK`;
* `StockIsRestoredExactlyOnce`: `Spec => []StockRestoredExactlyOnce`;
* `CancelsOpenOrders`: `Spec => CancelledWhileOpen`;
* `OrdersImplementSaleEffects`: `Spec => ImplementsSaleEffects`, the refinement;
* `CancelledOrdersAreReversed`, `SalesAreJournaled`, `KeysAreHeld`: the other
  invariants of `orders_strict`;
* `CancelledGetsNoJournal`: `Spec => NothingPostedForCancelled`;
* `OnlyApprovedSalesGoBelowZero`: `Spec => OnlyApprovedSalesOverdraw`.

`StockRestoredExactlyOnce` is not inductive: a cancellation commits the outstanding
quantity it computed one step earlier.  `IInv` adds what makes that value still
right at the commit:

* `RowLockExclusive`: one cancellation or repair holds an order's row;
* `CancelSeesRow`: what a cancellation has read (open status, outstanding stock) is what
  the row and the movements still say;
* `CancelledGoesBack`: a row that shows "cancelled", and a save about to write that,
  go back to a cancellation that took effect;
* `NamesOrder`, `FreshIds`, `IdleNamesNone`, `UnplacedUntouched`: a command names an order that
  exists, a registration one that no other command names, and an order without a row
  has touched nothing.

One lemma per action shows that `IInv` is preserved, `NextInv` puts them together, and the
temporal theorems follow by PTL.  The refinement maps `RegisterCommit` to `Sell`, the first
`CancelCommit` of an order to `Undo`, and everything else to a stutter; a second cancellation
stutters because by
`StockRestoredExactlyOnce` and `CancelSeesRow` nothing is outstanding, a movement of another document
because it is in the balance and in `elsewhere`.

The other invariants need `BookInv` on top: one registration holds a key (`KeyLockExclusive`), the
order that a repair has locked is not cancelled (`RepairSeesOpen`), and in strict mode a registration
leaves no gap, so that nothing is ever repaired and a cancellation turns around every journal there
is, except those an accountant had reversed (`StrictJournals`).  `OnlyApprovedSalesOverdraw` needs
`IInv` only: the check under the balance's lock is part of the commit, and a cancellation never lowers a
balance because what is outstanding is never negative.

`PaymentControlProofs` proves, from `PaymentAssumption` alone, `TypesHold`
(`Spec => []TypeOK`), `OrderAlwaysNamesPaidMethod` (`Spec => []OrderNamesPaidMethod`) and
`DecisionsAreFinal` (`Spec => DecidedForGood`).  The order's method is only updated when the
approval believes to change it, so the invariant needs that the belief is right:
`ApprovalSeesRows` says that what an approval read is still in the payment and that its request
is still pending, `LocksExclusive` that one approval at a time holds each of the two rows, and
`NamesRows` that requests belong to placed orders.  `SoundMove` is the one lemma for every step that
only moves a command; each step that writes rows has its own.  `CorrectionsAddUp` rests on
`ApprovalsAddUp`: at every moment the amount of a payment is the sale's total and the differences of
its approvals, whether their corrections are posted or not; with no gap left those are the
corrections in force, because one is reversed only with its order (`ReversedWithOrder`).

`LoyaltyPointsProofs` proves `TypesHold`, `PointsAreSpentWithTheOrder` and
`CancelledOrdersAreRefunded` from an invariant that ties each worker's reservation to the
order it will place, and `RedemptionsAreCovered`: no step takes more points than the balance has.  Hence
`BalancesAddUp`: a row of the ledger and the balance move together, and the floor at zero never
cuts a redemption.

`SaleToPaperProofs` proves `SalesInvariant` and from it `SalesTypeCorrect`,
`SalesAreKept` and `EverySaleIsOneOrder`, for any number of carts, tabs, presses and
requests.  That a sale is kept needs to be said of every place it can be in: the till has the cart it is
working on (`TillHasCart`), what was reported a success is an order (`SuccessIsOrdered`), and what
was posted was pressed (`PressedOnce`), or ordered once (`OrderedOnce`).

It also proves `TypeCorrect` and `OneCopyPerTry`.  `CopiesBounded` is the
invariant: the copies of a job and the agents that still hold it are together at most its tries.
`SalesInside` and `PrintsInside` show that the composition implements each of its parts, so
that what is proved of the sales holds in it as well.

`AccountingPeriodsProofs` proves `ClosingsAreRight` and `ClosedMonthsRest`.  A closing commits an
amount that it added up one step earlier; `Looked` and `Counted` say what of
the ledger it has seen, `MonthsFirst` that the months of a closed year are closed.
`LedgerAddsUp` needs that an entry is posted once and reversed once although nothing is locked
between the look and the unique index: `RowsExclusive`, `PostsOnce`, `ReversesOnce` and `MirrorsThere`.
A closing of a year whose lines add up to nothing is in the module and in the proofs; the run `periods`
does not get there, since its amounts all have one sign.

`BackOfficeProofs` proves every property of the run `back_office`:
`CashIsCountedOnce`, `JournalFollowsRows`, `DeliveriesCountOnce`, `PayrollAppliesOnce`,
`ApprovalSkipsNothing`, `ClosedDayIsComplete`, besides `TypesHold`.  The invariant has a part for
each module and one for the journal, on top of `LocksApart` (no row is locked twice) and
`SincePast` (stamps lie in the past).  The heart of the cash is that the shifts of one cashier
have disjoint windows, and so have the rounds of one driver.  Frame lemmas (`Elsewhere`,
`ShiftsGoOn`, `DeliveredStays`) carry each part through the steps of the other modules.

`StockDocumentsProofs` proves every invariant of the run `documents` and `DocumentsTyped`, for any
documents, workers, branches and items, in layers:

| Part | What it says | Theorems it carries |
|---|---|---|
| `Form` | types, and of every command: it is of its document's kind, and what it has read satisfies the checks its handler made (`Sound`) | `DocumentsTyped` |
| `BalancesHeld` | the lines a command has moved are what it will record, a balance it holds is written as it was read, and no two commands hold the same one | `BalancesAreTheirMovements`, `TransfersMoveOnce` |
| `OneAtATime` | a receipt or a conversion has one command, which has read what the row still says | `ReceiptsAreStockedOnce`, `ConversionsTakeAndMakeOnce` |
| `CountsOnce`, `Submitted` | of what is read without a lock: whoever saves it over the row that was read has moved it once; who works on a pending order has found it submitted | `SharedDocumentsCountOnce` |
| `Settled` | paid, status and variance entry of an invoice go together | `InvoicesAreSettled` |
| `Filled` | a batch is there with its source, and nobody works on it before | `BatchesAreAccountedFor` |
| `LocksHeld`, `RoomFound` | no two commands lock the same row; a confirmation that moves its lines has its order locked, and there is still room for it | `OrdersAreNotOverreceived` |
| `Shown`, `Unsent` | the status of an order is that of its receipts; one that was not sent has none | `OrdersShowTheirReceipts` |

`WhatHappens` sorts the actions by what they do: a command begins, a line moves, a command
passes a line or takes a lock, it is rolled back, it commits, a document is filed at once, and the two
commits of a pending order.  `Elsewhere` and `RowElsewhere` say that a document changes with a
command that works on it.  Each layer then looks at the commits of its own documents
only.  `RoomFound` is the one that needs the receipts of other orders: the room that was found
stays, because whoever confirms another receipt of the order holds the order's lock, and
`ReceivedMore` and `ReceivedSame` say what a confirmation does to the sum.

`FiniteSums` has what four of these proofs need of `SumFunctionOnSet`: a term that is put in, taken
out or changed, and terms that are zero.  The library's induction theorems take an operator, which
the provers cannot instantiate; `SetInduction` says the same of a set of subsets and follows from
the well-foundedness of strict inclusion, which the library states without one.

Each of these rests on the named assumptions of its modules alone.  What those of the documents ask
for: a document is of one kind (`KindsAssumption`; the kinds are tables), a batch has a receipt or a
conversion as its source, the receipts are finitely many, quantities are not negative,
the lines of a document name each item once, and a purchase that is journaled has lines.

Model-checked only: the liveness properties `EveryCommandEnds` (of orders, payments and documents),
`RefundArrives`, `QueuedSaleArrives` and `TicketComesOut`, which speak of fairness and are out of the
prover's reach.

## 6. Not modelled

* Reports, authentication and branch scoping (guards without shared changing
  state), CRUD contexts, notifications, printing layout, the pages of the frontend other
  than the till: they keep no state that outlives them, or none that two requests share.
* WhatsApp's conversations and messages, and the bot's dialogue: text processing, and rows that
  nothing else reads.
* Savepoints: callbacks registered inside `isolated()` run although the savepoint was
  rolled back (`transaction-context.ts`).
* The registration of transfers, purchase orders, returns and invoices, which writes a new
  row nobody else knows; bank reconciliation; attendance and leave; treasury transfers.
