----------------------------- MODULE StockLedger -----------------------------
(***************************************************************************)
(* What the documents that move stock have in common: StockMovementRepo-   *)
(* sitory, which locks a balance, checks it and writes movement and        *)
(* balance, and the pattern of their commands.  A command is a transaction *)
(* that reads its document, under a row lock or without one, records its   *)
(* movements line by line, saves the document whole and commits.           *)
(***************************************************************************)
EXTENDS Integers, Sequences, FiniteSets, Functions

CONSTANTS Workers,     \* requests served at the same time
          Branches, Items,
          Documents,   \* transfers, stocktakes, receipts, ...
          NoDocument,
          Lines,       \* the items of a document, in the order of its lines
          At,          \* the branch of a document; of a transfer, where it starts
          Destination, \* the branch where a transfer ends
          Batches,     \* documents that are created with another one
          SourceOf,    \* ... of a batch: the receipt or conversion
          Journaled,   \* documents that have something to post to the journal
          Scenarios,   \* bound: documents that are worked on together
          Opening,     \* every balance at the start
          MaxQuantity  \* bound: largest quantity of a line

Keys == Branches \X Items

ASSUME LedgerAssumption ==
  /\ IsFiniteSet(Keys)
  /\ NoDocument \notin Documents
  /\ Lines \in [Documents -> Seq(Items)]
  /\ \A d \in Documents : \A m, n \in 1..Len(Lines[d]) : Lines[d][m] = Lines[d][n] => m = n
  /\ At \in [Documents -> Branches]
  /\ Destination \in [Documents -> Branches]
  /\ Batches \subseteq Documents
  /\ SourceOf \in [Batches -> Documents \ Batches]
  /\ Scenarios \subseteq SUBSET Documents
  /\ Opening \in Nat
  /\ MaxQuantity \in Nat

VARIABLES
  live,     \* the documents of this behaviour
  balance,  \* branch_stock_balances
  total,    \* sum of the stock_movements of each balance
  moved,    \* the same, of those that refer to one document
  row,      \* what the documents say
  stale,    \* documents that were saved, or confirmed, over a row that was not
            \* the one read (history)
  entries,  \* journal entries in force for a document
  consumed, \* what was taken out of a batch (history)
  cmd       \* the transaction of each worker

stock == <<balance, total, moved>>

papers == <<row, stale, entries, consumed>>

vars == <<live, stock, papers, cmd>>

Statuses ==
  {"none", "DRAFT", "SUBMITTED", "PENDING", "APPROVED", "REJECTED", "CANCELLED", "DISPATCHED",
   "RECEIVED", "IN_PROGRESS", "COMPLETED", "SENT", "PARTIALLY_RECEIVED", "CONFIRMED", "POSTED", "RECORDED",
   "active", "depleted", "expired", "MATCHED", "VARIANCE_PENDING", "PARTIALLY_PAID", "PAID"}

\* Of a transfer, the quantities sent and received; of a receipt, a return, a
\* purchase or a pending order, that of its lines; of an expense, its amount; of a
\* conversion, what it took and what it made; of a batch, what remains; of an
\* invoice, what is paid and whether it names a variance entry.
Row(status, qty, got) == [status |-> status, qty |-> qty, got |-> got]

Rows == [status : Statuses, qty : Int, got : Nat]

Zero == [k \in Keys |-> 0]

NoCommand ==
  [op |-> "none", stage |-> "idle", doc |-> NoDocument, seen |-> Row("none", 0, 0),
   qty |-> 0, items |-> <<>>, line |-> 1, waived |-> FALSE, wants |-> NoDocument,
   locked |-> {}, held |-> {}, wrote |-> Zero, moves |-> Zero,
   system |-> [i \in Items |-> 0]]

\* BEGIN, and the document as it is read; qty is what the line of each item
\* moves.
Opened(op, stage, d, qty, items, noCheck, wants, locked) ==
  [op |-> op, stage |-> stage, doc |-> d, seen |-> row[d],
   qty |-> qty, items |-> items, line |-> 1, waived |-> noCheck, wants |-> wants,
   locked |-> locked, held |-> {}, wrote |-> Zero, moves |-> Zero,
   system |-> [i \in Items |-> 0]]

ItemsOf(d) == Range(Lines[d])

-----------------------------------------------------------------------------

Counting(w) == cmd[w].stage = "counting"

Moving(w) == cmd[w].stage = "moving" /\ cmd[w].line <= Len(cmd[w].items)

Complete(w) == cmd[w].stage = "moving" /\ cmd[w].line > Len(cmd[w].items)

Item(w) == cmd[w].items[cmd[w].line]

Key(w) ==
  <<IF cmd[w].op = "receive" THEN Destination[cmd[w].doc] ELSE At[cmd[w].doc], Item(w)>>

\* A stocktake moves the difference; a line that moves nothing is left out.
Delta(w) == IF cmd[w].op = "count" THEN cmd[w].qty - cmd[w].system[Item(w)] ELSE cmd[w].qty

\* Mutant of WaitsFor: the balance is read without FOR UPDATE.
WaitsForRows(w, v) ==
  \/ cmd[w].stage = "locking" /\ cmd[w].wants \in cmd[v].locked
  \/ Complete(w) /\ cmd[w].doc \in cmd[v].locked

\* What w does next needs a row that v has locked.
WaitsFor(w, v) ==
  \/ Moving(w) /\ Delta(w) # 0 /\ Key(w) \in cmd[v].held
  \/ cmd[w].stage = "locking" /\ cmd[w].wants \in cmd[v].locked
  \/ Complete(w) /\ cmd[w].doc \in cmd[v].locked

Free(w) == \A v \in Workers \ {w} : ~WaitsFor(w, v)

Unlocked(d) == \A v \in Workers : d \notin cmd[v].locked

\* A document that was hit by a stale save is not followed any further (a bound).
Open(w, d) == cmd[w].stage = "idle" /\ d \in live /\ d \notin stale

\* The id of a new document is nobody else's.
New(d) == row[d].status = "none" /\ \A v \in Workers : cmd[v].doc # d

Rollback(w) ==
  /\ cmd' = [cmd EXCEPT ![w] = NoCommand]
  /\ UNCHANGED <<live, stock, papers>>

After(w) == balance[Key(w)] + Delta(w)

\* InsufficientStockError.
Enough(w) == After(w) >= 0 \/ cmd[w].waived

\* recordMovement: the balance is locked until the end of the transaction.
MoveLine(w) ==
  /\ Moving(w) /\ Delta(w) # 0
  /\ Free(w) /\ Enough(w)
  /\ cmd' = [cmd EXCEPT ![w].line = @ + 1,
                        ![w].held = @ \cup {Key(w)},
                        ![w].wrote[Key(w)] = After(w),
                        ![w].moves[Key(w)] = Delta(w)]
  /\ UNCHANGED <<live, stock, papers>>

SkipLine(w) ==
  /\ Moving(w) /\ Delta(w) = 0
  /\ cmd' = [cmd EXCEPT ![w].line = @ + 1]
  /\ UNCHANGED <<live, stock, papers>>

\* Mutant of Short: the command waits for goods to come in.
ShortWaits(w) == Moving(w) /\ Delta(w) # 0 /\ Free(w) /\ ~Enough(w) /\ UNCHANGED vars

Short(w) == Moving(w) /\ Delta(w) # 0 /\ Free(w) /\ ~Enough(w) /\ Rollback(w)

\* The request fails, or the server stops.
Fail(w) == cmd[w].stage \notin {"idle", "saving"} /\ Rollback(w)

\* External: PostgreSQL ends one of the transactions that wait for each other.
Deadlocked(w) ==
  \E W \in SUBSET Workers : w \in W /\ \A v \in W : \E u \in W \ {v} : WaitsFor(v, u)

Victim(w) == cmd[w].stage # "idle" /\ Deadlocked(w) /\ Rollback(w)

Recorded(w) ==
  /\ balance' = [k \in Keys |-> IF k \in cmd[w].held THEN cmd[w].wrote[k] ELSE balance[k]]
  /\ total' = [k \in Keys |-> total[k] + cmd[w].moves[k]]
  /\ moved' = [moved EXCEPT ![cmd[w].doc] = [k \in Keys |-> @[k] + cmd[w].moves[k]]]

\* COMMIT, as far as the stock goes.
Settle(w) ==
  /\ Recorded(w)
  /\ cmd' = [cmd EXCEPT ![w] = NoCommand]
  /\ UNCHANGED live

\* The document is saved whole, over whatever its row says by now.
Save(w, new) ==
  /\ row' = [row EXCEPT ![cmd[w].doc] = new]
  /\ stale' = IF row[cmd[w].doc] = cmd[w].seen THEN stale ELSE stale \cup {cmd[w].doc}

\* A batch of what w stores is written with the document.
Stored(w, d) == d \in Batches /\ SourceOf[d] = cmd[w].doc

NewBatch(w) == Row("active", cmd[w].qty, 0)

\* A decision about a document: read without a lock, checked, and saved later.
Revise(w, d, op, from) ==
  /\ Open(w, d)
  /\ row[d].status \in from
  /\ cmd' = [cmd EXCEPT ![w] = Opened(op, "moving", d, 0, <<>>, FALSE, NoDocument, {})]
  /\ UNCHANGED <<live, stock, papers>>

Posted(d, n) == entries' = [entries EXCEPT ![d] = @ + n]

OneIf(condition) == IF condition THEN 1 ELSE 0

Ready(w, op) == Complete(w) /\ Free(w) /\ cmd[w].op = op

Revised(w, op, status) ==
  /\ Ready(w, op)
  /\ Save(w, Row(status, cmd[w].seen.qty, cmd[w].seen.got))
  /\ Settle(w)
  /\ UNCHANGED <<entries, consumed>>

=============================================================================
