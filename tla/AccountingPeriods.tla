--------------------------- MODULE AccountingPeriods ---------------------------
(***************************************************************************)
(* The general journal against the closing of months and years.  An entry  *)
(* written by hand is a draft until it is posted; every other entry is     *)
(* posted as it is written.  Both ask twice whether the month is open, in  *)
(* the repository and in a trigger, and neither holds it open until the    *)
(* commit.  The closing of a year reads the income of its months and books *)
(* it into the first month of the year after.                              *)
(***************************************************************************)
EXTENDS Integers, FiniteSets, Functions

CONSTANTS Workers,       \* requests served at the same time
          Manual,        \* entries an accountant writes
          Automatic,     \* entries of sales, receipts, expenses, ...
          LastYear,      \* bound: years are 1..LastYear
          MonthsOfYear,  \* 12, or fewer
          Amounts,       \* bound: what an entry credits to the income accounts
          Dates,         \* bound: months an entry is dated in
          MaxReversals,  \* bound: an entry, its reversal, the reversal of that, ...
          NoEntry

Years == 1..LastYear

\* The first month after the last year is there for its closing entry.
Months == 1..(LastYear * MonthsOfYear + 1)

MonthsOf(y) == ((y - 1) * MonthsOfYear + 1)..(y * MonthsOfYear)

FirstMonth(y) == (y - 1) * MonthsOfYear + 1

ASSUME PeriodsAssumption ==
  /\ Manual \cap Automatic = {}
  /\ (Manual \cup Automatic) \cap Years = {}
  /\ IsFiniteSet(Manual \cup Automatic)
  /\ LastYear \in Nat \ {0}
  /\ MonthsOfYear \in Nat \ {0}
  /\ Amounts \subseteq Int
  /\ Dates \subseteq Months
  /\ MaxReversals \in Nat

\* The closing entry of a year goes by the year; <<s, n + 1>> reverses <<s, n>>.
Sources == Manual \cup Automatic \cup Years

Entries == Sources \X (0..MaxReversals)

ASSUME NoEntryAssumption == NoEntry \notin Entries

VARIABLES
  today,     \* the month of the business date
  period,    \* accounting_periods; a month without a row is open
  entry,     \* journal_entries
  ledger,    \* what the entries in the ledger credit to the income accounts, per month
  closed,    \* fiscal_year_closings
  late,      \* months that got an entry after they were closed (history)
  overtaken, \* requests whose month was closed after they had looked (history)
  cmd        \* the transaction of each worker

books == <<period, entry, ledger, closed, late>>

vars == <<today, books, overtaken, cmd>>

Entry(status, month, amount) == [status |-> status, month |-> month, amount |-> amount]

NoCommand == [op |-> "none", stage |-> "idle", entry |-> NoEntry, month |-> 1, amount |-> 0]

\* A transaction that reads first, checks the month, writes and commits.
Opened(op, stage, e, month, amount) ==
  [op |-> op, stage |-> stage, entry |-> e, month |-> month, amount |-> amount]

Mirror(e) == <<e[1], e[2] + 1>>

Idle(w) == cmd[w].stage = "idle"

\* FOR UPDATE, or the UPDATE of a row; a closing has a row of its own.
HoldsRow(v, e) ==
  cmd[v].entry = e /\ cmd[v].op \in {"post", "reverse"} /\ cmd[v].stage \in {"locked", "written"}

RowFree(w, e) == \A v \in Workers \ {w} : ~HoldsRow(v, e)

\* IN_LEDGER: a reversed entry stays in the ledger, next to its mirror.
Income(y) == SumFunction([m \in MonthsOf(y) |-> ledger[m]])

\* The entries of a source that are in the ledger of a year, n even: the entry and what
\* restores it, n odd: what takes it back.
InLedger(y, s, parity) ==
  {n \in 0..MaxReversals : /\ n % 2 = parity
                           /\ entry[<<s, n>>].status \in {"POSTED", "REVERSED"}
                           /\ entry[<<s, n>>].month \in MonthsOf(y)}

\* computeAccountBalance: an account has a line if something stands in it that was not
\* taken back in the same year.
HasLines(y) ==
  \E s \in Sources : Cardinality(InLedger(y, s, 0)) # Cardinality(InLedger(y, s, 1))

AllClosed(y) == \A m \in MonthsOf(y) : period[m] = "CLOSED"

-----------------------------------------------------------------------------
(* Requests.                                                                *)

\* POST /journal-entries: a draft, with whatever date, in a closed month too.
Draft(w, s) ==
  /\ Idle(w)
  /\ entry[<<s, 0>>].status = "none"
  /\ \E m \in Dates, a \in Amounts : entry' = [entry EXCEPT ![<<s, 0>>] = Entry("DRAFT", m, a)]
  /\ UNCHANGED <<today, period, ledger, closed, late, overtaken, cmd>>

\* POST /journal-entries/:id/post.
PostManual(w, s) ==
  LET e == <<s, 0>> IN
  /\ Idle(w) /\ RowFree(w, e)
  /\ entry[e].status = "DRAFT"
  /\ cmd' = [cmd EXCEPT ![w] = Opened("post", "locked", e, entry[e].month, entry[e].amount)]
  /\ UNCHANGED <<today, books, overtaken>>

\* A command that posts: with the date of today, or of the expense, or, when a
\* gap is repaired, of the transaction that lacks it.
PostAutomatic(w, s) ==
  LET e == <<s, 0>> IN
  /\ Idle(w)
  /\ entry[e].status = "none" /\ \A v \in Workers : cmd[v].entry # e
  /\ \E m \in Dates, a \in Amounts :
       /\ m <= today
       /\ cmd' = [cmd EXCEPT ![w] = Opened("post", "locked", e, m, a)]
  /\ UNCHANGED <<today, books, overtaken>>

\* POST /journal-entries/:id/reverse: locked, then looked at; dated today.
Reverse(w, e) ==
  /\ Idle(w) /\ RowFree(w, e)
  /\ e[2] < MaxReversals
  /\ entry[e].status = "POSTED"
  /\ cmd' = [cmd EXCEPT ![w] = Opened("reverse", "locked", e, today, -entry[e].amount)]
  /\ UNCHANGED <<today, books, overtaken>>

\* reverseBySource, for an order that is cancelled: looked at without a lock.
ReverseBySource(w, s) ==
  LET e == <<s, 0>> IN
  /\ Idle(w)
  /\ 0 < MaxReversals
  /\ entry[e].status = "POSTED"
  /\ cmd' = [cmd EXCEPT ![w] = Opened("reverse", "read", e, today, -entry[e].amount)]
  /\ UNCHANGED <<today, books, overtaken>>

\* POST /periods/:year/:month/close: a month ahead of today, too.
ClosePeriod(w, m) ==
  /\ Idle(w)
  /\ period[m] = "OPEN"
  /\ cmd' = [cmd EXCEPT ![w] = Opened("close", "written", NoEntry, m, 0)]
  /\ UNCHANGED <<today, books, overtaken>>

\* Mutant of CloseYear: the months are not looked at.
CloseYearEarly(w, y) ==
  /\ Idle(w)
  /\ ~closed[y]
  /\ cmd' = [cmd EXCEPT ![w] = Opened("close year", "counting", <<y, 0>>, FirstMonth(y + 1), 0)]
  /\ UNCHANGED <<today, books, overtaken>>

\* POST /fiscal-year-closings.
CloseYear(w, y) ==
  /\ Idle(w)
  /\ ~closed[y] /\ AllClosed(y)
  /\ cmd' = [cmd EXCEPT ![w] = Opened("close year", "counting", <<y, 0>>, FirstMonth(y + 1), 0)]
  /\ UNCHANGED <<today, books, overtaken>>

-----------------------------------------------------------------------------
(* Their steps.                                                             *)

Rollback(w) ==
  /\ cmd' = [cmd EXCEPT ![w] = NoCommand]
  /\ overtaken' = overtaken \ {w}
  /\ UNCHANGED <<today, books>>

\* incomeStatement; without a line there is nothing to close (NoActivityToCloseError).
\* The lines of a year may add up to nothing: two entries of opposite amounts leave a
\* line each in accounts of their own, and none in one account (accounts are left out).
Count(w) ==
  LET y == cmd[w].entry[1] IN
  /\ cmd[w].stage = "counting"
  /\ \/ Income(y) = 0 /\ Rollback(w)
     \/ /\ HasLines(y)
        /\ cmd' = [cmd EXCEPT ![w].stage = "locked", ![w].amount = -Income(y)]
        /\ UNCHANGED <<today, books, overtaken>>

\* Mutant of Single: uq_journal_entries_single_reversal is not there.
SingleOrNot(w) == TRUE

\* uq_journal_entries_single_reversal.
Single(w) == cmd[w].op = "reverse" => entry[Mirror(cmd[w].entry)].status = "none"

\* Mutant of Write: the month is not asked for once more.
WriteUnchecked(w) ==
  /\ cmd[w].stage \in {"read", "locked"}
  /\ cmd[w].op = "reverse" => RowFree(w, cmd[w].entry)
  /\ Single(w)
  /\ cmd' = [cmd EXCEPT ![w].stage = "written"]
  /\ UNCHANGED <<today, books, overtaken>>

\* The entry as a draft, and the UPDATE that makes it POSTED: assertPeriodOpen and
\* prevent_posting_to_closed_period read the month and leave it unlocked.
Write(w) ==
  /\ cmd[w].stage \in {"read", "locked"}
  /\ cmd[w].op = "reverse" => RowFree(w, cmd[w].entry)
  /\ Single(w)
  /\ period[cmd[w].month] = "OPEN"
  /\ cmd' = [cmd EXCEPT ![w].stage = "written"]
  /\ UNCHANGED <<today, books, overtaken>>

\* AccountingPeriodClosedError, or the unique index: with everything the request did.
Refuse(w) ==
  /\ cmd[w].stage \in {"read", "locked"}
  /\ cmd[w].op = "reverse" => RowFree(w, cmd[w].entry)
  /\ ~Single(w) \/ period[cmd[w].month] = "CLOSED"
  /\ Rollback(w)

\* A posting is in the ledger, in a month that may have been closed meanwhile.
Booked(w) ==
  /\ ledger' = [ledger EXCEPT ![cmd[w].month] = @ + cmd[w].amount]
  /\ late' = IF w \in overtaken THEN late \cup {cmd[w].month} ELSE late
  /\ overtaken' = overtaken \ {w}
  /\ cmd' = [cmd EXCEPT ![w] = NoCommand]
  /\ UNCHANGED <<today, period>>

Posted(w) == Entry("POSTED", cmd[w].month, cmd[w].amount)

CommitPost(w) ==
  /\ cmd[w].op = "post" /\ cmd[w].stage = "written"
  /\ entry' = [entry EXCEPT ![cmd[w].entry] = Posted(w)]
  /\ Booked(w)
  /\ UNCHANGED closed

\* markReversed and the mirror entry.
CommitReverse(w) ==
  LET e == cmd[w].entry IN
  /\ cmd[w].op = "reverse" /\ cmd[w].stage = "written"
  /\ entry' = [entry EXCEPT ![e].status = "REVERSED", ![Mirror(e)] = Posted(w)]
  /\ Booked(w)
  /\ UNCHANGED closed

\* fiscal_year_closings has a year once.
CommitYear(w) ==
  LET y == cmd[w].entry[1] IN
  /\ cmd[w].op = "close year" /\ cmd[w].stage = "written"
  /\ ~closed[y]
  /\ entry' = [entry EXCEPT ![<<y, 0>>] = Posted(w)]
  /\ closed' = [closed EXCEPT ![y] = TRUE]
  /\ Booked(w)

YearTaken(w) ==
  /\ cmd[w].op = "close year" /\ cmd[w].stage = "written"
  /\ closed[cmd[w].entry[1]]
  /\ Rollback(w)

\* The month is saved over whatever its row says by now.
CommitClose(w) ==
  LET m == cmd[w].month IN
  /\ cmd[w].op = "close"
  /\ period' = [period EXCEPT ![m] = "CLOSED"]
  /\ overtaken' = overtaken \cup
       {v \in Workers : cmd[v].op # "close" /\ cmd[v].stage = "written" /\ cmd[v].month = m}
  /\ cmd' = [cmd EXCEPT ![w] = NoCommand]
  /\ UNCHANGED <<today, entry, ledger, closed, late>>

\* The request fails, or the server stops.
Fail(w) == cmd[w].stage # "idle" /\ Rollback(w)

Tick ==
  /\ today < LastYear * MonthsOfYear + 1
  /\ today' = today + 1
  /\ UNCHANGED <<books, overtaken, cmd>>

-----------------------------------------------------------------------------

TypeOK ==
  /\ today \in Months
  /\ period \in [Months -> {"OPEN", "CLOSED"}]
  /\ entry \in [Entries -> [status : {"none", "DRAFT", "POSTED", "REVERSED"}, month : Months, amount : Int]]
  /\ ledger \in [Months -> Int]
  /\ closed \in [Years -> BOOLEAN]
  /\ late \subseteq Months
  /\ overtaken \subseteq Workers
  /\ cmd \in [Workers -> [op : {"none", "post", "reverse", "close", "close year"},
                          stage : {"idle", "read", "counting", "locked", "written"},
                          entry : Entries \cup {NoEntry}, month : Months, amount : Int]]

Init ==
  /\ today = 1
  /\ period = [m \in Months |-> "OPEN"]
  /\ entry = [e \in Entries |-> Entry("none", 1, 0)]
  /\ ledger = [m \in Months |-> 0]
  /\ closed = [y \in Years |-> FALSE]
  /\ late = {}
  /\ overtaken = {}
  /\ cmd = [w \in Workers |-> NoCommand]

Begin(w) ==
  \/ \E s \in Manual : Draft(w, s) \/ PostManual(w, s)
  \/ \E s \in Automatic : PostAutomatic(w, s) \/ ReverseBySource(w, s)
  \/ \E e \in Entries : Reverse(w, e)
  \/ \E m \in Months : ClosePeriod(w, m)
  \/ \E y \in Years : CloseYear(w, y)

Step(w) ==
  \/ Count(w) \/ Write(w) \/ Refuse(w)
  \/ CommitPost(w) \/ CommitReverse(w) \/ CommitYear(w) \/ YearTaken(w) \/ CommitClose(w)

Next == Tick \/ \E w \in Workers : Begin(w) \/ Step(w) \/ Fail(w)

Spec == Init /\ [][Next]_vars

-----------------------------------------------------------------------------
(* Properties.                                                              *)

\* close-period.handler.ts, as far as the two checks carry it: what a closed month has
\* in the ledger changes only by a request that had found the month open, and then not
\* by a second one of the same.
ClosedMonthRests ==
  [][\A m \in Months :
       period[m] = "CLOSED" /\ ledger'[m] # ledger[m] =>
         \E w \in overtaken : cmd[w].month = m /\ w \notin overtaken']_vars

InForce(e) == entry[e].status = "POSTED" /\ e[2] % 2 = 0

\* reverse-journal-entry, reverseBySource: an entry is in the ledger while it is in
\* force and cancels out once it is reversed, by hand, by the cancellation of its order
\* or by both at the same time; and a year is closed once.
LedgerIsWhatStands ==
  SumFunction(ledger) = SumFunction([e \in Entries |-> IF InForce(e) THEN entry[e].amount ELSE 0])

\* close-fiscal-year: the closing entry takes exactly the income of the year's months
\* out of the income accounts, whatever was posted, reversed or closed meanwhile;
\* unless a month of the year got an entry after it was closed.
ClosingIsIncomeOfYear ==
  \A y \in Years :
    closed[y] /\ MonthsOf(y) \cap late = {} => entry[<<y, 0>>].amount = -Income(y)

=============================================================================
