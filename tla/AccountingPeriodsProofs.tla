------------------------ MODULE AccountingPeriodsProofs ------------------------
(***************************************************************************)
(* Proofs about AccountingPeriods: a closed month rests but for requests   *)
(* that were overtaken, and a closing entry is the income of its year.     *)
(***************************************************************************)
EXTENDS AccountingPeriods, FiniteSums, TLAPS

Ops == {"none", "post", "reverse", "close", "close year"}

Stages == {"idle", "read", "counting", "locked", "written"}

WellFormed(c) ==
  /\ c = Opened(c.op, c.stage, c.entry, c.month, c.amount)
  /\ c.op \in Ops /\ c.stage \in Stages /\ c.month \in Months
  /\ c.op = "none" => c.stage = "idle"
  /\ c.op = "close" => c.stage = "written"
  /\ c.op = "post" => c.entry \in (Manual \cup Automatic) \X {0}
  /\ c.op = "reverse" => c.entry \in Entries /\ Mirror(c.entry) \in Entries
  /\ c.op = "close year" => c.entry \in Years \X {0} /\ c.stage # "read"

WellEntered(x) == x = Entry(x.status, x.month, x.amount) /\ x.month \in Months

\* The form of the variables; that amounts are numbers is part of the second invariant.
Shape ==
  /\ today \in Months
  /\ period \in [Months -> {"OPEN", "CLOSED"}]
  /\ entry = [e \in Entries |-> entry[e]]
  /\ \A e \in Entries : WellEntered(entry[e])
  /\ ledger = [m \in Months |-> ledger[m]]
  /\ closed \in [Years -> BOOLEAN]
  /\ late \subseteq Months
  /\ overtaken \subseteq Workers
  /\ cmd = [w \in Workers |-> cmd[w]]
  /\ \A w \in Workers : WellFormed(cmd[w])

\* Who has found a month open that is closed now was overtaken.
Looked ==
  \A w \in Workers :
    cmd[w].op # "close" /\ cmd[w].stage = "written" /\ period[cmd[w].month] = "CLOSED"
      => w \in overtaken

\* A year that is closed, or being closed, has its months closed.
MonthsFirst ==
  /\ \A y \in Years : closed[y] => AllClosed(y)
  /\ \A w \in Workers : cmd[w].op = "close year" => AllClosed(cmd[w].entry[1])

\* What was read of the ledger is still there when it is booked.
Counted ==
  \A w \in Workers :
    cmd[w].op = "close year" /\ cmd[w].stage \in {"locked", "written"}
      /\ MonthsOf(cmd[w].entry[1]) \cap late = {}
      => cmd[w].amount = -Income(cmd[w].entry[1])

IInv == Shape /\ Looked /\ MonthsFirst /\ Counted /\ ClosingIsIncomeOfYear

-----------------------------------------------------------------------------
(* The calendar.                                                            *)

\* The months of a year are months, and so is the one after them.
LEMMA Calendar ==
  ASSUME NEW y \in Years
  PROVE  /\ MonthsOf(y) \subseteq Months
         /\ FirstMonth(y + 1) \in Months
         /\ FirstMonth(y + 1) \notin MonthsOf(y)
<1> DEFINE M == MonthsOfYear
<1>1. /\ y \in Nat /\ 1 <= y /\ y <= LastYear
      /\ LastYear \in Nat /\ M \in Nat /\ M >= 1
  BY PeriodsAssumption DEF Years
<1>2. /\ y * M \in Nat /\ (y - 1) * M \in Nat /\ LastYear * M \in Nat
      /\ (y - 1) * M = y * M - M
      /\ y * M <= LastYear * M
      /\ y + 1 - 1 = y
  BY <1>1, SMTT(30)
<1>3. (y + 1 - 1) * M = y * M
  BY <1>2
<1> QED
  BY <1>1, <1>2, <1>3 DEF MonthsOf, FirstMonth, Months

\* An entry in another month leaves the income of a year alone.
LEMMA IncomeStays ==
  ASSUME NEW y \in Years, NEW m \in Months, m \notin MonthsOf(y), Shape,
         \A n \in Months : n # m => ledger'[n] = ledger[n]
  PROVE  Income(y)' = Income(y)
<1>1. MonthsOf(y) \subseteq Months
  BY Calendar
<1>2. \A n \in MonthsOf(y) : ledger'[n] = ledger[n]
  BY <1>1 DEF Shape
<1>3. [n \in MonthsOf(y) |-> ledger'[n]] = [n \in MonthsOf(y) |-> ledger[n]]
  BY <1>2
<1> QED
  BY <1>3 DEF Income

-----------------------------------------------------------------------------
(* Steps that change one command.                                           *)

\* A request that begins, goes on or is rolled back writes nothing.
LEMMA OneCommand ==
  ASSUME IInv, NEW w \in Workers, NEW c,
         cmd' = [cmd EXCEPT ![w] = c], WellFormed(c),
         UNCHANGED <<today, books>>,
         overtaken' = overtaken \/ overtaken' = overtaken \ {w},
         c.op # "close" /\ c.stage = "written" /\ period[c.month] = "CLOSED"
           => w \in overtaken',
         c.op = "close year" => AllClosed(c.entry[1]),
         c.op = "close year" /\ c.stage \in {"locked", "written"}
           /\ MonthsOf(c.entry[1]) \cap late = {} => c.amount = -Income(c.entry[1])
  PROVE  IInv'
<1>1. /\ cmd'[w] = c
      /\ \A v \in Workers \ {w} : cmd'[v] = cmd[v] /\ (v \in overtaken' <=> v \in overtaken)
      /\ cmd' = [v \in Workers |-> cmd'[v]]
  BY DEF IInv, Shape
<1>2. /\ UNCHANGED <<today, period, entry, ledger, closed, late>>
      /\ overtaken' \subseteq Workers
  BY DEF books, IInv, Shape
<1>3. Shape'
  <2>1. \A v \in Workers : WellFormed(cmd'[v])
    BY <1>1 DEF IInv, Shape
  <2> QED
    BY <1>1, <1>2, <2>1 DEF IInv, Shape
<1>4. Looked'
  BY <1>1, <1>2 DEF IInv, Looked
<1>5. /\ \A y : AllClosed(y)' = AllClosed(y)
      /\ \A y : Income(y)' = Income(y)
  BY <1>2 DEF AllClosed, Income
<1>6. MonthsFirst'
  BY <1>1, <1>2, <1>5 DEF IInv, MonthsFirst
<1>7. Counted'
  BY <1>1, <1>2, <1>5 DEF IInv, Counted
<1>8. ClosingIsIncomeOfYear'
  BY <1>2, <1>5 DEF IInv, ClosingIsIncomeOfYear
<1> QED
  BY <1>3, <1>4, <1>6, <1>7, <1>8 DEF IInv

-----------------------------------------------------------------------------
(* Steps that write.                                                        *)

\* No command is a command of the right form.
LEMMA Nothing ==
  WellFormed(NoCommand) /\ NoCommand.op = "none" /\ NoCommand.stage = "idle"
<1>1. 1 \in Months
  <2>1. LastYear * MonthsOfYear \in Nat
    BY PeriodsAssumption
  <2> QED
    BY <2>1 DEF Months
<1>2. /\ NoCommand.op = "none" /\ NoCommand.stage = "idle" /\ NoCommand.entry = NoEntry
      /\ NoCommand.month = 1 /\ NoCommand.amount = 0
  BY DEF NoCommand
<1> QED
  BY <1>1, <1>2 DEF WellFormed, NoCommand, Opened, Ops, Stages

\* A commit into the ledger: whatever it writes, the amount of a year that was
\* closed before stays, and a year that is closed by it is its own.
LEMMA BookedInv ==
  ASSUME IInv, NEW w \in Workers,
         cmd[w].stage = "written", cmd[w].op # "close", Booked(w),
         entry' = [e \in Entries |-> entry'[e]],
         \A e \in Entries : WellEntered(entry'[e]),
         closed' \in [Years -> BOOLEAN],
         \A y \in Years : closed[y] => closed'[y] /\ entry'[<<y, 0>>].amount = entry[<<y, 0>>].amount,
         \A y \in Years : closed'[y] /\ ~closed[y] =>
           cmd[w].op = "close year" /\ y = cmd[w].entry[1] /\ entry'[<<y, 0>>].amount = cmd[w].amount
  PROVE  IInv'
<1>1. PICK m \in Months : m = cmd[w].month
  BY DEF IInv, Shape, WellFormed
<1>2. /\ UNCHANGED <<today, period>>
      /\ cmd' = [cmd EXCEPT ![w] = NoCommand]
      /\ overtaken' = overtaken \ {w}
      /\ ledger' = [ledger EXCEPT ![m] = @ + cmd[w].amount]
      /\ late' = IF w \in overtaken THEN late \cup {m} ELSE late
  BY <1>1 DEF Booked
<1>3. /\ cmd'[w] = NoCommand
      /\ \A v \in Workers \ {w} : cmd'[v] = cmd[v] /\ (v \in overtaken' <=> v \in overtaken)
      /\ cmd' = [v \in Workers |-> cmd'[v]]
  BY <1>2 DEF IInv, Shape
<1>4. /\ ledger' = [n \in Months |-> ledger'[n]]
      /\ \A n \in Months : n # m => ledger'[n] = ledger[n]
  BY <1>2 DEF IInv, Shape
<1>5. Shape'
  <2>1. \A e \in Entries : WellEntered(entry[e])'
    OBVIOUS
  <2>2. \A v \in Workers : WellFormed(cmd'[v])
    BY <1>3, Nothing DEF IInv, Shape
  <2>3. late' \subseteq Months /\ overtaken' \subseteq Workers
    BY <1>2 DEF IInv, Shape
  <2>4. today' \in Months /\ period' \in [Months -> {"OPEN", "CLOSED"}]
    BY <1>2 DEF IInv, Shape
  <2> QED
    BY <1>3, <1>4, <2>1, <2>2, <2>3, <2>4 DEF Shape
<1>6. Looked'
  BY <1>2, <1>3, Nothing DEF IInv, Looked
<1>7. \A y : AllClosed(y)' = AllClosed(y)
  BY <1>2 DEF AllClosed
<1>8. MonthsFirst'
  BY <1>2, <1>3, <1>7, Nothing DEF IInv, MonthsFirst
<1>9. ASSUME NEW y \in Years, AllClosed(y), MonthsOf(y) \cap late' = {}
      PROVE  Income(y)' = Income(y) /\ MonthsOf(y) \cap late = {}
  <2>1. m \notin MonthsOf(y)
    <3>1. SUFFICES ASSUME m \in MonthsOf(y) PROVE FALSE
      OBVIOUS
    <3>2. w \in overtaken
      BY <1>1, <1>9, <3>1 DEF AllClosed, IInv, Looked
    <3> QED
      BY <1>2, <1>9, <3>1, <3>2
  <2>2. Income(y)' = Income(y)
    BY <1>4, <2>1, IncomeStays DEF IInv
  <2> QED
    BY <1>2, <1>9, <2>2
<1>10. \A v \in Workers : cmd[v].op = "close year" => cmd[v].entry[1] \in Years
  BY DEF IInv, Shape, WellFormed
<1>11. Counted'
  <2>1. SUFFICES ASSUME NEW v \in Workers,
                        cmd'[v].op = "close year", cmd'[v].stage \in {"locked", "written"},
                        MonthsOf(cmd'[v].entry[1]) \cap late' = {}
                 PROVE  (cmd[v].amount = -Income(cmd[v].entry[1]))'
    BY DEF Counted
  <2>2. v # w /\ cmd'[v] = cmd[v]
    BY <1>3, <2>1, Nothing
  <2>3. PICK y \in Years : y = cmd[v].entry[1]
    BY <1>10, <2>1, <2>2
  <2>4. AllClosed(y)
    BY <2>1, <2>2, <2>3 DEF IInv, MonthsFirst
  <2>5. Income(y)' = Income(y) /\ MonthsOf(y) \cap late = {}
    BY <1>9, <2>1, <2>2, <2>3, <2>4
  <2>6. cmd[v].amount = -Income(y)
    BY <2>1, <2>2, <2>3, <2>5 DEF IInv, Counted
  <2>7. cmd'[v].amount = -(Income(y)')
    BY <2>2, <2>5, <2>6
  <2>8. cmd'[v].entry[1] = y
    BY <2>2, <2>3
  <2> QED
    BY <2>7, <2>8 DEF Income
<1>12. ClosingIsIncomeOfYear'
  <2>1. SUFFICES ASSUME NEW y \in Years, closed'[y], MonthsOf(y) \cap late' = {}
                 PROVE  entry'[<<y, 0>>].amount = -Income(y)'
    BY DEF ClosingIsIncomeOfYear
  <2>2. CASE closed[y]
    <3>1. AllClosed(y)
      BY <2>2 DEF IInv, MonthsFirst
    <3>2. Income(y)' = Income(y) /\ MonthsOf(y) \cap late = {}
      BY <1>9, <2>1, <3>1
    <3>3. entry[<<y, 0>>].amount = -Income(y)
      BY <2>2, <3>2 DEF IInv, ClosingIsIncomeOfYear
    <3> QED
      BY <2>2, <3>2, <3>3
  <2>3. CASE ~closed[y]
    <3>1. /\ cmd[w].op = "close year" /\ y = cmd[w].entry[1]
          /\ entry'[<<y, 0>>].amount = cmd[w].amount
      BY <2>1, <2>3
    <3>2. AllClosed(y)
      BY <3>1 DEF IInv, MonthsFirst
    <3>3. Income(y)' = Income(y) /\ MonthsOf(y) \cap late = {}
      BY <1>9, <2>1, <3>2
    <3>4. cmd[w].amount = -Income(y)
      BY <3>1, <3>3 DEF IInv, Counted
    <3> QED
      BY <3>1, <3>3, <3>4
  <2> QED
    BY <2>2, <2>3
<1> QED
  BY <1>5, <1>6, <1>8, <1>11, <1>12 DEF IInv

\* The closing of a month overtakes whoever is about to commit into it.
LEMMA CloseInv ==
  ASSUME IInv, NEW w \in Workers, CommitClose(w)
  PROVE  IInv'
<1>1. PICK m \in Months : m = cmd[w].month
  BY DEF IInv, Shape, WellFormed
<1>2. /\ UNCHANGED <<today, entry, ledger, closed, late>>
      /\ cmd[w].op = "close"
      /\ cmd' = [cmd EXCEPT ![w] = NoCommand]
      /\ period' = [period EXCEPT ![m] = "CLOSED"]
      /\ overtaken' = overtaken \cup
           {v \in Workers : cmd[v].op # "close" /\ cmd[v].stage = "written" /\ cmd[v].month = m}
  BY <1>1 DEF CommitClose
<1>3. /\ cmd'[w] = NoCommand
      /\ \A v \in Workers \ {w} : cmd'[v] = cmd[v]
      /\ cmd' = [v \in Workers |-> cmd'[v]]
  BY <1>2 DEF IInv, Shape
<1>4. \A v \in Workers : WellFormed(cmd'[v])
  BY <1>3, Nothing DEF IInv, Shape
<1>5. /\ period' \in [Months -> {"OPEN", "CLOSED"}]
      /\ \A n \in Months : period[n] = "CLOSED" => period'[n] = "CLOSED"
      /\ \A n \in Months : n # m => period'[n] = period[n]
  BY <1>2 DEF IInv, Shape
<1>6. Shape'
  BY <1>2, <1>3, <1>4, <1>5 DEF IInv, Shape
<1>7. \A v \in Workers : cmd[v].month \in Months
  BY DEF IInv, Shape, WellFormed
<1>8. Looked'
  <2>1. SUFFICES ASSUME NEW v \in Workers, cmd'[v].op # "close", cmd'[v].stage = "written",
                        period'[cmd'[v].month] = "CLOSED"
                 PROVE  v \in overtaken'
    BY DEF Looked
  <2>2. v # w /\ cmd'[v] = cmd[v]
    BY <1>3, <2>1, Nothing
  <2> QED
    BY <1>2, <1>5, <1>7, <2>1, <2>2 DEF IInv, Looked
<1>9. \A y \in Years : AllClosed(y) => AllClosed(y)'
  BY <1>5, Calendar DEF AllClosed
<1>10. \A y : Income(y)' = Income(y)
  BY <1>2 DEF Income
<1>11. \A v \in Workers : cmd[v].op = "close year" => cmd[v].entry[1] \in Years
  BY DEF IInv, Shape, WellFormed
<1>12. MonthsFirst'
  BY <1>2, <1>3, <1>9, <1>11, Nothing DEF IInv, MonthsFirst
<1>13. Counted'
  BY <1>2, <1>3, <1>10, Nothing DEF IInv, Counted
<1>14. ClosingIsIncomeOfYear'
  BY <1>2, <1>10 DEF IInv, ClosingIsIncomeOfYear
<1> QED
  BY <1>6, <1>8, <1>12, <1>13, <1>14 DEF IInv

\* A draft is not in the ledger, and no year's closing is a draft.
LEMMA DraftInv ==
  ASSUME IInv, NEW w \in Workers, NEW s \in Manual, Draft(w, s)
  PROVE  IInv'
<1>1. /\ UNCHANGED <<today, period, ledger, closed, late, overtaken, cmd>>
      /\ \E m \in Dates, a \in Amounts : entry' = [entry EXCEPT ![<<s, 0>>] = Entry("DRAFT", m, a)]
  BY DEF Draft
<1>2. PICK m \in Dates, a \in Amounts : entry' = [entry EXCEPT ![<<s, 0>>] = Entry("DRAFT", m, a)]
  BY <1>1
<1>3. WellEntered(Entry("DRAFT", m, a))
  BY PeriodsAssumption DEF WellEntered, Entry
<1>4. /\ entry' = [e \in Entries |-> entry'[e]]
      /\ \A e \in Entries : WellEntered(entry'[e])
  BY <1>2, <1>3 DEF IInv, Shape
<1>5. \A y \in Years : <<y, 0>> \in Entries /\ <<y, 0>> # <<s, 0>>
  BY PeriodsAssumption DEF Entries, Sources
<1>6. \A y \in Years : entry'[<<y, 0>>] = entry[<<y, 0>>]
  BY <1>2, <1>5 DEF IInv, Shape
<1>7. /\ \A y : AllClosed(y)' = AllClosed(y)
      /\ \A y : Income(y)' = Income(y)
  BY <1>1 DEF AllClosed, Income
<1>8. Shape'
  BY <1>1, <1>4 DEF IInv, Shape
<1>9. Looked' /\ MonthsFirst' /\ Counted'
  BY <1>1, <1>7 DEF IInv, Looked, MonthsFirst, Counted
<1>10. ClosingIsIncomeOfYear'
  BY <1>1, <1>6, <1>7 DEF IInv, ClosingIsIncomeOfYear
<1> QED
  BY <1>8, <1>9, <1>10 DEF IInv

\* What is rolled back was never seen.
LEMMA RollbackInv ==
  ASSUME IInv, NEW w \in Workers, Rollback(w)
  PROVE  IInv'
<1>1. /\ cmd' = [cmd EXCEPT ![w] = NoCommand]
      /\ overtaken' = overtaken \ {w}
      /\ UNCHANGED <<today, books>>
  BY DEF Rollback
<1> QED
  BY <1>1, Nothing, OneCommand

-----------------------------------------------------------------------------
(* The steps of the commits.                                                *)

\* A posting is an entry of its own source, never a year's closing.
LEMMA CommitPostInv ==
  ASSUME IInv, NEW w \in Workers, CommitPost(w)
  PROVE  IInv'
<1>1. /\ cmd[w].op = "post" /\ cmd[w].stage = "written" /\ Booked(w) /\ closed' = closed
      /\ entry' = [entry EXCEPT ![cmd[w].entry] = Posted(w)]
  BY DEF CommitPost
<1>2. /\ cmd[w].entry \in (Manual \cup Automatic) \X {0}
      /\ cmd[w].month \in Months
  BY <1>1 DEF IInv, Shape, WellFormed
<1>3. WellEntered(Posted(w))
  BY <1>2 DEF WellEntered, Posted, Entry
<1>4. /\ entry' = [e \in Entries |-> entry'[e]]
      /\ \A e \in Entries : WellEntered(entry'[e])
  BY <1>1, <1>3 DEF IInv, Shape
<1>5. \A y \in Years : <<y, 0>> \in Entries /\ <<y, 0>> # cmd[w].entry
  BY <1>2, PeriodsAssumption DEF Entries, Sources
<1>6. \A y \in Years : entry'[<<y, 0>>] = entry[<<y, 0>>]
  BY <1>1, <1>5 DEF IInv, Shape
<1>7. closed' \in [Years -> BOOLEAN]
  BY <1>1 DEF IInv, Shape
<1> QED
  BY <1>1, <1>4, <1>6, <1>7, BookedInv

\* A reversal marks its entry and writes the mirror, and keeps every amount.
LEMMA CommitReverseInv ==
  ASSUME IInv, NEW w \in Workers, CommitReverse(w)
  PROVE  IInv'
<1>1. PICK e : e = cmd[w].entry
  OBVIOUS
<1>2. /\ cmd[w].op = "reverse" /\ cmd[w].stage = "written" /\ Booked(w) /\ closed' = closed
      /\ entry' = [entry EXCEPT ![e].status = "REVERSED", ![Mirror(e)] = Posted(w)]
  BY <1>1 DEF CommitReverse
<1>3. e \in Entries /\ Mirror(e) \in Entries /\ cmd[w].month \in Months
  BY <1>1, <1>2 DEF IInv, Shape, WellFormed
<1>4. PICK n \in 0..MaxReversals : Mirror(e)[2] = n + 1
  BY <1>3 DEF Mirror, Entries
<1>5. WellEntered(Posted(w))
  BY <1>3 DEF WellEntered, Posted, Entry
<1>6. WellEntered(entry[e]) /\ entry[e] = Entry(entry[e].status, entry[e].month, entry[e].amount)
  BY <1>3 DEF IInv, Shape, WellEntered
<1>7. /\ [entry[e] EXCEPT !.status = "REVERSED"] = Entry("REVERSED", entry[e].month, entry[e].amount)
      /\ WellEntered([entry[e] EXCEPT !.status = "REVERSED"])
  BY <1>6 DEF WellEntered, Entry
<1>8. \A f \in Entries :
        entry'[f] = IF f = Mirror(e) THEN Posted(w)
                    ELSE IF f = e THEN [entry[e] EXCEPT !.status = "REVERSED"] ELSE entry[f]
  BY <1>2, <1>3 DEF IInv, Shape
<1>9. /\ entry' = [f \in Entries |-> entry'[f]]
      /\ \A f \in Entries : WellEntered(entry'[f])
  <2>1. entry' = [f \in Entries |-> entry'[f]]
    BY <1>2, <1>3 DEF IInv, Shape
  <2> QED
    BY <1>5, <1>7, <1>8, <2>1 DEF IInv, Shape
<1>10. \A y \in Years : <<y, 0>> \in Entries /\ <<y, 0>> # Mirror(e)
  BY <1>4, PeriodsAssumption DEF Entries, Sources
<1>11. \A y \in Years : entry'[<<y, 0>>].amount = entry[<<y, 0>>].amount
  BY <1>7, <1>8, <1>10 DEF Entry
<1>12. closed' \in [Years -> BOOLEAN]
  BY <1>2 DEF IInv, Shape
<1> QED
  BY <1>2, <1>9, <1>11, <1>12, BookedInv

\* The closing of a year books what was counted for it.
LEMMA CommitYearInv ==
  ASSUME IInv, NEW w \in Workers, CommitYear(w)
  PROVE  IInv'
<1>1. PICK y : y = cmd[w].entry[1]
  OBVIOUS
<1>2. /\ cmd[w].op = "close year" /\ cmd[w].stage = "written" /\ Booked(w) /\ ~closed[y]
      /\ entry' = [entry EXCEPT ![<<y, 0>>] = Posted(w)]
      /\ closed' = [closed EXCEPT ![y] = TRUE]
  BY <1>1 DEF CommitYear
<1>3. y \in Years /\ <<y, 0>> \in Entries /\ cmd[w].month \in Months
  <2>1. cmd[w].entry \in Years \X {0} /\ cmd[w].month \in Months
    BY <1>2 DEF IInv, Shape, WellFormed
  <2>2. y \in Years
    BY <1>1, <2>1
  <2> QED
    BY <2>1, <2>2, PeriodsAssumption DEF Entries, Sources
<1>4. WellEntered(Posted(w)) /\ Posted(w).amount = cmd[w].amount
  BY <1>3 DEF WellEntered, Posted, Entry
<1>5. /\ entry' = [e \in Entries |-> entry'[e]]
      /\ \A e \in Entries : WellEntered(entry'[e])
  BY <1>2, <1>4 DEF IInv, Shape
<1>6. /\ entry'[<<y, 0>>].amount = cmd[w].amount
      /\ \A z \in Years : z # y => entry'[<<z, 0>>] = entry[<<z, 0>>]
  <2>1. \A z \in Years : <<z, 0>> \in Entries /\ (z # y => <<z, 0>> # <<y, 0>>)
    BY PeriodsAssumption DEF Entries, Sources
  <2> QED
    BY <1>2, <1>3, <1>4, <2>1 DEF IInv, Shape
<1>7. /\ closed' \in [Years -> BOOLEAN]
      /\ \A z \in Years : closed'[z] <=> (closed[z] \/ z = y)
  BY <1>2, <1>3 DEF IInv, Shape
<1> QED
  BY <1>1, <1>2, <1>5, <1>6, <1>7, BookedInv

-----------------------------------------------------------------------------
(* The steps that only go on.                                               *)

\* A request that begins does nothing but read.
LEMMA BeginInv ==
  ASSUME IInv, NEW w \in Workers, Begin(w)
  PROVE  IInv'
<1>1. ASSUME NEW s \in Manual, Draft(w, s) PROVE IInv'
  BY <1>1, DraftInv
<1>2. ASSUME NEW op \in {"post", "reverse", "close", "close year"}, NEW stage, NEW e, NEW m \in Months, NEW a,
             cmd' = [cmd EXCEPT ![w] = Opened(op, stage, e, m, a)],
             UNCHANGED <<today, books, overtaken>>,
             op = "post" => stage = "locked" /\ e \in (Manual \cup Automatic) \X {0},
             op = "reverse" => stage \in {"read", "locked"} /\ e \in Entries /\ Mirror(e) \in Entries,
             op = "close" => stage = "written",
             op = "close year" => stage = "counting" /\ e \in Years \X {0} /\ AllClosed(e[1])
      PROVE  IInv'
  <2>1. PICK c : c = Opened(op, stage, e, m, a)
    OBVIOUS
  <2>2. /\ c.op = op /\ c.stage = stage /\ c.entry = e /\ c.month = m /\ c.amount = a
    BY <2>1 DEF Opened
  <2>3. WellFormed(c)
    BY <1>2, <2>1, <2>2 DEF WellFormed, Ops, Stages
  <2>4. cmd' = [cmd EXCEPT ![w] = c] /\ overtaken' = overtaken /\ UNCHANGED <<today, books>>
    BY <1>2, <2>1
  <2> QED
    BY <1>2, <2>2, <2>3, <2>4, OneCommand
<1>3. ASSUME NEW s \in Manual, PostManual(w, s) PROVE IInv'
  <2>1. <<s, 0>> \in Entries /\ <<s, 0>> \in (Manual \cup Automatic) \X {0}
    BY PeriodsAssumption DEF Entries, Sources
  <2>2. entry[<<s, 0>>].month \in Months
    BY <2>1 DEF IInv, Shape, WellEntered
  <2> QED
    BY <1>2, <1>3, <2>1, <2>2 DEF PostManual
<1>4. ASSUME NEW s \in Automatic, PostAutomatic(w, s) PROVE IInv'
  <2>1. <<s, 0>> \in (Manual \cup Automatic) \X {0}
    OBVIOUS
  <2>2. PICK m \in Dates, a \in Amounts :
          cmd' = [cmd EXCEPT ![w] = Opened("post", "locked", <<s, 0>>, m, a)]
    BY <1>4 DEF PostAutomatic
  <2>3. m \in Months
    BY PeriodsAssumption
  <2> QED
    BY <1>2, <1>4, <2>1, <2>2, <2>3 DEF PostAutomatic
<1>5. ASSUME NEW s \in Automatic, ReverseBySource(w, s) PROVE IInv'
  <2>1. <<s, 0>> \in Entries /\ Mirror(<<s, 0>>) \in Entries
    BY <1>5, PeriodsAssumption DEF ReverseBySource, Entries, Sources, Mirror
  <2> QED
    BY <1>2, <1>5, <2>1 DEF ReverseBySource, IInv, Shape
<1>6. ASSUME NEW e \in Entries, Reverse(w, e) PROVE IInv'
  <2>1. Mirror(e) \in Entries
    BY <1>6, PeriodsAssumption DEF Reverse, Entries, Sources, Mirror
  <2> QED
    BY <1>2, <1>6, <2>1 DEF Reverse, IInv, Shape
<1>7. ASSUME NEW m \in Months, ClosePeriod(w, m) PROVE IInv'
  BY <1>2, <1>7 DEF ClosePeriod
<1>8. ASSUME NEW y \in Years, CloseYear(w, y) PROVE IInv'
  <2>1. FirstMonth(y + 1) \in Months /\ <<y, 0>> \in Years \X {0} /\ <<y, 0>>[1] = y
    BY Calendar
  <2> QED
    BY <1>2, <1>8, <2>1 DEF CloseYear
<1> QED
  BY <1>1, <1>3, <1>4, <1>5, <1>6, <1>7, <1>8 DEF Begin

\* The income is counted while the months of the year are closed.
LEMMA CountInv ==
  ASSUME IInv, NEW w \in Workers, Count(w)
  PROVE  IInv'
<1>1. CASE Rollback(w)
  BY <1>1, RollbackInv
<1>2. CASE ~Rollback(w)
  <2>1. PICK c : c = [cmd[w] EXCEPT !.stage = "locked", !.amount = -Income(cmd[w].entry[1])]
    OBVIOUS
  <2>2. /\ UNCHANGED <<today, books, overtaken>> /\ cmd[w].stage = "counting"
        /\ cmd' = [cmd EXCEPT ![w].stage = "locked", ![w].amount = -Income(cmd[w].entry[1])]
    BY <1>2 DEF Count
  <2>3. cmd' = [cmd EXCEPT ![w] = c]
    BY <2>1, <2>2 DEF IInv, Shape
  <2>4. /\ c.op = cmd[w].op /\ c.stage = "locked" /\ c.entry = cmd[w].entry /\ c.month = cmd[w].month
        /\ c.amount = -Income(cmd[w].entry[1])
        /\ c = Opened(c.op, c.stage, c.entry, c.month, c.amount)
    <3>1. cmd[w] = Opened(cmd[w].op, cmd[w].stage, cmd[w].entry, cmd[w].month, cmd[w].amount)
      BY DEF IInv, Shape, WellFormed
    <3>2. c = Opened(cmd[w].op, "locked", cmd[w].entry, cmd[w].month, -Income(cmd[w].entry[1]))
      BY <2>1, <3>1 DEF Opened
    <3> QED
      BY <3>2 DEF Opened
  <2>5. WellFormed(c)
    BY <2>2, <2>4 DEF IInv, Shape, WellFormed, Stages
  <2>6. c.op = "close year" => AllClosed(c.entry[1])
    BY <2>4 DEF IInv, MonthsFirst
  <2> QED
    BY <2>2, <2>3, <2>4, <2>5, <2>6, OneCommand
<1> QED
  BY <1>1, <1>2

\* Whoever writes has just found the month open.
LEMMA WriteInv ==
  ASSUME IInv, NEW w \in Workers, Write(w)
  PROVE  IInv'
<1>1. PICK c : c = [cmd[w] EXCEPT !.stage = "written"]
  OBVIOUS
<1>2. /\ UNCHANGED <<today, books, overtaken>> /\ cmd[w].stage \in {"read", "locked"}
      /\ cmd' = [cmd EXCEPT ![w].stage = "written"] /\ period[cmd[w].month] = "OPEN"
  BY DEF Write
<1>3. cmd' = [cmd EXCEPT ![w] = c]
  BY <1>1, <1>2 DEF IInv, Shape
<1>4. /\ c.op = cmd[w].op /\ c.stage = "written" /\ c.entry = cmd[w].entry /\ c.month = cmd[w].month
      /\ c.amount = cmd[w].amount
      /\ c = Opened(c.op, c.stage, c.entry, c.month, c.amount)
  <2>1. cmd[w] = Opened(cmd[w].op, cmd[w].stage, cmd[w].entry, cmd[w].month, cmd[w].amount)
    BY DEF IInv, Shape, WellFormed
  <2>2. c = Opened(cmd[w].op, "written", cmd[w].entry, cmd[w].month, cmd[w].amount)
    BY <1>1, <2>1 DEF Opened
  <2> QED
    BY <2>2 DEF Opened
<1>5. WellFormed(c)
  BY <1>2, <1>4 DEF IInv, Shape, WellFormed, Stages
<1>6. c.op = "close year" => AllClosed(c.entry[1])
  BY <1>4 DEF IInv, MonthsFirst
<1>7. c.op = "close year" /\ MonthsOf(c.entry[1]) \cap late = {} => c.amount = -Income(c.entry[1])
  <2>1. cmd[w].op = "close year" => cmd[w].stage # "read"
    BY DEF IInv, Shape, WellFormed
  <2> QED
    BY <1>2, <1>4, <2>1 DEF IInv, Counted
<1> QED
  BY <1>2, <1>3, <1>4, <1>5, <1>6, <1>7, OneCommand

-----------------------------------------------------------------------------
(* The specification.                                                       *)

\* At first nothing is closed and nobody is under way.
LEMMA InitInv == Init => IInv
<1> SUFFICES ASSUME Init PROVE IInv
  OBVIOUS
<1>1. 1 \in Months
  BY Nothing DEF WellFormed, NoCommand
<1>2. /\ today = 1
      /\ period = [m \in Months |-> "OPEN"]
      /\ entry = [e \in Entries |-> Entry("none", 1, 0)]
      /\ ledger = [m \in Months |-> 0]
      /\ closed = [y \in Years |-> FALSE]
      /\ late = {} /\ overtaken = {}
      /\ cmd = [w \in Workers |-> NoCommand]
  BY DEF Init
<1>3. \A e \in Entries : WellEntered(entry[e])
  BY <1>1, <1>2 DEF WellEntered, Entry
<1>4. Shape
  BY <1>1, <1>2, <1>3, Nothing DEF Shape
<1>5. Looked /\ MonthsFirst /\ Counted /\ ClosingIsIncomeOfYear
  BY <1>2, Nothing DEF Looked, MonthsFirst, Counted, ClosingIsIncomeOfYear
<1> QED
  BY <1>4, <1>5 DEF IInv

\* Another day changes nothing that was written.
LEMMA TickInv ==
  ASSUME IInv, Tick
  PROVE  IInv'
<1>1. today' \in Months
  <2>1. LastYear * MonthsOfYear \in Nat
    BY PeriodsAssumption
  <2> QED
    BY <2>1 DEF Tick, IInv, Shape, Months
<1>2. UNCHANGED <<period, entry, ledger, closed, late, overtaken, cmd>>
  BY DEF Tick, books
<1>3. /\ \A y : AllClosed(y)' = AllClosed(y)
      /\ \A y : Income(y)' = Income(y)
  BY <1>2 DEF AllClosed, Income
<1>4. Shape'
  BY <1>1, <1>2 DEF IInv, Shape
<1> QED
  BY <1>2, <1>3, <1>4 DEF IInv, Looked, MonthsFirst, Counted, ClosingIsIncomeOfYear

\* Every step keeps the invariant.
LEMMA NextInv == IInv /\ [Next]_vars => IInv'
<1> SUFFICES ASSUME IInv, [Next]_vars PROVE IInv'
  OBVIOUS
<1>1. CASE Tick
  BY <1>1, TickInv
<1>2. ASSUME NEW w \in Workers, Begin(w) PROVE IInv'
  BY <1>2, BeginInv
<1>3. ASSUME NEW w \in Workers, Step(w) PROVE IInv'
  <2>1. CASE Count(w)
    BY <2>1, CountInv
  <2>2. CASE Write(w)
    BY <2>2, WriteInv
  <2>3. CASE Refuse(w)
    BY <2>3, RollbackInv DEF Refuse
  <2>4. CASE CommitPost(w)
    BY <2>4, CommitPostInv
  <2>5. CASE CommitReverse(w)
    BY <2>5, CommitReverseInv
  <2>6. CASE CommitYear(w)
    BY <2>6, CommitYearInv
  <2>7. CASE YearTaken(w)
    BY <2>7, RollbackInv DEF YearTaken
  <2>8. CASE CommitClose(w)
    BY <2>8, CloseInv
  <2> QED
    BY <1>3, <2>1, <2>2, <2>3, <2>4, <2>5, <2>6, <2>7, <2>8 DEF Step
<1>4. ASSUME NEW w \in Workers, Fail(w) PROVE IInv'
  BY <1>4, RollbackInv DEF Fail
<1>5. CASE UNCHANGED vars
  <2>1. UNCHANGED <<today, period, entry, ledger, closed, late, overtaken, cmd>>
    BY <1>5 DEF vars, books
  <2>2. /\ \A y : AllClosed(y)' = AllClosed(y)
        /\ \A y : Income(y)' = Income(y)
    BY <2>1 DEF AllClosed, Income
  <2>3. Shape'
    BY <2>1 DEF IInv, Shape
  <2> QED
    BY <2>1, <2>2, <2>3 DEF IInv, Looked, MonthsFirst, Counted, ClosingIsIncomeOfYear
<1> QED
  BY <1>1, <1>2, <1>3, <1>4, <1>5 DEF Next

\* The invariant holds in every reachable state: what the request of a posting, a
\* reversal or a closing has read of months and ledger still carries it at its commit.
THEOREM PeriodsInvariant == Spec => []IInv
<1> QED
  BY InitInv, NextInv, PTL DEF Spec

\* The closing entry of a year takes exactly the year's income, for every number of
\* workers, entries, months and years; unless a month got an entry after its closing.
THEOREM ClosingsAreRight == Spec => []ClosingIsIncomeOfYear
<1>1. IInv => ClosingIsIncomeOfYear
  BY DEF IInv
<1> QED
  BY <1>1, PeriodsInvariant, PTL

\* One step into the ledger of a closed month.
LEMMA RestStep ==
  ASSUME IInv, Next, NEW m \in Months, period[m] = "CLOSED", ledger'[m] # ledger[m]
  PROVE  \E w \in overtaken : cmd[w].month = m /\ w \notin overtaken'
<1>1. PICK w \in Workers : CommitPost(w) \/ CommitReverse(w) \/ CommitYear(w)
  BY DEF Next, Tick, Begin, Step, Draft, PostManual, PostAutomatic, ReverseBySource, Reverse,
         ClosePeriod, CloseYear, Count, Write, Refuse, YearTaken, CommitClose, Fail, Rollback, books
<1>2. Booked(w) /\ cmd[w].stage = "written" /\ cmd[w].op # "close"
  BY <1>1 DEF CommitPost, CommitReverse, CommitYear
<1>3. /\ ledger' = [ledger EXCEPT ![cmd[w].month] = @ + cmd[w].amount]
      /\ overtaken' = overtaken \ {w}
  BY <1>2 DEF Booked
<1>4. cmd[w].month = m
  BY <1>3 DEF IInv, Shape
<1>5. w \in overtaken
  BY <1>2, <1>4 DEF IInv, Looked
<1> QED
  BY <1>3, <1>4, <1>5

\* What a closed month has in the ledger is changed only by a request that the closing
\* overtook between its look at the month and its commit, and by each such one once.
THEOREM ClosedMonthsRest == Spec => ClosedMonthRests
<1>1. IInv /\ [Next]_vars =>
        [\A m \in Months :
           period[m] = "CLOSED" /\ ledger'[m] # ledger[m] =>
             \E w \in overtaken : cmd[w].month = m /\ w \notin overtaken']_vars
  BY RestStep
<1> QED
  BY <1>1, PeriodsInvariant, PTL DEF Spec, ClosedMonthRests

-----------------------------------------------------------------------------
(* Amounts, and what the ledger has of the entries.                         *)

\* Everything that is added up is a number.
Numbers ==
  /\ \A m \in Months : ledger[m] \in Int
  /\ \A e \in Entries : entry[e].amount \in Int
  /\ \A w \in Workers : cmd[w].amount \in Int

Statuses ==
  \A e \in Entries : entry[e].status \in {"none", "DRAFT", "POSTED", "REVERSED"}

\* One request at a time has an entry locked or writes its mirror.
RowsExclusive ==
  \A v, w \in Workers, e \in Entries : HoldsRow(v, e) /\ HoldsRow(w, e) => v = w

Unposted(e) == IF e[1] \in Manual THEN "DRAFT" ELSE "none"

\* An entry that is being posted is in the ledger by nobody else.
PostsOnce ==
  \A w \in Workers :
    cmd[w].op = "post" =>
      /\ cmd[w].stage \in {"locked", "written"}
      /\ entry[cmd[w].entry].status = Unposted(cmd[w].entry)

\* A reversal takes back what its entry says; once it has passed the unique index its
\* entry is in force and without a mirror until it commits.
ReversesOnce ==
  \A w \in Workers :
    cmd[w].op = "reverse" =>
      /\ cmd[w].stage \in {"read", "locked", "written"}
      /\ entry[cmd[w].entry].status \in {"POSTED", "REVERSED"}
      /\ cmd[w].amount = -entry[cmd[w].entry].amount
      /\ cmd[w].stage = "written" =>
           entry[cmd[w].entry].status = "POSTED" /\ entry[Mirror(cmd[w].entry)].status = "none"

\* A reversed entry has its mirror, and a year that is not closed has no closing entry.
MirrorsThere ==
  /\ \A e \in Entries :
       entry[e].status = "REVERSED" =>
         Mirror(e) \in Entries /\ entry[Mirror(e)].status # "none"
  /\ \A y \in Years : ~closed[y] => entry[<<y, 0>>].status = "none"

SumInv ==
  Numbers /\ Statuses /\ RowsExclusive /\ PostsOnce /\ ReversesOnce /\ MirrorsThere
    /\ LedgerIsWhatStands

LEMMA SetsFinite == IsFiniteSet(Months) /\ IsFiniteSet(Entries)
<1>1. LastYear \in Int /\ LastYear * MonthsOfYear + 1 \in Int /\ MaxReversals \in Int
  BY PeriodsAssumption
<1>2. IsFiniteSet(Months) /\ IsFiniteSet(Years) /\ IsFiniteSet(0..MaxReversals)
  BY <1>1, FS_Interval DEF Months, Years
<1>3. IsFiniteSet(Sources)
  BY <1>2, PeriodsAssumption, FS_Union DEF Sources
<1> QED
  BY <1>2, <1>3, FS_Product DEF Entries

\* What an entry counts for.
Standing == [e \in Entries |-> IF InForce(e) THEN entry[e].amount ELSE 0]

LEMMA StandingInt ==
  ASSUME Numbers
  PROVE  \A e \in Entries : Standing[e] \in Int
BY DEF Numbers, Standing

LEMMA LedgerSums ==
  ASSUME Shape
  PROVE  LedgerIsWhatStands <=>
           SumFunctionOnSet(ledger, Months) = SumFunctionOnSet(Standing, Entries)
<1>1. DOMAIN ledger = Months /\ DOMAIN Standing = Entries
  BY DEF Shape, Standing
<1> QED
  BY <1>1 DEF LedgerIsWhatStands, SumFunction, Standing

LEMMA IncomeInt ==
  ASSUME Shape, Numbers, NEW y \in Years
  PROVE  Income(y) \in Int
<1>1. IsFiniteSet(MonthsOf(y)) /\ MonthsOf(y) \subseteq Months
  BY Calendar, SetsFinite, FS_Subset
<1> DEFINE f == [m \in MonthsOf(y) |-> ledger[m]]
<1>2. DOMAIN f = MonthsOf(y) /\ \A m \in MonthsOf(y) : f[m] \in Int
  BY <1>1 DEF Numbers
<1>3. Income(y) = SumFunctionOnSet(f, MonthsOf(y))
  BY <1>2 DEF Income, SumFunction
<1> HIDE DEF f
<1> QED
  BY <1>1, <1>2, <1>3, SumInt

\* A commit into the ledger: one entry counts for what the command books, the others
\* for what they did.
LEMMA BookedSum ==
  ASSUME Shape, Shape', Numbers, Numbers', LedgerIsWhatStands, NEW w \in Workers,
         ledger' = [ledger EXCEPT ![cmd[w].month] = @ + cmd[w].amount],
         NEW e \in Entries, Standing'[e] = Standing[e] + cmd[w].amount,
         \A f \in Entries \ {e} : Standing'[f] = Standing[f]
  PROVE  LedgerIsWhatStands'
<1>1. PICK m \in Months : m = cmd[w].month
  BY DEF Shape, WellFormed
<1>2. PICK a \in Int : a = cmd[w].amount
  BY DEF Numbers
<1> DEFINE L == ledger'
           T == Standing'
<1>3. /\ L[m] = ledger[m] + a
      /\ \A n \in Months \ {m} : ledger[n] = L[n]
      /\ \A n \in Months : ledger[n] \in Int /\ L[n] \in Int
  BY <1>1, <1>2 DEF Shape, Numbers
<1>4. /\ T[e] = Standing[e] + a
      /\ \A f \in Entries \ {e} : Standing[f] = T[f]
      /\ \A f \in Entries : Standing[f] \in Int
  BY <1>2, StandingInt
<1>5. \A f \in Entries : T[f] \in Int
  BY <1>2, <1>4
<1> DEFINE l == SumFunctionOnSet(ledger, Months)
           s == SumFunctionOnSet(Standing, Entries)
<1>6. l \in Int /\ s \in Int /\ l = s
  BY <1>3, <1>4, SetsFinite, SumInt, LedgerSums
<1> HIDE DEF L, T
<1>7. /\ SumFunctionOnSet(L, Months) = l - ledger[m] + L[m]
      /\ SumFunctionOnSet(T, Entries) = s - Standing[e] + T[e]
  BY <1>3, <1>4, <1>5, SetsFinite, SumChange
<1> HIDE DEF l, s
<1>8. l - ledger[m] + L[m] = s - Standing[e] + T[e]
  BY <1>3, <1>4, <1>6
<1>9. SumFunctionOnSet(L, Months) = SumFunctionOnSet(T, Entries)
  BY <1>7, <1>8
<1>10. DOMAIN L = Months /\ DOMAIN T = Entries
  BY DEF Shape, Standing, L, T
<1> QED
  BY <1>9, <1>10 DEF LedgerIsWhatStands, SumFunction, Standing, L, T

\* A step of one command that writes no entry and nothing into the ledger.
LEMMA OneSums ==
  ASSUME IInv, SumInv, UNCHANGED <<entry, ledger, closed>>, NEW w \in Workers, NEW c,
         cmd' = [cmd EXCEPT ![w] = c], c.amount \in Int,
         c.op \in {"post", "reverse"} /\ c.stage \in {"locked", "written"} => RowFree(w, c.entry),
         c.op = "post" =>
           c.stage \in {"locked", "written"} /\ entry[c.entry].status = Unposted(c.entry),
         c.op = "reverse" =>
           /\ c.stage \in {"read", "locked", "written"}
           /\ entry[c.entry].status \in {"POSTED", "REVERSED"}
           /\ c.amount = -entry[c.entry].amount
           /\ c.stage = "written" =>
                entry[c.entry].status = "POSTED" /\ entry[Mirror(c.entry)].status = "none"
  PROVE  SumInv'
<1>1. cmd'[w] = c /\ \A v \in Workers \ {w} : cmd'[v] = cmd[v]
  BY DEF IInv, Shape
<1>2. entry' = entry /\ ledger' = ledger /\ closed' = closed
  OBVIOUS
<1>3. Numbers' /\ Statuses' /\ MirrorsThere'
  BY <1>1, <1>2 DEF SumInv, Numbers, Statuses, MirrorsThere
<1>4. PostsOnce'
  BY <1>1, <1>2 DEF SumInv, PostsOnce
<1>5. ReversesOnce'
  BY <1>1, <1>2 DEF SumInv, ReversesOnce
<1>6. RowsExclusive'
  <2>1. \A v \in Workers \ {w} : \A e : HoldsRow(v, e)' <=> HoldsRow(v, e)
    BY <1>1 DEF HoldsRow
  <2>2. \A e : HoldsRow(w, e)' => e = c.entry /\ RowFree(w, e)
    BY <1>1 DEF HoldsRow
  <2>3. ASSUME NEW v \in Workers \ {w}, NEW e \in Entries, HoldsRow(w, e)', HoldsRow(v, e)'
        PROVE  FALSE
    BY <2>1, <2>2, <2>3 DEF RowFree
  <2>4. \A u, v \in Workers \ {w}, e \in Entries : HoldsRow(u, e)' /\ HoldsRow(v, e)' => u = v
    BY <2>1 DEF SumInv, RowsExclusive
  <2> QED
    BY <2>3, <2>4 DEF RowsExclusive
<1>7. LedgerIsWhatStands'
  BY <1>2 DEF SumInv, LedgerIsWhatStands, InForce
<1> QED
  BY <1>3, <1>4, <1>5, <1>6, <1>7 DEF SumInv

\* What is rolled back was never added up.
LEMMA RollbackSums ==
  ASSUME IInv, SumInv, NEW w \in Workers, cmd' = [cmd EXCEPT ![w] = NoCommand],
         UNCHANGED <<entry, ledger, closed>>
  PROVE  SumInv'
<1>1. PICK c : c = NoCommand
  OBVIOUS
<1>2. c.op = "none" /\ c.amount = 0 /\ cmd' = [cmd EXCEPT ![w] = c]
  BY <1>1 DEF NoCommand
<1>3. c.op # "post" /\ c.op # "reverse" /\ c.amount \in Int
  BY <1>2
<1>4. entry' = entry /\ ledger' = ledger /\ closed' = closed
  OBVIOUS
<1> QED
  BY <1>2, <1>3, <1>4, OneSums, Zenon

\* What an entry counts for after a step.
LEMMA StandingNext ==
  ASSUME NEW e \in Entries
  PROVE  /\ Standing[e] = IF entry[e].status = "POSTED" /\ e[2] % 2 = 0 THEN entry[e].amount ELSE 0
         /\ Standing'[e] = IF entry'[e].status = "POSTED" /\ e[2] % 2 = 0 THEN entry'[e].amount ELSE 0
BY DEF Standing, InForce

\* The command of a commit is over; the others and what they read stay.
LEMMA Over ==
  ASSUME IInv, SumInv, NEW w \in Workers, Booked(w),
         \A e \in Entries : entry'[e].amount \in Int
           /\ entry'[e].status \in {"none", "DRAFT", "POSTED", "REVERSED"}
  PROVE  /\ cmd'[w] = NoCommand /\ \A v \in Workers \ {w} : cmd'[v] = cmd[v]
         /\ Numbers' /\ Statuses' /\ RowsExclusive'
<1>1. /\ cmd' = [cmd EXCEPT ![w] = NoCommand]
      /\ ledger' = [ledger EXCEPT ![cmd[w].month] = @ + cmd[w].amount]
  BY DEF Booked
<1>2. cmd'[w] = NoCommand /\ \A v \in Workers \ {w} : cmd'[v] = cmd[v]
  BY <1>1 DEF IInv, Shape
<1>3. NoCommand.op = "none" /\ NoCommand.amount = 0
  BY DEF NoCommand
<1>4. \A m \in Months : ledger'[m] \in Int
  <2>1. PICK a \in Int : a = cmd[w].amount
    BY DEF SumInv, Numbers
  <2>2. \A m \in Months : ledger'[m] = ledger[m] \/ ledger'[m] = ledger[m] + a
    BY <1>1, <2>1 DEF IInv, Shape
  <2> QED
    BY <2>1, <2>2 DEF SumInv, Numbers
<1>5. Numbers'
  BY <1>2, <1>3, <1>4 DEF SumInv, Numbers
<1>6. Statuses'
  BY DEF Statuses
<1>7. RowsExclusive'
  <2>1. \A v \in Workers : \A e : HoldsRow(v, e)' => v # w /\ HoldsRow(v, e)
    BY <1>2, <1>3 DEF HoldsRow
  <2> QED
    BY <2>1 DEF SumInv, RowsExclusive
<1> QED
  BY <1>2, <1>5, <1>6, <1>7

-----------------------------------------------------------------------------
(* The steps and the sums.                                                  *)

\* A draft is not in the ledger.
LEMMA DraftSums ==
  ASSUME IInv, IInv', SumInv, NEW w \in Workers, NEW s \in Manual, Draft(w, s)
  PROVE  SumInv'
<1>1. PICK e \in Entries : e = <<s, 0>>
  <2>1. <<s, 0>> \in Entries
    BY PeriodsAssumption DEF Entries, Sources
  <2> QED
    BY <2>1
<1>2. PICK m \in Dates, a \in Amounts : entry' = [entry EXCEPT ![e] = Entry("DRAFT", m, a)]
  BY <1>1 DEF Draft
<1>3. UNCHANGED <<ledger, closed, cmd>> /\ entry[e].status = "none"
  BY <1>1 DEF Draft
<1>4. /\ entry'[e].status = "DRAFT" /\ entry'[e].amount \in Int
      /\ \A f \in Entries \ {e} : entry'[f] = entry[f]
  BY <1>2, PeriodsAssumption DEF Entry, IInv, Shape
<1>5. Unposted(e) = "DRAFT"
  BY <1>1 DEF Unposted
<1>6. Numbers' /\ Statuses'
  BY <1>3, <1>4 DEF SumInv, Numbers, Statuses
<1>7. RowsExclusive'
  BY <1>3 DEF SumInv, RowsExclusive, HoldsRow
<1>8. \A v \in Workers : cmd[v].op \in {"post", "reverse"} => cmd[v].entry \in Entries
  <2>1. (Manual \cup Automatic) \X {0} \subseteq Entries
    BY PeriodsAssumption DEF Entries, Sources
  <2> QED
    BY <2>1 DEF IInv, Shape, WellFormed
<1>9. PostsOnce'
  <2>1. \A v \in Workers : cmd[v].op = "post" => cmd[v].entry # e
    BY <1>3, <1>5 DEF SumInv, PostsOnce
  <2> QED
    BY <1>3, <1>4, <1>8, <2>1 DEF SumInv, PostsOnce, Unposted
<1>10. \A v \in Workers : cmd[v].op = "reverse" => Mirror(cmd[v].entry) # e
  <2>1. \A f \in Entries : Mirror(f) # e
    BY <1>1 DEF Mirror, Entries
  <2> QED
    BY <1>8, <2>1
<1>11. \A v \in Workers : cmd[v].op = "reverse" => Mirror(cmd[v].entry) \in Entries
  BY DEF IInv, Shape, WellFormed
<1>12. \A v \in Workers : cmd[v].op = "reverse" => cmd[v].entry # e
  BY <1>3 DEF SumInv, ReversesOnce
<1>13. ReversesOnce'
  BY <1>3, <1>4, <1>8, <1>10, <1>11, <1>12 DEF SumInv, ReversesOnce
<1>14. MirrorsThere'
  <2>1. \A y \in Years : <<y, 0>> \in Entries /\ <<y, 0>> # e
    BY <1>1, PeriodsAssumption DEF Entries, Sources
  <2>2. \A f \in Entries : entry'[f].status = "REVERSED" => f # e /\ entry[f].status = "REVERSED"
    BY <1>4
  <2>3. \A f \in Entries : entry[f].status # "none" => entry'[f].status # "none"
    BY <1>3, <1>4
  <2> QED
    BY <1>3, <1>4, <2>1, <2>2, <2>3 DEF SumInv, MirrorsThere
<1>15. LedgerIsWhatStands'
  <2>1. Standing'[e] = Standing[e] /\ \A f \in Entries \ {e} : Standing'[f] = Standing[f]
    BY <1>3, <1>4, StandingNext
  <2>2. \A f \in Entries : Standing[f] = Standing'[f] /\ Standing[f] \in Int
    BY <2>1, StandingInt DEF SumInv
  <2> DEFINE T == Standing'
  <2>3. DOMAIN T = Entries
    BY DEF Standing
  <2>4. \A f \in Entries : Standing[f] = T[f] /\ Standing[f] \in Int
    BY <2>2
  <2> HIDE DEF T
  <2>5. SumFunctionOnSet(Standing, Entries) = SumFunctionOnSet(T, Entries)
    BY <2>4, SetsFinite, SumSame
  <2>6. SumFunctionOnSet(ledger, Months) = SumFunctionOnSet(T, Entries)
    BY <2>5, LedgerSums DEF SumInv, IInv
  <2>7. DOMAIN ledger = Months
    BY DEF IInv, Shape
  <2> QED
    BY <1>3, <2>3, <2>6, <2>7 DEF LedgerIsWhatStands, SumFunction, Standing, T
<1> QED
  BY <1>6, <1>7, <1>9, <1>13, <1>14, <1>15 DEF SumInv

\* A request that begins locks a row that nobody has, or none.
LEMMA BeginSums ==
  ASSUME IInv, IInv', SumInv, NEW w \in Workers, Begin(w)
  PROVE  SumInv'
<1>1. ASSUME NEW s \in Manual, Draft(w, s) PROVE SumInv'
  BY <1>1, DraftSums
<1>2. ASSUME NEW op, NEW stage, NEW e, NEW m, NEW a \in Int,
             cmd' = [cmd EXCEPT ![w] = Opened(op, stage, e, m, a)], UNCHANGED <<today, books, overtaken>>,
             op \in {"close", "close year"} \/ RowFree(w, e) \/ (op = "reverse" /\ stage = "read"),
             op = "post" => stage = "locked" /\ entry[e].status = Unposted(e),
             op = "reverse" =>
               stage \in {"read", "locked"} /\ entry[e].status = "POSTED" /\ a = -entry[e].amount
      PROVE  SumInv'
  <2>1. PICK c : c = Opened(op, stage, e, m, a)
    OBVIOUS
  <2>2. /\ c.op = op /\ c.stage = stage /\ c.entry = e /\ c.amount = a
        /\ cmd' = [cmd EXCEPT ![w] = c]
    BY <1>2, <2>1 DEF Opened
  <2>3. entry' = entry /\ ledger' = ledger /\ closed' = closed
    BY <1>2 DEF books
  <2>4. c.op \in {"post", "reverse"} /\ c.stage \in {"locked", "written"} => RowFree(w, c.entry)
    BY <1>2, <2>2
  <2>5. c.op = "post" =>
          c.stage \in {"locked", "written"} /\ entry[c.entry].status = Unposted(c.entry)
    BY <1>2, <2>2
  <2>6. c.op = "reverse" =>
          /\ c.stage \in {"read", "locked", "written"}
          /\ entry[c.entry].status \in {"POSTED", "REVERSED"}
          /\ c.amount = -entry[c.entry].amount
          /\ c.stage # "written"
    BY <1>2, <2>2
  <2>7. c.amount \in Int
    BY <2>2
  <2> QED
    BY <2>2, <2>3, <2>4, <2>5, <2>6, <2>7, OneSums
<1>3. ASSUME NEW s \in Manual, PostManual(w, s) PROVE SumInv'
  <2>1. PICK e : e = <<s, 0>>
    OBVIOUS
  <2>2. e \in Entries /\ Unposted(e) = "DRAFT"
    BY <2>1, PeriodsAssumption DEF Entries, Sources, Unposted
  <2>3. entry[e].amount \in Int
    BY <2>2 DEF SumInv, Numbers
  <2>4. /\ RowFree(w, e) /\ entry[e].status = "DRAFT" /\ UNCHANGED <<today, books, overtaken>>
        /\ cmd' = [cmd EXCEPT ![w] = Opened("post", "locked", e, entry[e].month, entry[e].amount)]
    BY <1>3, <2>1 DEF PostManual
  <2> QED
    BY <1>2, <2>2, <2>3, <2>4
<1>4. ASSUME NEW s \in Automatic, PostAutomatic(w, s) PROVE SumInv'
  <2>1. PICK e : e = <<s, 0>>
    OBVIOUS
  <2>2. Unposted(e) = "none"
    BY <2>1, PeriodsAssumption DEF Unposted
  <2>3. PICK m \in Dates, a \in Amounts :
          cmd' = [cmd EXCEPT ![w] = Opened("post", "locked", e, m, a)]
    BY <1>4, <2>1 DEF PostAutomatic
  <2>4. entry[e].status = "none" /\ UNCHANGED <<today, books, overtaken>> /\ RowFree(w, e)
    BY <1>4, <2>1 DEF PostAutomatic, RowFree, HoldsRow
  <2>5. a \in Int
    BY PeriodsAssumption
  <2> QED
    BY <1>2, <2>2, <2>3, <2>4, <2>5
<1>5. ASSUME NEW s \in Automatic, ReverseBySource(w, s) PROVE SumInv'
  <2>1. PICK e : e = <<s, 0>>
    OBVIOUS
  <2>2. e \in Entries
    BY <2>1, PeriodsAssumption DEF Entries, Sources
  <2>3. -entry[e].amount \in Int
    BY <2>2 DEF SumInv, Numbers
  <2>4. /\ entry[e].status = "POSTED" /\ UNCHANGED <<today, books, overtaken>>
        /\ cmd' = [cmd EXCEPT ![w] = Opened("reverse", "read", e, today, -entry[e].amount)]
    BY <1>5, <2>1 DEF ReverseBySource
  <2> QED
    BY <1>2, <2>3, <2>4
<1>6. ASSUME NEW e \in Entries, Reverse(w, e) PROVE SumInv'
  <2>1. -entry[e].amount \in Int
    BY DEF SumInv, Numbers
  <2>2. /\ RowFree(w, e) /\ entry[e].status = "POSTED" /\ UNCHANGED <<today, books, overtaken>>
        /\ cmd' = [cmd EXCEPT ![w] = Opened("reverse", "locked", e, today, -entry[e].amount)]
    BY <1>6 DEF Reverse
  <2> QED
    BY <1>2, <2>1, <2>2
<1>7. ASSUME NEW m \in Months, ClosePeriod(w, m) PROVE SumInv'
  <2>1. /\ UNCHANGED <<today, books, overtaken>>
        /\ cmd' = [cmd EXCEPT ![w] = Opened("close", "written", NoEntry, m, 0)]
    BY <1>7 DEF ClosePeriod
  <2>2. 0 \in Int
    OBVIOUS
  <2> QED
    BY <1>2, <2>1, <2>2, Zenon
<1>8. ASSUME NEW y \in Years, CloseYear(w, y) PROVE SumInv'
  <2>1. /\ UNCHANGED <<today, books, overtaken>>
        /\ cmd' = [cmd EXCEPT ![w] =
                     Opened("close year", "counting", <<y, 0>>, FirstMonth(y + 1), 0)]
    BY <1>8 DEF CloseYear
  <2>2. 0 \in Int
    OBVIOUS
  <2> QED
    BY <1>2, <2>1, <2>2, Zenon
<1> QED
  BY <1>1, <1>3, <1>4, <1>5, <1>6, <1>7, <1>8 DEF Begin

\* Who counts is about to close a year.
LEMMA CountSums ==
  ASSUME IInv, IInv', SumInv, NEW w \in Workers, Count(w)
  PROVE  SumInv'
<1>1. CASE Rollback(w)
  BY <1>1, RollbackSums DEF Rollback, books
<1>2. CASE ~Rollback(w)
  <2>1. PICK c : c = [cmd[w] EXCEPT !.stage = "locked", !.amount = -Income(cmd[w].entry[1])]
    OBVIOUS
  <2>2. /\ UNCHANGED <<entry, ledger, closed>> /\ cmd[w].stage = "counting"
        /\ cmd' = [cmd EXCEPT ![w].stage = "locked", ![w].amount = -Income(cmd[w].entry[1])]
    BY <1>2 DEF Count, books
  <2>3. cmd' = [cmd EXCEPT ![w] = c]
    BY <2>1, <2>2 DEF IInv, Shape
  <2>4. cmd[w] = Opened(cmd[w].op, cmd[w].stage, cmd[w].entry, cmd[w].month, cmd[w].amount)
    BY DEF IInv, Shape, WellFormed
  <2>5. c.op = cmd[w].op /\ c.amount = -Income(cmd[w].entry[1])
    BY <2>1, <2>4 DEF Opened
  <2>6. cmd[w].op # "post" /\ cmd[w].op # "reverse"
    BY <2>2 DEF SumInv, PostsOnce, ReversesOnce
  <2>7. c.amount \in Int
    <3>1. CASE cmd[w].op = "close year"
      <4>1. cmd[w].entry[1] \in Years
        BY <3>1 DEF IInv, Shape, WellFormed
      <4> QED
        BY <2>5, <4>1, IncomeInt DEF IInv, SumInv
    <3>2. CASE cmd[w].op # "close year"
      BY <2>2, <2>6, <3>2 DEF IInv, Shape, WellFormed, Ops
    <3> QED
      BY <3>1, <3>2
  <2> QED
    BY <2>2, <2>3, <2>5, <2>6, <2>7, OneSums, Zenon
<1> QED
  BY <1>1, <1>2

\* An entry that is posted is the first of its source.
LEMMA FirstOfSource ==
  ASSUME NEW e \in (Manual \cup Automatic) \X {0}
  PROVE  e \in Entries /\ e[2] = 0
BY PeriodsAssumption DEF Entries, Sources

\* Who writes a reversal has its entry to itself, and is the first with its mirror.
LEMMA WriteSums ==
  ASSUME IInv, IInv', SumInv, NEW w \in Workers, Write(w)
  PROVE  SumInv'
<1>1. PICK c : c = [cmd[w] EXCEPT !.stage = "written"]
  OBVIOUS
<1>2. /\ UNCHANGED <<entry, ledger, closed>> /\ cmd[w].stage \in {"read", "locked"}
      /\ cmd' = [cmd EXCEPT ![w].stage = "written"]
      /\ cmd[w].op = "reverse" => RowFree(w, cmd[w].entry) /\ entry[Mirror(cmd[w].entry)].status = "none"
  BY DEF Write, books, Single
<1>3. cmd' = [cmd EXCEPT ![w] = c]
  BY <1>1, <1>2 DEF IInv, Shape
<1>4. cmd[w] = Opened(cmd[w].op, cmd[w].stage, cmd[w].entry, cmd[w].month, cmd[w].amount)
  BY DEF IInv, Shape, WellFormed
<1>5. /\ c.op = cmd[w].op /\ c.stage = "written" /\ c.entry = cmd[w].entry
      /\ c.amount = cmd[w].amount /\ c.amount \in Int
  BY <1>1, <1>4 DEF Opened, SumInv, Numbers
<1>6. cmd[w].op = "reverse" =>
        cmd[w].entry \in Entries /\ entry[cmd[w].entry].status = "POSTED"
  BY <1>2 DEF IInv, Shape, WellFormed, SumInv, ReversesOnce, MirrorsThere
<1>7. c.op \in {"post", "reverse"} /\ c.stage \in {"locked", "written"} => RowFree(w, c.entry)
  <2>1. CASE c.op = "post"
    <3>1. cmd[w].entry \in (Manual \cup Automatic) \X {0}
      BY <1>5, <2>1 DEF IInv, Shape, WellFormed
    <3>2. c.entry \in Entries
      BY <1>5, <3>1, FirstOfSource
    <3>3. HoldsRow(w, c.entry)
      BY <1>2, <1>5, <2>1 DEF HoldsRow, SumInv, PostsOnce
    <3> QED
      BY <3>2, <3>3 DEF SumInv, RowsExclusive, RowFree
  <2>2. CASE c.op = "reverse"
    BY <1>2, <1>5, <2>2
  <2> QED
    BY <2>1, <2>2
<1>8. c.op = "post" =>
        c.stage \in {"locked", "written"} /\ entry[c.entry].status = Unposted(c.entry)
  BY <1>5 DEF SumInv, PostsOnce
<1>9. c.op = "reverse" =>
        /\ c.stage \in {"read", "locked", "written"}
        /\ entry[c.entry].status \in {"POSTED", "REVERSED"}
        /\ c.amount = -entry[c.entry].amount
        /\ c.stage = "written" =>
             entry[c.entry].status = "POSTED" /\ entry[Mirror(c.entry)].status = "none"
  BY <1>2, <1>5, <1>6 DEF SumInv, ReversesOnce
<1> QED
  BY <1>2, <1>3, <1>5, <1>7, <1>8, <1>9, OneSums

\* A posting was not in the ledger before.
LEMMA CommitPostSums ==
  ASSUME IInv, IInv', SumInv, NEW w \in Workers, CommitPost(w)
  PROVE  SumInv'
<1>1. PICK e : e = cmd[w].entry
  OBVIOUS
<1>2. /\ cmd[w].op = "post" /\ cmd[w].stage = "written" /\ Booked(w) /\ closed' = closed
      /\ entry' = [entry EXCEPT ![e] = Posted(w)]
  BY <1>1 DEF CommitPost
<1>3. e \in Entries /\ e \in (Manual \cup Automatic) \X {0}
  <2>1. e \in (Manual \cup Automatic) \X {0}
    BY <1>1, <1>2 DEF IInv, Shape, WellFormed
  <2> QED
    BY <2>1, FirstOfSource
<1>4. /\ e[2] = 0 /\ e[2] % 2 = 0
      /\ \A f \in Entries : Mirror(f) # e
      /\ \A y \in Years : <<y, 0>> \in Entries /\ <<y, 0>> # e
  <2>1. e[2] = 0
    BY <1>3
  <2>2. \A y \in Years : <<y, 0>> \in Entries /\ <<y, 0>> # e
    BY <1>3, PeriodsAssumption DEF Entries, Sources
  <2> QED
    BY <2>1, <2>2 DEF Mirror, Entries
<1>5. /\ entry[e].status = Unposted(e) /\ entry[e].status \in {"none", "DRAFT"}
      /\ HoldsRow(w, e)
  BY <1>1, <1>2 DEF SumInv, PostsOnce, Unposted, HoldsRow
<1>6. /\ entry'[e].status = "POSTED" /\ entry'[e].amount = cmd[w].amount
      /\ \A f \in Entries \ {e} : entry'[f] = entry[f]
  BY <1>2, <1>3 DEF Posted, Entry, IInv, Shape
<1>7. /\ cmd'[w] = NoCommand /\ \A v \in Workers \ {w} : cmd'[v] = cmd[v]
      /\ Numbers' /\ Statuses' /\ RowsExclusive'
  BY <1>2, <1>6, Over DEF SumInv, Numbers, Statuses
<1>8. NoCommand.op = "none"
  BY DEF NoCommand
<1>9. PostsOnce'
  <2>1. \A v \in Workers \ {w} : cmd[v].op = "post" => cmd[v].entry \in Entries /\ cmd[v].entry # e
    BY <1>3, <1>5, FirstOfSource
    DEF HoldsRow, SumInv, RowsExclusive, PostsOnce, IInv, Shape, WellFormed
  <2>2. \A v \in Workers : cmd'[v].op = "post" => v # w /\ cmd'[v] = cmd[v]
    BY <1>7, <1>8
  <2> QED
    BY <1>6, <2>1, <2>2 DEF SumInv, PostsOnce, Unposted
<1>10. ReversesOnce'
  <2>1. \A v \in Workers : cmd'[v].op = "reverse" => v # w /\ cmd'[v] = cmd[v]
    BY <1>7, <1>8
  <2>2. \A v \in Workers : cmd[v].op = "reverse" =>
          /\ cmd[v].entry \in Entries /\ Mirror(cmd[v].entry) \in Entries
          /\ cmd[v].entry # e /\ Mirror(cmd[v].entry) # e
    BY <1>4, <1>5 DEF IInv, Shape, WellFormed, SumInv, ReversesOnce
  <2> QED
    BY <1>6, <2>1, <2>2 DEF SumInv, ReversesOnce
<1>11. MirrorsThere'
  BY <1>2, <1>4, <1>5, <1>6 DEF SumInv, MirrorsThere
<1>12. LedgerIsWhatStands'
  <2>1. Standing[e] = 0 /\ Standing'[e] = cmd[w].amount
    BY <1>3, <1>4, <1>5, <1>6, StandingNext
  <2>2. Standing'[e] = Standing[e] + cmd[w].amount
    BY <2>1 DEF SumInv, Numbers
  <2>3. \A f \in Entries \ {e} : Standing'[f] = Standing[f]
    BY <1>6, StandingNext
  <2> QED
    BY <1>2, <1>3, <1>7, <2>2, <2>3, BookedSum DEF Booked, SumInv, IInv
<1> QED
  BY <1>7, <1>9, <1>10, <1>11, <1>12 DEF SumInv

\* Of an entry and its mirror one counts and the other does not.
LEMMA Parity == \A n \in Nat : n % 2 \in {0, 1} /\ (n % 2 = 0 <=> (n + 1) % 2 # 0)
  OBVIOUS

\* A reversal takes an entry out of the ledger that was in it, or puts one back.
LEMMA CommitReverseSums ==
  ASSUME IInv, IInv', SumInv, NEW w \in Workers, CommitReverse(w)
  PROVE  SumInv'
<1>1. PICK e, m : e = cmd[w].entry /\ m = Mirror(e)
  OBVIOUS
<1>2. /\ cmd[w].op = "reverse" /\ cmd[w].stage = "written" /\ Booked(w) /\ closed' = closed
      /\ entry' = [entry EXCEPT ![e].status = "REVERSED", ![m] = Posted(w)]
  BY <1>1 DEF CommitReverse
<1>3. e \in Entries /\ m \in Entries
  BY <1>1, <1>2 DEF IInv, Shape, WellFormed
<1>4. /\ e[2] \in Nat /\ m[2] = e[2] + 1 /\ e # m
      /\ \A f \in Entries : Mirror(f) = m => f = e
  <2>1. e[2] \in Nat /\ m[2] = e[2] + 1
    BY <1>1, <1>3 DEF Mirror, Entries
  <2>2. \A f \in Entries : Mirror(f) = m => f = e
    BY <1>1, <1>3 DEF Mirror, Entries
  <2> QED
    BY <2>1, <2>2
<1>5. /\ entry[e].status = "POSTED" /\ entry[m].status = "none"
      /\ cmd[w].amount = -entry[e].amount /\ HoldsRow(w, e)
  BY <1>1, <1>2 DEF SumInv, ReversesOnce, HoldsRow
<1>6. /\ entry'[e].status = "REVERSED" /\ entry'[e].amount = entry[e].amount
      /\ entry'[m].status = "POSTED" /\ entry'[m].amount = cmd[w].amount
      /\ \A f \in Entries : f # e /\ f # m => entry'[f] = entry[f]
  <2>1. entry[e] = Entry(entry[e].status, entry[e].month, entry[e].amount)
    BY <1>3 DEF IInv, Shape, WellEntered
  <2>2. entry'[e] = [entry[e] EXCEPT !.status = "REVERSED"]
    BY <1>2, <1>3, <1>4 DEF IInv, Shape
  <2>3. entry'[m] = Posted(w) /\ \A f \in Entries : f # e /\ f # m => entry'[f] = entry[f]
    BY <1>2, <1>3, <1>4 DEF IInv, Shape
  <2> QED
    BY <2>1, <2>2, <2>3 DEF Entry, Posted
<1>7. /\ cmd'[w] = NoCommand /\ \A v \in Workers \ {w} : cmd'[v] = cmd[v]
      /\ Numbers' /\ Statuses' /\ RowsExclusive'
  <2>1. \A f \in Entries : entry'[f].amount \in Int
           /\ entry'[f].status \in {"none", "DRAFT", "POSTED", "REVERSED"}
    BY <1>6 DEF SumInv, Numbers, Statuses
  <2> QED
    BY <1>2, <2>1, Over
<1>8. NoCommand.op = "none"
  BY DEF NoCommand
<1>9. PostsOnce'
  <2>1. \A v \in Workers : cmd'[v].op = "post" => v # w /\ cmd'[v] = cmd[v]
    BY <1>7, <1>8
  <2>2. \A v \in Workers : cmd[v].op = "post" =>
          /\ cmd[v].entry \in Entries /\ cmd[v].entry[2] = 0
          /\ entry[cmd[v].entry].status \in {"none", "DRAFT"}
    BY FirstOfSource DEF IInv, Shape, WellFormed, SumInv, PostsOnce, Unposted
  <2>3. \A v \in Workers : cmd[v].op = "post" => cmd[v].entry # e /\ cmd[v].entry # m
    BY <1>4, <1>5, <2>2
  <2> QED
    BY <1>6, <2>1, <2>2, <2>3 DEF SumInv, PostsOnce, Unposted
<1>10. ReversesOnce'
  <2>1. \A v \in Workers : cmd'[v].op = "reverse" => v # w /\ cmd'[v] = cmd[v]
    BY <1>7, <1>8
  <2>2. ASSUME NEW v \in Workers, v # w, cmd[v].op = "reverse", NEW f, f = cmd[v].entry
        PROVE  /\ cmd[v].stage \in {"read", "locked", "written"}
               /\ entry'[f].status \in {"POSTED", "REVERSED"}
               /\ cmd[v].amount = -entry'[f].amount
               /\ cmd[v].stage = "written" =>
                    entry'[f].status = "POSTED" /\ entry'[Mirror(f)].status = "none"
    <3>1. f \in Entries /\ Mirror(f) \in Entries
      BY <2>2 DEF IInv, Shape, WellFormed
    <3>2. /\ cmd[v].stage \in {"read", "locked", "written"}
          /\ entry[f].status \in {"POSTED", "REVERSED"}
          /\ cmd[v].amount = -entry[f].amount
          /\ cmd[v].stage = "written" =>
               entry[f].status = "POSTED" /\ entry[Mirror(f)].status = "none"
      BY <2>2 DEF SumInv, ReversesOnce
    <3>3. f # m
      BY <1>5, <3>2
    <3>4. cmd[v].stage = "written" => f # e
      BY <1>3, <1>5, <2>2 DEF SumInv, RowsExclusive, HoldsRow
    <3>5. cmd[v].stage = "written" => Mirror(f) # e /\ Mirror(f) # m
      BY <1>4, <1>5, <3>1, <3>2, <3>4
    <3> QED
      BY <1>6, <3>1, <3>2, <3>3, <3>4, <3>5
  <2> QED
    BY <2>1, <2>2 DEF ReversesOnce
<1>11. MirrorsThere'
  <2>1. \A f \in Entries : entry'[f].status = "none" => entry[f].status = "none"
    BY <1>6
  <2>2. \A f \in Entries : entry'[f].status = "REVERSED" => f = e \/ entry[f].status = "REVERSED"
    BY <1>6
  <2>3. entry'[Mirror(e)].status # "none" /\ Mirror(e) \in Entries
    BY <1>1, <1>3, <1>6
  <2>4. \A f \in Entries : entry'[f].status = "REVERSED" =>
          Mirror(f) \in Entries /\ entry'[Mirror(f)].status # "none"
    BY <2>1, <2>2, <2>3 DEF SumInv, MirrorsThere
  <2>5. \A y \in Years : ~closed[y] => <<y, 0>> # e /\ <<y, 0>> # m
    <3>1. \A y \in Years : <<y, 0>>[2] # m[2]
      BY <1>4
    <3> QED
      BY <1>5, <3>1 DEF SumInv, MirrorsThere
  <2>6. \A y \in Years : <<y, 0>> \in Entries
    BY PeriodsAssumption DEF Entries, Sources
  <2> QED
    BY <1>2, <1>6, <2>4, <2>5, <2>6 DEF SumInv, MirrorsThere
<1>12. LedgerIsWhatStands'
  <2>1. PICK a \in Int : a = entry[e].amount
    BY <1>3 DEF SumInv, Numbers
  <2>2. \A f \in Entries : f # e /\ f # m => Standing'[f] = Standing[f]
    BY <1>6, StandingNext
  <2>3. ledger' = [ledger EXCEPT ![cmd[w].month] = @ + cmd[w].amount]
    BY <1>2 DEF Booked
  <2>4. CASE e[2] % 2 = 0
    <3>1. m[2] % 2 # 0
      BY <1>4, <2>4, Parity
    <3>2. Standing[e] = a /\ Standing'[e] = 0 /\ Standing[m] = 0 /\ Standing'[m] = 0
      BY <1>3, <1>5, <1>6, <2>1, <2>4, <3>1, StandingNext
    <3>3. Standing'[e] = Standing[e] + cmd[w].amount
      BY <1>5, <2>1, <3>2
    <3>4. \A f \in Entries \ {e} : Standing'[f] = Standing[f]
      BY <2>2, <3>2
    <3> QED
      BY <1>3, <1>7, <2>3, <3>3, <3>4, BookedSum DEF SumInv, IInv
  <2>5. CASE e[2] % 2 # 0
    <3>1. m[2] % 2 = 0
      BY <1>4, <2>5, Parity
    <3>2. Standing[e] = 0 /\ Standing'[e] = 0 /\ Standing[m] = 0 /\ Standing'[m] = cmd[w].amount
      BY <1>3, <1>5, <1>6, <2>1, <2>5, <3>1, StandingNext
    <3>3. Standing'[m] = Standing[m] + cmd[w].amount
      BY <1>5, <2>1, <3>2
    <3>4. \A f \in Entries \ {m} : Standing'[f] = Standing[f]
      BY <2>2, <3>2
    <3> QED
      BY <1>3, <1>7, <2>3, <3>3, <3>4, BookedSum DEF SumInv, IInv
  <2> QED
    BY <2>4, <2>5
<1> QED
  BY <1>7, <1>9, <1>10, <1>11, <1>12 DEF SumInv

\* The closing entry of a year is its first.
LEMMA CommitYearSums ==
  ASSUME IInv, IInv', SumInv, NEW w \in Workers, CommitYear(w)
  PROVE  SumInv'
<1>1. PICK y, e : y = cmd[w].entry[1] /\ e = <<y, 0>>
  OBVIOUS
<1>2. /\ cmd[w].op = "close year" /\ cmd[w].stage = "written" /\ Booked(w) /\ ~closed[y]
      /\ entry' = [entry EXCEPT ![e] = Posted(w)]
      /\ closed' = [closed EXCEPT ![y] = TRUE]
  BY <1>1 DEF CommitYear
<1>3. y \in Years /\ e \in Entries /\ e[2] = 0 /\ \A z \in Years : <<z, 0>> \in Entries
  <2>1. cmd[w].entry \in Years \X {0}
    BY <1>2 DEF IInv, Shape, WellFormed
  <2>2. y \in Years
    BY <1>1, <2>1
  <2> QED
    BY <1>1, <2>2, PeriodsAssumption DEF Entries, Sources
<1>4. \A f \in Entries : Mirror(f) # e
  BY <1>3 DEF Mirror, Entries
<1>5. entry[e].status = "none"
  BY <1>1, <1>2, <1>3 DEF SumInv, MirrorsThere
<1>6. /\ entry'[e].status = "POSTED" /\ entry'[e].amount = cmd[w].amount
      /\ \A f \in Entries \ {e} : entry'[f] = entry[f]
  BY <1>2, <1>3 DEF Posted, Entry, IInv, Shape
<1>7. /\ cmd'[w] = NoCommand /\ \A v \in Workers \ {w} : cmd'[v] = cmd[v]
      /\ Numbers' /\ Statuses' /\ RowsExclusive'
  BY <1>2, <1>6, Over DEF SumInv, Numbers, Statuses
<1>8. NoCommand.op = "none"
  BY DEF NoCommand
<1>9. PostsOnce'
  <2>1. \A v \in Workers : cmd[v].op = "post" => cmd[v].entry \in Entries /\ cmd[v].entry # e
    <3>1. \A f \in (Manual \cup Automatic) \X {0} : f # e
      BY <1>1, <1>3, PeriodsAssumption
    <3> QED
      BY <3>1, FirstOfSource DEF IInv, Shape, WellFormed
  <2>2. \A v \in Workers : cmd'[v].op = "post" => v # w /\ cmd'[v] = cmd[v]
    BY <1>7, <1>8
  <2> QED
    BY <1>6, <2>1, <2>2 DEF SumInv, PostsOnce, Unposted
<1>10. ReversesOnce'
  <2>1. \A v \in Workers : cmd'[v].op = "reverse" => v # w /\ cmd'[v] = cmd[v]
    BY <1>7, <1>8
  <2>2. \A v \in Workers : cmd[v].op = "reverse" =>
          /\ cmd[v].entry \in Entries /\ Mirror(cmd[v].entry) \in Entries
          /\ cmd[v].entry # e /\ Mirror(cmd[v].entry) # e
    BY <1>4, <1>5 DEF IInv, Shape, WellFormed, SumInv, ReversesOnce
  <2> QED
    BY <1>6, <2>1, <2>2 DEF SumInv, ReversesOnce
<1>11. MirrorsThere'
  <2>1. \A z \in Years : ~closed'[z] => ~closed[z] /\ z # y
    BY <1>2, <1>3 DEF IInv, Shape
  <2>2. \A z \in Years : z # y => <<z, 0>> # e
    BY <1>1
  <2>3. \A f \in Entries : entry'[f].status = "REVERSED" =>
          Mirror(f) \in Entries /\ entry'[Mirror(f)].status # "none"
    BY <1>4, <1>6 DEF SumInv, MirrorsThere
  <2> QED
    BY <1>3, <1>6, <2>1, <2>2, <2>3 DEF SumInv, MirrorsThere
<1>12. LedgerIsWhatStands'
  <2>1. e[2] % 2 = 0
    BY <1>3
  <2>2. Standing[e] = 0 /\ Standing'[e] = cmd[w].amount
    BY <1>3, <1>5, <1>6, <2>1, StandingNext
  <2>3. Standing'[e] = Standing[e] + cmd[w].amount
    BY <2>2 DEF SumInv, Numbers
  <2>4. \A f \in Entries \ {e} : Standing'[f] = Standing[f]
    BY <1>6, StandingNext
  <2> QED
    BY <1>2, <1>3, <1>7, <2>3, <2>4, BookedSum DEF Booked, SumInv, IInv
<1> QED
  BY <1>7, <1>9, <1>10, <1>11, <1>12 DEF SumInv

\* At first there are no entries.
LEMMA InitSums == Init => SumInv
<1> SUFFICES ASSUME Init PROVE SumInv
  OBVIOUS
<1>1. Shape
  BY InitInv DEF IInv
<1>2. NoCommand.op = "none" /\ NoCommand.amount = 0
  BY DEF NoCommand
<1>3. /\ \A m \in Months : ledger[m] = 0
      /\ \A e \in Entries : entry[e].status = "none" /\ entry[e].amount = 0
      /\ \A w \in Workers : cmd[w] = NoCommand
  BY DEF Init, Entry
<1>4. Numbers /\ Statuses /\ RowsExclusive /\ PostsOnce /\ ReversesOnce
  BY <1>2, <1>3 DEF Numbers, Statuses, RowsExclusive, HoldsRow, PostsOnce, ReversesOnce
<1>5. MirrorsThere
  <2>1. \A y \in Years : <<y, 0>> \in Entries
    BY PeriodsAssumption DEF Entries, Sources
  <2> QED
    BY <1>3, <2>1 DEF MirrorsThere
<1>6. LedgerIsWhatStands
  <2>1. \A e \in Entries : Standing[e] = 0
    BY <1>3 DEF Standing
  <2>2. SumFunctionOnSet(ledger, Months) = 0 /\ SumFunctionOnSet(Standing, Entries) = 0
    BY <1>3, <2>1, SetsFinite, SumOfZeros
  <2> QED
    BY <1>1, <2>2, LedgerSums
<1> QED
  BY <1>4, <1>5, <1>6 DEF SumInv

\* Nothing that the sums look at changes.
LEMMA StillSums ==
  ASSUME SumInv, UNCHANGED <<entry, ledger, closed, cmd>>
  PROVE  SumInv'
<1>1. entry' = entry /\ ledger' = ledger /\ closed' = closed /\ cmd' = cmd
  OBVIOUS
<1>2. Numbers' /\ Statuses' /\ PostsOnce' /\ ReversesOnce' /\ MirrorsThere'
  BY <1>1 DEF SumInv, Numbers, Statuses, PostsOnce, ReversesOnce, MirrorsThere
<1>3. RowsExclusive'
  BY <1>1 DEF SumInv, RowsExclusive, HoldsRow
<1>4. LedgerIsWhatStands'
  BY <1>1 DEF SumInv, LedgerIsWhatStands, InForce
<1> QED
  BY <1>2, <1>3, <1>4 DEF SumInv

\* Every step keeps the sums.
LEMMA NextSums == IInv /\ SumInv /\ [Next]_vars => SumInv'
<1> SUFFICES ASSUME IInv, SumInv, [Next]_vars PROVE SumInv'
  OBVIOUS
<1> IInv'
  BY NextInv
<1>1. CASE Tick
  BY <1>1, StillSums DEF Tick, books
<1>2. ASSUME NEW w \in Workers, Begin(w) PROVE SumInv'
  BY <1>2, BeginSums
<1>3. ASSUME NEW w \in Workers, Rollback(w) PROVE SumInv'
  BY <1>3, RollbackSums DEF Rollback, books
<1>4. ASSUME NEW w \in Workers, Step(w) PROVE SumInv'
  <2>1. CASE Count(w)
    BY <2>1, CountSums
  <2>2. CASE Write(w)
    BY <2>2, WriteSums
  <2>3. CASE Refuse(w)
    BY <1>3, <2>3 DEF Refuse
  <2>4. CASE CommitPost(w)
    BY <2>4, CommitPostSums
  <2>5. CASE CommitReverse(w)
    BY <2>5, CommitReverseSums
  <2>6. CASE CommitYear(w)
    BY <2>6, CommitYearSums
  <2>7. CASE YearTaken(w)
    BY <1>3, <2>7 DEF YearTaken
  <2>8. CASE CommitClose(w)
    BY <2>8, RollbackSums DEF CommitClose
  <2> QED
    BY <1>4, <2>1, <2>2, <2>3, <2>4, <2>5, <2>6, <2>7, <2>8 DEF Step
<1>5. ASSUME NEW w \in Workers, Fail(w) PROVE SumInv'
  BY <1>3, <1>5 DEF Fail
<1>6. CASE UNCHANGED vars
  BY <1>6, StillSums DEF vars, books
<1> QED
  BY <1>1, <1>2, <1>4, <1>5, <1>6 DEF Next

\* What the ledger has in all its months is the sum of the entries in force: an entry
\* is added once, and taken back once, by whichever of its two reversals comes first.
THEOREM LedgerAddsUp == Spec => []LedgerIsWhatStands
<1>1. Init => IInv /\ SumInv
  BY InitInv, InitSums
<1>2. IInv /\ SumInv /\ [Next]_vars => (IInv /\ SumInv)'
  BY NextInv, NextSums
<1>3. SumInv => LedgerIsWhatStands
  BY DEF SumInv
<1> QED
  BY <1>1, <1>2, <1>3, PTL DEF Spec
=============================================================================
