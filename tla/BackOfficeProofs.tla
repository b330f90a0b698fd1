--------------------------- MODULE BackOfficeProofs ---------------------------
(***************************************************************************)
(* Proofs about BackOffice: first that every row keeps its shape and every *)
(* command works on rows of its kind, then what the payroll runs apply,    *)
(* what the shifts count, and what a closed day has behind it.             *)
(***************************************************************************)
EXTENDS BackOffice, FiniteSetTheorems, TLAPS

Kinds ==
  /\ Shifts \subseteq Things /\ Movements \subseteq Things
  /\ Deliveries \subseteq Things /\ CashOnDelivery \subseteq Deliveries
  /\ Settlements \subseteq Things /\ Rounds \subseteq Things
  /\ Adjustments \subseteq Things /\ Runs \subseteq Things
  /\ Month \in Things /\ Day \in Things /\ Nothing \notin Things
  /\ IsFiniteSet(Things)

LEMMA KindsHold == Kinds
BY ClosingAssumption, ShiftAssumption, RoundAssumption, PayrollAssumption, DayAssumption
   DEF Kinds, Movements

\* How many things there are is a number.
LEMMA Numbers ==
  ASSUME NEW X, X \subseteq Things
  PROVE  Cardinality(X) \in Nat
BY KindsHold, FS_Subset, FS_CardinalityType DEF Kinds

LEMMA Bounds ==
  /\ OpeningCash \in Nat /\ MaxCash \in Nat /\ Tolerated \in Nat
  /\ MaxHanded \in Nat /\ Accepted \in Nat /\ MaxWage \in Nat /\ MaxNet \in Nat
BY ShiftAssumption, RoundAssumption, PayrollAssumption

-----------------------------------------------------------------------------
(* Types.                                                                   *)

JournalRows == [status : {"none", "POSTED", "REVERSED"}, amount : Int]

\* What a command of each kind works on.
Sound(c) ==
  /\ c.op = "entry" => c.doc \in Entries /\ c.picked \subseteq Shifts
  /\ c.op = "sale" => c.doc \in Sales
  /\ c.op = "close" => c.doc \in Shifts /\ c.picked \subseteq Movements
  /\ c.op \in {"status", "settle"} =>
       c.read \in [Deliveries -> DeliveryRows] /\ c.picked \subseteq Deliveries
  /\ c.op = "settle" => c.doc \in Settlements
  /\ c.op = "checkout" => c.doc \in Rounds /\ c.picked \subseteq Deliveries
  /\ c.op = "register" =>
       c.doc \in Runs /\ c.picked \subseteq Adjustments /\ c.under \subseteq Employees
  /\ c.op = "approve" => c.doc \in Runs

CmdOK == cmd \in [Workers -> Commands] /\ \A w \in Workers : Sound(cmd[w])

Shape == TypeOK /\ CmdOK

\* A command of a worker, and the end of it, is a command.
LEMMA CommandTyped ==
  ASSUME TypeOK, NEW op \in Ops, NEW doc \in Things,
         NEW read \in {Nothing} \cup [Deliveries -> DeliveryRows],
         NEW picked \in SUBSET Things, NEW locked \in SUBSET Things
  PROVE  /\ Command(op, doc, read, picked, locked) \in Commands
         /\ Command(op, doc, read, picked, locked).op = op
         /\ Command(op, doc, read, picked, locked).doc = doc
         /\ Command(op, doc, read, picked, locked).read = read
         /\ Command(op, doc, read, picked, locked).picked = picked
BY DEF TypeOK, Command, Commands

LEMMA BeginTyped ==
  ASSUME Shape, NEW w \in Workers, NEW c \in Commands, Sound(c), Begin(w, c)
  PROVE  CmdOK' /\ live' = live /\ journal' = journal
BY DEF Shape, CmdOK, Begin

LEMMA EndTyped ==
  ASSUME Shape, NEW w \in Workers, End(w)
  PROVE  CmdOK' /\ live' = live /\ clock' = clock
<1>1. NoCommand \in Commands /\ Sound(NoCommand)
  BY DEF NoCommand, Commands, Ops, Sound
<1> QED
  BY <1>1 DEF Shape, CmdOK, End

LEMMA TickTyped ==
  ASSUME TypeOK, Tick
  PROVE  clock' \in Nat /\ clock' = clock + 1
BY DEF TypeOK, Tick

LEMMA BookTyped ==
  ASSUME TypeOK, NEW x \in Things, NEW amount \in Int, Book(x, amount)
  PROVE  journal' \in [Things -> JournalRows]
BY DEF TypeOK, Book, JournalRows

LEMMA ShiftTypes ==
  ASSUME Shape, ShiftStep, UNCHANGED <<road, paper, day>>
  PROVE  Shape'
<1> USE KindsHold DEF Kinds
<1>0. /\ UNCHANGED <<delivery, settlement, round, raced, adjustment, run, unseen, day>>
      /\ TypeOK /\ CmdOK
  BY DEF road, paper, Shape
<1>1. ASSUME NEW s \in Shifts, ReviewShift(s) PROVE Shape'
  <2>1. shift[s].variance \in Int /\ s \in Things
    BY <1>0 DEF TypeOK, ShiftRows
  <2>2. journal' \in [Things -> JournalRows]
    BY <1>0, <1>1, <2>1, BookTyped DEF ReviewShift
  <2>3. shift \in [Shifts -> ShiftRows] /\ shift' = [shift EXCEPT ![s].status = "CLOSED"]
    BY <1>0, <1>1 DEF ReviewShift, TypeOK
  <2>4. shift' \in [Shifts -> ShiftRows]
    BY <2>3 DEF ShiftRows
  <2> QED
    BY <1>0, <1>1, <2>2, <2>4 DEF ReviewShift, TypeOK, JournalRows, Shape, CmdOK
<1>2. ASSUME NEW s \in Shifts, NEW c \in Cashiers, OpenShift(s, c) PROVE Shape'
  <2>1. clock' \in Nat
    BY <1>0, <1>2, TickTyped DEF OpenShift
  <2>2. shift' \in [Shifts -> ShiftRows]
    BY <1>0, <1>2, <2>1 DEF OpenShift, TypeOK, ShiftRows
  <2> QED
    BY <1>0, <1>2, <2>1, <2>2 DEF OpenShift, AtOnce, TypeOK, Shape, CmdOK
<1>3. ASSUME NEW x \in Sales, CancelSale(x) PROVE Shape'
  <2>0. /\ movement \in [Movements -> MovementRows] /\ x \in Movements
        /\ movement' = [movement EXCEPT ![x].status = "cancelled"]
    BY <1>0, <1>3 DEF CancelSale, TypeOK, Movements
  <2>1. movement' \in [Movements -> MovementRows]
    BY <2>0 DEF MovementRows
  <2> QED
    BY <1>0, <1>3, <2>1 DEF CancelSale, AtOnce, TypeOK, Shape, CmdOK
<1>4. ASSUME NEW w \in Workers, NEW e \in Entries, NEW s \in Shifts, EntryRead(w, e, s)
      PROVE Shape'
  <2> DEFINE c == Command("entry", e, Nothing, {s}, {})
  <2>1. c \in Commands /\ c.op = "entry" /\ c.doc = e /\ c.picked = {s}
    BY <1>0, CommandTyped DEF Ops, Movements
  <2>2. Begin(w, c)
    BY <1>4 DEF EntryRead
  <2> HIDE DEF c
  <2>3. Sound(c)
    BY <2>1 DEF Sound
  <2>4. CmdOK' /\ live' = live /\ journal' = journal
    BY <2>1, <2>2, <2>3, BeginTyped
  <2> QED
    BY <1>0, <1>4, <2>4 DEF EntryRead, drawer, TypeOK, Shape, CmdOK
<1>5. ASSUME NEW w \in Workers, EntryCommit(w) PROVE Shape'
  <2>0. cmd[w].doc \in Entries /\ cmd[w].picked \subseteq Shifts /\ cmd[w].since \in Nat
    BY <1>0, <1>5 DEF EntryCommit, CmdOK, Sound, Commands
  <2>1. PICK s \in cmd[w].picked, at \in cmd[w].since..clock :
          movement' = [movement EXCEPT ![cmd[w].doc] =
            [status |-> "in", cashier |-> shift[s].cashier, at |-> at, of |-> s,
             late |-> shift[s].status # "ACTIVE"]]
    BY <1>5 DEF EntryCommit
  <2>2. s \in Shifts /\ at \in Nat /\ shift[s].cashier \in Cashiers \cup {Nothing}
    BY <1>0, <2>0, <2>1 DEF TypeOK, ShiftRows
  <2>3. movement' \in [Movements -> MovementRows]
    BY <1>0, <2>1, <2>2 DEF TypeOK, MovementRows
  <2>4. journal' \in [Things -> JournalRows]
    BY <1>0, <1>5, <2>0, BookTyped DEF EntryCommit, Movements
  <2>5. CmdOK' /\ live' = live /\ clock' = clock
    BY <1>5, EndTyped DEF EntryCommit
  <2> QED
    BY <1>0, <1>5, <2>3, <2>4, <2>5 DEF EntryCommit, TypeOK, JournalRows, Shape, CmdOK
<1>6. ASSUME NEW w \in Workers, NEW x \in Sales, SaleRead(w, x) PROVE Shape'
  <2> DEFINE c == Command("sale", x, Nothing, {}, {})
  <2>1. c \in Commands /\ c.op = "sale" /\ c.doc = x
    BY <1>0, CommandTyped DEF Ops, Movements
  <2>2. Begin(w, c)
    BY <1>6 DEF SaleRead
  <2> HIDE DEF c
  <2>3. Sound(c)
    BY <2>1 DEF Sound
  <2>4. CmdOK' /\ live' = live /\ journal' = journal
    BY <2>1, <2>2, <2>3, BeginTyped
  <2> QED
    BY <1>0, <1>6, <2>4 DEF SaleRead, drawer, TypeOK, Shape, CmdOK
<1>7. ASSUME NEW w \in Workers, NEW c \in Cashiers, SaleCommit(w, c) PROVE Shape'
  <2>0. cmd[w].doc \in Sales /\ cmd[w].since \in Nat
    BY <1>0, <1>7 DEF SaleCommit, CmdOK, Sound, Commands
  <2>1. movement' \in [Movements -> MovementRows]
    BY <1>0, <1>7, <2>0 DEF SaleCommit, TypeOK, MovementRows
  <2>2. CmdOK' /\ live' = live /\ clock' = clock
    BY <1>7, EndTyped DEF SaleCommit
  <2> QED
    BY <1>0, <1>7, <2>1, <2>2 DEF SaleCommit, TypeOK, Shape, CmdOK
<1>8. ASSUME NEW w \in Workers, NEW s \in Shifts, CloseRead(w, s) PROVE Shape'
  <2> DEFINE c == Command("close", s, Nothing, Moved(s), {s})
  <2>0. Moved(s) \subseteq Movements
    BY DEF Moved
  <2>1. c \in Commands /\ c.op = "close" /\ c.doc = s /\ c.picked = Moved(s)
    BY <1>0, <2>0, CommandTyped DEF Ops
  <2>2. Begin(w, c) /\ clock' \in Nat
    BY <1>0, <1>8, TickTyped DEF CloseRead
  <2> HIDE DEF c
  <2>3. Sound(c)
    BY <2>0, <2>1 DEF Sound
  <2>4. CmdOK' /\ live' = live /\ journal' = journal
    BY <2>1, <2>2, <2>3, BeginTyped
  <2> QED
    BY <1>0, <1>8, <2>2, <2>4 DEF CloseRead, drawer, TypeOK, Shape, CmdOK
<1>9. ASSUME NEW w \in Workers, CloseCommit(w) PROVE Shape'
  <2>0. cmd[w].doc \in Shifts /\ cmd[w].picked \subseteq Movements /\ cmd[w].since \in Nat
    BY <1>0, <1>9 DEF CloseCommit, CmdOK, Sound, Commands
  <2>1. Expected(cmd[w].picked) \in Int
    <3>1. /\ Cardinality(cmd[w].picked \cap Sales) \in Nat
          /\ Cardinality(cmd[w].picked \cap Entries) \in Nat
      BY <2>0, Numbers
    <3> QED
      BY <3>1, Bounds DEF Expected
  <2>2. PICK variance \in Int, status \in {"CLOSED", "PENDING_REVIEW"}, amount \in Int :
          /\ shift' = [shift EXCEPT ![cmd[w].doc].status = status,
                                    ![cmd[w].doc].until = cmd[w].since,
                                    ![cmd[w].doc].counted = cmd[w].picked,
                                    ![cmd[w].doc].variance = variance]
          /\ Book(cmd[w].doc, amount)
    <3> DEFINE variance(cash) == cash - Expected(cmd[w].picked)
    <3>1. PICK cash \in 0..MaxCash :
            /\ shift' = [shift EXCEPT
                 ![cmd[w].doc].status =
                   IF Within(variance(cash), Tolerated) THEN "CLOSED" ELSE "PENDING_REVIEW",
                 ![cmd[w].doc].until = cmd[w].since,
                 ![cmd[w].doc].counted = cmd[w].picked,
                 ![cmd[w].doc].variance = variance(cash)]
            /\ Book(cmd[w].doc, IF Within(variance(cash), Tolerated) THEN variance(cash) ELSE 0)
      BY <1>9 DEF CloseCommit
    <3>2. variance(cash) \in Int
      BY <2>1, <3>1, Bounds
    <3> HIDE DEF variance
    <3>3. (IF Within(variance(cash), Tolerated) THEN variance(cash) ELSE 0) \in Int
      BY <3>2
    <3> QED
      BY <3>1, <3>2, <3>3
  <2>3. shift \in [Shifts -> ShiftRows]
    BY <1>0 DEF TypeOK
  <2>4. shift' \in [Shifts -> ShiftRows]
    BY <2>0, <2>2, <2>3 DEF ShiftRows
  <2>5. journal' \in [Things -> JournalRows]
    BY <1>0, <2>0, <2>2, BookTyped
  <2>6. CmdOK' /\ live' = live /\ clock' = clock
    BY <1>9, EndTyped DEF CloseCommit
  <2> QED
    BY <1>0, <1>9, <2>4, <2>5, <2>6 DEF CloseCommit, TypeOK, JournalRows, Shape, CmdOK
<1> QED
  BY <1>1, <1>2, <1>3, <1>4, <1>5, <1>6, <1>7, <1>8, <1>9 DEF ShiftStep

LEMMA DriverTypes ==
  ASSUME Shape, DriverStep, UNCHANGED <<drawer, paper, day>>
  PROVE  Shape'
<1> USE KindsHold DEF Kinds
<1>0. /\ UNCHANGED <<shift, movement, adjustment, run, unseen, day>>
      /\ TypeOK /\ CmdOK
  BY DEF drawer, paper, Shape
<1>1. ASSUME NEW d \in Deliveries, NEW r \in Drivers, Assign(d, r) PROVE Shape'
  <2>1. /\ delivery \in [Deliveries -> DeliveryRows]
        /\ delivery' = [delivery EXCEPT ![d].status = "ASSIGNED", ![d].driver = r]
    BY <1>0, <1>1 DEF Assign, TypeOK
  <2>2. delivery' \in [Deliveries -> DeliveryRows]
    BY <2>1 DEF DeliveryRows
  <2> QED
    BY <1>0, <1>1, <2>2 DEF Assign, AtOnce, TypeOK, Shape, CmdOK
<1>2. ASSUME NEW t \in Settlements, ReviewSettlement(t) PROVE Shape'
  <2>1. /\ settlement \in [Settlements -> SettlementRows]
        /\ settlement' = [settlement EXCEPT ![t].status = "REVIEWED"]
    BY <1>0, <1>2 DEF ReviewSettlement, TypeOK
  <2>2. settlement' \in [Settlements -> SettlementRows]
    BY <2>1 DEF SettlementRows
  <2> QED
    BY <1>0, <1>2, <2>2 DEF ReviewSettlement, AtOnce, TypeOK, Shape, CmdOK
<1>3. ASSUME NEW k \in Rounds, NEW r \in Drivers, CheckIn(k, r) PROVE Shape'
  <2>1. clock' \in Nat
    BY <1>0, <1>3, TickTyped DEF CheckIn
  <2>2. round' \in [Rounds -> RoundRows]
    BY <1>0, <1>3, <2>1 DEF CheckIn, TypeOK, RoundRows
  <2> QED
    BY <1>0, <1>3, <2>1, <2>2 DEF CheckIn, AtOnce, TypeOK, Shape, CmdOK
<1>4. ASSUME NEW X \in SUBSET Deliveries PROVE ReadOf(X) \in [Deliveries -> DeliveryRows]
  BY <1>0 DEF ReadOf, TypeOK, NoDelivery, DeliveryRows
<1>5. ASSUME NEW w \in Workers, NEW d \in Deliveries, StatusRead(w, d) PROVE Shape'
  <2>0. PICK X \in SUBSET Deliveries : X = {d}
    OBVIOUS
  <2> DEFINE c == Command("status", d, ReadOf(X), X, {})
  <2>1. /\ c \in Commands /\ c.op = "status" /\ c.doc = d
        /\ c.read = ReadOf(X) /\ c.picked = X
    BY <1>0, <1>4, CommandTyped DEF Ops
  <2>2. Begin(w, c)
    BY <1>5, <2>0 DEF StatusRead
  <2> HIDE DEF c
  <2>3. Sound(c)
    BY <1>4, <2>1 DEF Sound
  <2>4. CmdOK' /\ live' = live /\ journal' = journal
    BY <2>1, <2>2, <2>3, BeginTyped
  <2> QED
    BY <1>0, <1>5, <2>4 DEF StatusRead, road, TypeOK, Shape, CmdOK
<1>6. ASSUME NEW w \in Workers, cmd[w].picked \subseteq Deliveries,
             NEW new \in [Deliveries -> DeliveryRows], SaveOver(w, new)
      PROVE  delivery' \in [Deliveries -> DeliveryRows] /\ raced' \subseteq Deliveries
  BY <1>0, <1>6 DEF SaveOver, TypeOK
<1>7. ASSUME NEW w \in Workers, StatusCommit(w) PROVE Shape'
  <2>0. /\ cmd[w].read \in [Deliveries -> DeliveryRows] /\ cmd[w].picked \subseteq Deliveries
        /\ cmd[w].since \in Nat
    BY <1>0, <1>7 DEF StatusCommit, CmdOK, Sound, Commands
  <2>1. PICK status \in {"ASSIGNED", "DELIVERED", "FAILED"}, at \in cmd[w].since..clock :
          SaveOver(w, [d \in Deliveries |->
            [cmd[w].read[d] EXCEPT !.status = status,
                                   !.at = IF status = "DELIVERED" THEN at ELSE @]])
    BY <1>7 DEF StatusCommit
  <2> DEFINE new == [d \in Deliveries |->
            [cmd[w].read[d] EXCEPT !.status = status,
                                   !.at = IF status = "DELIVERED" THEN at ELSE @]]
  <2>2. new \in [Deliveries -> DeliveryRows]
    <3> SUFFICES ASSUME NEW d \in Deliveries
                 PROVE  [cmd[w].read[d] EXCEPT !.status = status,
                           !.at = IF status = "DELIVERED" THEN at ELSE @] \in DeliveryRows
      OBVIOUS
    <3>1. cmd[w].read[d] \in DeliveryRows
      BY <2>0
    <3>2. at \in Nat
      <4>1. clock \in Nat /\ cmd[w].since \in Nat /\ at \in cmd[w].since..clock
        BY <1>0, <2>0, <2>1 DEF TypeOK
      <4> HIDE <2>1
      <4> QED
        BY <4>1
    <3> QED
      BY <3>1, <3>2 DEF DeliveryRows
  <2>3. SaveOver(w, new)
    BY <2>1
  <2> HIDE DEF new
  <2>4. delivery' \in [Deliveries -> DeliveryRows] /\ raced' \subseteq Deliveries
    BY <1>6, <2>0, <2>2, <2>3
  <2>5. CmdOK' /\ live' = live /\ clock' = clock
    BY <1>7, EndTyped DEF StatusCommit
  <2> QED
    BY <1>0, <1>7, <2>4, <2>5 DEF StatusCommit, TypeOK, Shape, CmdOK
<1>8. ASSUME NEW w \in Workers, NEW t \in Settlements, NEW r \in Drivers, SettleRead(w, t, r)
      PROVE Shape'
  <2> DEFINE c == Command("settle", t, ReadOf(Unsettled(r)), Unsettled(r), {})
  <2>0. ReadOf(Unsettled(r)) \in [Deliveries -> DeliveryRows] /\ Unsettled(r) \subseteq Deliveries
    BY <1>4 DEF Unsettled
  <2>1. /\ c \in Commands /\ c.op = "settle" /\ c.doc = t
        /\ c.read = ReadOf(Unsettled(r)) /\ c.picked = Unsettled(r)
    BY <1>0, <2>0, CommandTyped DEF Ops
  <2>2. Begin(w, c)
    BY <1>8 DEF SettleRead
  <2> HIDE DEF c
  <2>3. Sound(c)
    BY <2>0, <2>1 DEF Sound
  <2>4. CmdOK' /\ live' = live /\ journal' = journal
    BY <2>1, <2>2, <2>3, BeginTyped
  <2> QED
    BY <1>0, <1>8, <2>4 DEF SettleRead, road, TypeOK, Shape, CmdOK
<1>9. ASSUME NEW w \in Workers, SettleCommit(w) PROVE Shape'
  <2>0. /\ cmd[w].read \in [Deliveries -> DeliveryRows] /\ cmd[w].picked \subseteq Deliveries
        /\ cmd[w].doc \in Settlements
    BY <1>0, <1>9 DEF SettleCommit, CmdOK, Sound
  <2>1. Cardinality(cmd[w].picked \cap CashOnDelivery) \in Nat
    BY <2>0, Numbers
  <2>2. PICK variance \in Int, status \in {"NONE", "PENDING_REVIEW"} :
          /\ settlement' = [settlement EXCEPT ![cmd[w].doc] =
               [status |-> status, orders |-> cmd[w].picked, variance |-> variance]]
          /\ Book(cmd[w].doc, variance)
    <3> DEFINE variance(n) == n - Cardinality(cmd[w].picked \cap CashOnDelivery)
    <3>1. PICK handed \in 0..MaxHanded :
            /\ settlement' = [settlement EXCEPT ![cmd[w].doc] =
                 [status |-> IF Within(variance(handed), Accepted) THEN "NONE" ELSE "PENDING_REVIEW",
                  orders |-> cmd[w].picked, variance |-> variance(handed)]]
            /\ Book(cmd[w].doc, variance(handed))
      BY <1>9 DEF SettleCommit
    <3>2. variance(handed) \in Int
      BY <2>1, <3>1, Bounds
    <3> HIDE DEF variance
    <3> QED
      BY <3>1, <3>2
  <2>3. settlement' \in [Settlements -> SettlementRows]
    BY <1>0, <2>0, <2>2 DEF TypeOK, SettlementRows
  <2>4. journal' \in [Things -> JournalRows]
    BY <1>0, <2>0, <2>2, BookTyped
  <2> DEFINE new == [d \in Deliveries |-> [cmd[w].read[d] EXCEPT !.settlement = cmd[w].doc]]
  <2>5. new \in [Deliveries -> DeliveryRows]
    BY <2>0 DEF DeliveryRows
  <2>6. SaveOver(w, new)
    BY <1>9 DEF SettleCommit
  <2> HIDE DEF new
  <2>7. delivery' \in [Deliveries -> DeliveryRows] /\ raced' \subseteq Deliveries
    BY <1>6, <2>0, <2>5, <2>6
  <2>8. CmdOK' /\ live' = live /\ clock' = clock
    BY <1>9, EndTyped DEF SettleCommit
  <2> QED
    BY <1>0, <1>9, <2>3, <2>4, <2>7, <2>8 DEF SettleCommit, TypeOK, JournalRows, Shape, CmdOK
<1>10. ASSUME NEW w \in Workers, NEW k \in Rounds, CheckOutRead(w, k) PROVE Shape'
  <2> DEFINE X == {d \in Deliveries : /\ delivery[d].status = "DELIVERED"
                                      /\ delivery[d].driver = round[k].driver
                                      /\ delivery[d].at >= round[k].from}
             c == Command("checkout", k, Nothing, X, {k})
  <2>0. X \subseteq Deliveries
    OBVIOUS
  <2> HIDE DEF X
  <2>1. c \in Commands /\ c.op = "checkout" /\ c.doc = k /\ c.picked = X
    BY <1>0, <2>0, CommandTyped DEF Ops
  <2>2. Begin(w, c)
    BY <1>10 DEF CheckOutRead, X
  <2> HIDE DEF c
  <2>3. Sound(c)
    BY <2>0, <2>1 DEF Sound
  <2>4. CmdOK' /\ live' = live /\ journal' = journal
    BY <2>1, <2>2, <2>3, BeginTyped
  <2> QED
    BY <1>0, <1>10, <2>4 DEF CheckOutRead, road, TypeOK, Shape, CmdOK
<1>11. ASSUME NEW w \in Workers, CheckOutCommit(w) PROVE Shape'
  <2>0. cmd[w].picked \subseteq Deliveries /\ cmd[w].doc \in Rounds
    BY <1>0, <1>11 DEF CheckOutCommit, CmdOK, Sound
  <2>1. Cardinality(cmd[w].picked) \in Nat
    BY <2>0, Numbers
  <2>2. PICK pay \in Nat :
          /\ round' = [round EXCEPT ![cmd[w].doc].status = "CLOSED",
                                    ![cmd[w].doc].counted = cmd[w].picked,
                                    ![cmd[w].doc].pay = pay]
          /\ Book(cmd[w].doc, pay)
    <3>1. PICK wage \in 0..MaxWage :
            /\ round' = [round EXCEPT ![cmd[w].doc].status = "CLOSED",
                                      ![cmd[w].doc].counted = cmd[w].picked,
                                      ![cmd[w].doc].pay = wage + Cardinality(cmd[w].picked)]
            /\ Book(cmd[w].doc, wage + Cardinality(cmd[w].picked))
      BY <1>11 DEF CheckOutCommit
    <3>2. wage + Cardinality(cmd[w].picked) \in Nat
      BY <2>1, <3>1, Bounds
    <3> QED
      BY <3>1, <3>2
  <2>3. round \in [Rounds -> RoundRows]
    BY <1>0 DEF TypeOK
  <2>4. round' \in [Rounds -> RoundRows]
    BY <2>0, <2>2, <2>3 DEF RoundRows
  <2>5. journal' \in [Things -> JournalRows]
    BY <1>0, <2>0, <2>2, BookTyped
  <2>6. CmdOK' /\ live' = live /\ clock' = clock
    BY <1>11, EndTyped DEF CheckOutCommit
  <2> QED
    BY <1>0, <1>11, <2>4, <2>5, <2>6 DEF CheckOutCommit, TypeOK, JournalRows, Shape, CmdOK
<1> QED
  BY <1>1, <1>2, <1>3, <1>5, <1>7, <1>8, <1>9, <1>10, <1>11 DEF DriverStep

LEMMA PayrollTypes ==
  ASSUME Shape, PayrollStep, UNCHANGED <<drawer, road, day>>
  PROVE  Shape'
<1> USE KindsHold DEF Kinds
<1>0. /\ UNCHANGED <<shift, movement, delivery, settlement, round, raced, day>>
      /\ TypeOK /\ CmdOK
      /\ adjustment \in [Adjustments -> [status : {"none", "ACTIVE", "CANCELLED"},
                                        run : Runs \cup {Nothing}]]
      /\ run \in [Runs -> RunRows] /\ unseen \subseteq Adjustments
  BY DEF drawer, road, Shape, TypeOK
<1>1. ASSUME NEW a \in Adjustments, RegisterAdjustment(a) PROVE Shape'
  <2>1. /\ adjustment' = [adjustment EXCEPT ![a].status = "ACTIVE"]
        /\ unseen' \subseteq Adjustments
    BY <1>0, <1>1 DEF RegisterAdjustment
  <2>2. adjustment' \in [Adjustments -> [status : {"none", "ACTIVE", "CANCELLED"},
                                        run : Runs \cup {Nothing}]]
    BY <1>0, <2>1
  <2> QED
    BY <1>0, <1>1, <2>1, <2>2 DEF RegisterAdjustment, AtOnce, TypeOK, Shape, CmdOK
<1>2. ASSUME NEW a \in Adjustments, CancelAdjustment(a) PROVE Shape'
  <2>1. adjustment' = [adjustment EXCEPT ![a].status = "CANCELLED"]
    BY <1>2 DEF CancelAdjustment
  <2>2. adjustment' \in [Adjustments -> [status : {"none", "ACTIVE", "CANCELLED"},
                                        run : Runs \cup {Nothing}]]
    BY <1>0, <2>1
  <2> QED
    BY <1>0, <1>2, <2>2 DEF CancelAdjustment, AtOnce, TypeOK, Shape, CmdOK
<1>3. ASSUME NEW p \in Runs
      PROVE  Unlinked(p) \in [Adjustments -> [status : {"none", "ACTIVE", "CANCELLED"},
                                             run : Runs \cup {Nothing}]]
  <2> SUFFICES ASSUME NEW a \in Adjustments
               PROVE  [adjustment[a] EXCEPT !.run = Nothing]
                        \in [status : {"none", "ACTIVE", "CANCELLED"}, run : Runs \cup {Nothing}]
    BY <1>0 DEF Unlinked
  <2> QED
    BY <1>0
<1>4. ASSUME NEW p \in Runs, CancelRun(p) PROVE Shape'
  <2>1. run' = [run EXCEPT ![p].status = "CANCELLED"]
    BY <1>4 DEF CancelRun
  <2>2. run' \in [Runs -> RunRows]
    BY <1>0, <2>1 DEF RunRows
  <2>3. journal \in [Things -> JournalRows] /\ p \in Things
    BY <1>0 DEF TypeOK, JournalRows
  <2>4. journal' \in [Things -> JournalRows]
    BY <1>4, <2>3 DEF CancelRun, Reverse, JournalRows
  <2> QED
    BY <1>0, <1>3, <1>4, <2>2, <2>4 DEF CancelRun, TypeOK, JournalRows, Shape, CmdOK
<1>5. ASSUME NEW p \in Runs, DeleteDraft(p) PROVE Shape'
  <2>1. run' = [run EXCEPT ![p] = [NoRun EXCEPT !.status = "DELETED"]]
    BY <1>5 DEF DeleteDraft
  <2>2. run' \in [Runs -> RunRows]
    BY <1>0, <2>1 DEF RunRows, NoRun
  <2> QED
    BY <1>0, <1>3, <1>5, <2>2 DEF DeleteDraft, AtOnce, TypeOK, Shape, CmdOK
<1>6. ASSUME NEW w \in Workers, NEW p \in Runs, NEW staff \in SUBSET Employees,
             RegisterRead(w, p, staff)
      PROVE Shape'
  <2> DEFINE b == Command("register", p, Nothing, Eligible(staff), Eligible(staff) \cup {Month})
             c == [b EXCEPT !.under = staff]
  <2>0. Eligible(staff) \subseteq Adjustments
    BY DEF Eligible
  <2>1. /\ b \in Commands /\ b.op = "register" /\ b.doc = p /\ b.picked = Eligible(staff)
    BY <1>0, <2>0, CommandTyped DEF Ops
  <2>2. Begin(w, c)
    BY <1>6 DEF RegisterRead
  <2> HIDE DEF b
  <2>3. /\ c \in Commands /\ c.op = "register" /\ c.doc = p /\ c.picked = Eligible(staff)
        /\ c.under = staff
    BY <2>1 DEF Commands
  <2> HIDE DEF c
  <2>4. Sound(c)
    BY <2>0, <2>3 DEF Sound
  <2>5. CmdOK' /\ live' = live /\ journal' = journal
    BY <2>2, <2>3, <2>4, BeginTyped
  <2> QED
    BY <1>0, <1>6, <2>5 DEF RegisterRead, paper, TypeOK, Shape, CmdOK
<1>7. ASSUME NEW w \in Workers, RegisterCommit(w) PROVE Shape'
  <2>0. /\ cmd[w].doc \in Runs /\ cmd[w].picked \subseteq Adjustments
        /\ cmd[w].under \subseteq Employees
    BY <1>0, <1>7 DEF RegisterCommit, CmdOK, Sound
  <2>1. PICK net \in 0..MaxNet, u \in Users :
          run' = [run EXCEPT ![cmd[w].doc] =
            [status |-> "DRAFT", staff |-> cmd[w].under, applied |-> cmd[w].picked,
             net |-> net, by |-> u]]
    BY <1>7 DEF RegisterCommit
  <2>2. run' \in [Runs -> RunRows]
    BY <1>0, <2>0, <2>1, Bounds DEF RunRows
  <2>3. adjustment' \in [Adjustments -> [status : {"none", "ACTIVE", "CANCELLED"},
                                        run : Runs \cup {Nothing}]]
    <3>1. ASSUME NEW a \in Adjustments
          PROVE  [adjustment[a] EXCEPT !.run = cmd[w].doc]
                   \in [status : {"none", "ACTIVE", "CANCELLED"}, run : Runs \cup {Nothing}]
      BY <1>0, <2>0
    <3>2. adjustment' = [a \in Adjustments |->
            IF a \in cmd[w].picked THEN [adjustment[a] EXCEPT !.run = cmd[w].doc]
            ELSE adjustment[a]]
      BY <1>7 DEF RegisterCommit
    <3> QED
      BY <1>0, <3>1, <3>2
  <2>4. CmdOK' /\ live' = live /\ clock' = clock
    BY <1>7, EndTyped DEF RegisterCommit
  <2> QED
    BY <1>0, <1>7, <2>2, <2>3, <2>4 DEF RegisterCommit, TypeOK, Shape, CmdOK
<1>8. ASSUME NEW w \in Workers, NEW p \in Runs, NEW u \in Users, ApproveRead(w, p, u)
      PROVE Shape'
  <2> DEFINE c == Command("approve", p, Nothing, {}, {p})
  <2>1. c \in Commands /\ c.op = "approve" /\ c.doc = p
    BY <1>0, CommandTyped DEF Ops
  <2>2. Begin(w, c)
    BY <1>8 DEF ApproveRead
  <2> HIDE DEF c
  <2>3. Sound(c)
    BY <2>1 DEF Sound
  <2>4. CmdOK' /\ live' = live /\ journal' = journal
    BY <2>1, <2>2, <2>3, BeginTyped
  <2> QED
    BY <1>0, <1>8, <2>4 DEF ApproveRead, paper, TypeOK, Shape, CmdOK
<1>9. ASSUME NEW w \in Workers, ApproveCommit(w) PROVE Shape'
  <2>0. cmd[w].doc \in Runs /\ run' = [run EXCEPT ![cmd[w].doc].status = "APPROVED"]
    BY <1>0, <1>9 DEF ApproveCommit, CmdOK, Sound
  <2>1. run' \in [Runs -> RunRows]
    BY <1>0, <2>0 DEF RunRows
  <2>2. journal' \in [Things -> JournalRows]
    <3>1. run[cmd[w].doc].net \in Int
      BY <1>0, <2>0 DEF RunRows
    <3> QED
      BY <1>0, <1>9, <2>0, <3>1, BookTyped DEF ApproveCommit
  <2>3. CmdOK' /\ live' = live /\ clock' = clock
    BY <1>9, EndTyped DEF ApproveCommit
  <2> QED
    BY <1>0, <1>9, <2>1, <2>2, <2>3 DEF ApproveCommit, TypeOK, JournalRows, Shape, CmdOK
<1> QED
  BY <1>1, <1>2, <1>4, <1>5, <1>6, <1>7, <1>8, <1>9 DEF PayrollStep

LEMMA AskingTyped ==
  ASSUME Shape, NEW w \in Workers, NEW to \in {"dayPending", "dayDrivers", "dayInsert"},
         NEW picked \in SUBSET Things,
         cmd' = [cmd EXCEPT ![w].op = to, ![w].picked = picked]
  PROVE  CmdOK'
<1>1. cmd \in [Workers -> Commands]
  BY DEF Shape, CmdOK
<1>2. cmd' \in [Workers -> Commands]
  <2>1. [cmd[w] EXCEPT !.op = to, !.picked = picked] \in Commands
    <3>1. cmd[w] \in Commands /\ to \in Ops
      BY <1>1 DEF Ops
    <3> QED
      BY <3>1 DEF Commands
  <2>2. cmd' = [cmd EXCEPT ![w] = [cmd[w] EXCEPT !.op = to, !.picked = picked]]
    BY <1>1
  <2> QED
    BY <1>1, <2>1, <2>2
<1>3. ASSUME NEW v \in Workers PROVE Sound(cmd'[v])
  <2>1. CASE v = w
    <3>1. cmd'[v].op = to
      BY <1>1, <2>1 DEF Commands
    <3> QED
      BY <3>1 DEF Sound
  <2>2. CASE v # w
    BY <1>1, <2>2 DEF Shape, CmdOK
  <2> QED
    BY <2>1, <2>2
<1> QED
  BY <1>2, <1>3 DEF CmdOK

LEMMA DayTypes ==
  ASSUME Shape, DayStep
  PROVE  Shape'
<1> USE KindsHold DEF Kinds
<1>0. TypeOK /\ CmdOK
  BY DEF Shape
<1>1. ASSUME NEW w \in Workers, DayActive(w) PROVE Shape'
  <2> DEFINE b == Command("dayTotal", Day, Nothing, {}, {})
             c == [b EXCEPT !.under = InState("PENDING_REVIEW") \cup OnTheRoad]
  <2>0. InState("PENDING_REVIEW") \cup OnTheRoad \subseteq Things
    BY DEF InState, OnTheRoad
  <2>1. b \in Commands /\ b.op = "dayTotal"
    BY <1>0, CommandTyped DEF Ops
  <2>2. Begin(w, c)
    BY <1>1 DEF DayActive
  <2> HIDE DEF b
  <2>3. c \in Commands /\ c.op = "dayTotal"
    BY <2>0, <2>1 DEF Commands
  <2> HIDE DEF c
  <2>4. Sound(c)
    BY <2>3 DEF Sound
  <2>5. CmdOK' /\ live' = live /\ journal' = journal
    BY <2>2, <2>3, <2>4, BeginTyped
  <2> QED
    BY <1>0, <1>1, <2>5 DEF DayActive, drawer, road, paper, TypeOK, Shape, CmdOK
<1>2. ASSUME NEW w \in Workers, DayTotal(w) PROVE Shape'
  <2>1. InState("CLOSED") \subseteq Things
    BY DEF InState
  <2>2. CmdOK'
    BY <1>2, <2>1, AskingTyped DEF DayTotal
  <2> QED
    BY <1>0, <1>2, <2>2 DEF DayTotal, drawer, road, paper, TypeOK, Shape, CmdOK
<1>3. ASSUME NEW w \in Workers, DayPending(w) \/ DayDrivers(w) PROVE Shape'
  <2>1. PICK to \in {"dayDrivers", "dayInsert"} : cmd' = [cmd EXCEPT ![w].op = to]
    BY <1>3 DEF DayPending, DayDrivers, Asking
  <2>2. cmd' = [cmd EXCEPT ![w].op = to, ![w].picked = cmd[w].picked] /\ cmd[w].picked \subseteq Things
    BY <1>0, <2>1 DEF CmdOK, Commands
  <2>3. CmdOK'
    BY <2>2, AskingTyped
  <2> QED
    BY <1>0, <1>3, <2>3 DEF DayPending, DayDrivers, Asking, drawer, road, paper, TypeOK, Shape, CmdOK
<1>4. ASSUME NEW w \in Workers, DayInsert(w) PROVE Shape'
  <2>1. /\ cmd[w].since \in Nat /\ cmd[w].picked \subseteq Things
        /\ cmd[w].under \subseteq Things \cup Employees
    BY <1>0 DEF CmdOK, Commands
  <2>2. CmdOK' /\ live' = live /\ clock' = clock
    BY <1>4, EndTyped DEF DayInsert
  <2> QED
    BY <1>0, <1>4, <2>1, <2>2 DEF DayInsert, drawer, road, paper, TypeOK, Shape, CmdOK
<1> QED
  BY <1>1, <1>2, <1>3, <1>4 DEF DayStep

LEMMA AbandonTypes ==
  ASSUME Shape, NEW w \in Workers, Abandon(w), UNCHANGED <<drawer, road, paper, day>>
  PROVE  Shape'
<1>1. CmdOK' /\ live' = live /\ clock' = clock /\ journal' = journal
  BY EndTyped DEF Abandon
<1> QED
  BY <1>1 DEF drawer, road, paper, Shape, TypeOK, CmdOK

LEMMA StutterTypes ==
  ASSUME Shape, UNCHANGED vars
  PROVE  Shape'
BY DEF vars, drawer, road, paper, Shape, TypeOK, CmdOK

LEMMA InitShape == Init => Shape
<1> USE KindsHold DEF Kinds
<1>1. NoCommand \in Commands /\ Sound(NoCommand)
  BY DEF NoCommand, Commands, Ops, Sound
<1> QED
  BY <1>1, ClosingAssumption DEF Init, Shape, TypeOK, CmdOK, NoEntry, NoShift, ShiftRows,
     NoMovement, MovementRows, NoDelivery, DeliveryRows, NoSettlement, SettlementRows,
     NoRound, RoundRows, NoAdjustment, NoRun, RunRows, OpenDay

\* Every step of the back office keeps the types.
LEMMA NextShape == Shape /\ [Next]_vars => Shape'
BY ShiftTypes, DriverTypes, PayrollTypes, DayTypes, AbandonTypes, StutterTypes DEF Next

\* TypeOK: a step of the shifts, the drivers, the payroll or the day writes rows of
\* their tables.
THEOREM TypesHold == Spec => []TypeOK
<1>1. Init => Shape
  BY InitShape
<1>2. Shape /\ [Next]_vars => Shape'
  BY NextShape
<1>3. Shape => TypeOK
  BY DEF Shape
<1> QED
  BY <1>1, <1>2, <1>3, PTL DEF Spec

-----------------------------------------------------------------------------

(* What a step does to the commands: one begins, one ends, one goes on, or  *)
(* none is touched.                                                         *)

Begins(ops) ==
  \E w \in Workers : \E c : Begin(w, c) /\ c.op \in ops /\ c.since = clock

Ends == \E w \in Workers : End(w)

GoesOn ==
  \E w \in Workers, to \in {"dayPending", "dayDrivers", "dayInsert"} : \E picked :
    cmd' = [cmd EXCEPT ![w].op = to, ![w].picked = picked]

LEMMA ShiftMoves ==
  ASSUME Shape, ShiftStep
  PROVE  Begins({"entry", "sale", "close"}) \/ Ends \/ UNCHANGED cmd
<1>1. ASSUME NEW w \in Workers, NEW op, NEW doc, NEW picked, NEW locked,
             Begin(w, Command(op, doc, Nothing, picked, locked)),
             op \in {"entry", "sale", "close"}
      PROVE  Begins({"entry", "sale", "close"})
  <2>1. /\ Command(op, doc, Nothing, picked, locked).op = op
        /\ Command(op, doc, Nothing, picked, locked).since = clock
    BY DEF Command
  <2> QED
    BY <1>1, <2>1 DEF Begins
<1>2. CASE \E s \in Shifts : ReviewShift(s) \/ \E c \in Cashiers : OpenShift(s, c)
  BY <1>2 DEF ReviewShift, OpenShift, AtOnce
<1>3. CASE \E x \in Sales : CancelSale(x)
  BY <1>3 DEF CancelSale, AtOnce
<1>4. ASSUME NEW w \in Workers,
             \/ \E e \in Entries, s \in Shifts : EntryRead(w, e, s)
             \/ \E x \in Sales : SaleRead(w, x)
             \/ \E s \in Shifts : CloseRead(w, s)
      PROVE  Begins({"entry", "sale", "close"})
  BY <1>1, <1>4 DEF EntryRead, SaleRead, CloseRead
<1>5. ASSUME NEW w \in Workers,
             EntryCommit(w) \/ (\E c \in Cashiers : SaleCommit(w, c)) \/ CloseCommit(w)
      PROVE  Ends
  BY <1>5 DEF EntryCommit, SaleCommit, CloseCommit, Ends
<1> QED
  BY <1>2, <1>3, <1>4, <1>5 DEF ShiftStep

LEMMA DriverMoves ==
  ASSUME Shape, DriverStep
  PROVE  Begins({"status", "settle", "checkout"}) \/ Ends \/ UNCHANGED cmd
<1>1. ASSUME NEW w \in Workers, NEW op, NEW doc, NEW read, NEW picked, NEW locked,
             Begin(w, Command(op, doc, read, picked, locked)),
             op \in {"status", "settle", "checkout"}
      PROVE  Begins({"status", "settle", "checkout"})
  <2>1. /\ Command(op, doc, read, picked, locked).op = op
        /\ Command(op, doc, read, picked, locked).since = clock
    BY DEF Command
  <2> QED
    BY <1>1, <2>1 DEF Begins
<1>2. ASSUME \/ \E d \in Deliveries, r \in Drivers : Assign(d, r)
             \/ \E t \in Settlements : ReviewSettlement(t)
             \/ \E k \in Rounds, r \in Drivers : CheckIn(k, r)
      PROVE  UNCHANGED cmd
  BY <1>2 DEF Assign, ReviewSettlement, CheckIn, AtOnce
<1>3. ASSUME NEW w \in Workers,
             \/ \E d \in Deliveries : StatusRead(w, d)
             \/ \E t \in Settlements, r \in Drivers : SettleRead(w, t, r)
             \/ \E k \in Rounds : CheckOutRead(w, k)
      PROVE  Begins({"status", "settle", "checkout"})
  BY <1>1, <1>3 DEF StatusRead, SettleRead, CheckOutRead
<1>4. ASSUME NEW w \in Workers, StatusCommit(w) \/ SettleCommit(w) \/ CheckOutCommit(w)
      PROVE  Ends
  BY <1>4 DEF StatusCommit, SettleCommit, CheckOutCommit, Ends
<1> QED
  BY <1>2, <1>3, <1>4 DEF DriverStep

LEMMA PayrollMoves ==
  ASSUME Shape, PayrollStep
  PROVE  Begins({"register", "approve"}) \/ Ends \/ UNCHANGED cmd
<1>1. ASSUME NEW w \in Workers, NEW p \in Runs, NEW staff \in SUBSET Employees,
             RegisterRead(w, p, staff)
      PROVE  Begins({"register", "approve"})
  <2> DEFINE c == [Command("register", p, Nothing, Eligible(staff), Eligible(staff) \cup {Month})
                   EXCEPT !.under = staff]
  <2>1. c.op = "register" /\ c.since = clock
    BY DEF Command
  <2>2. Begin(w, c)
    BY <1>1 DEF RegisterRead
  <2> QED
    BY <2>1, <2>2 DEF Begins
<1>2. ASSUME NEW w \in Workers, NEW p \in Runs, NEW u \in Users, ApproveRead(w, p, u)
      PROVE  Begins({"register", "approve"})
  <2> DEFINE c == Command("approve", p, Nothing, {}, {p})
  <2>1. c.op = "approve" /\ c.since = clock
    BY DEF Command
  <2>2. Begin(w, c)
    BY <1>2 DEF ApproveRead
  <2> QED
    BY <2>1, <2>2 DEF Begins
<1>3. ASSUME \/ \E a \in Adjustments : RegisterAdjustment(a) \/ CancelAdjustment(a)
             \/ \E p \in Runs : CancelRun(p) \/ DeleteDraft(p)
      PROVE  UNCHANGED cmd
  BY <1>3 DEF RegisterAdjustment, CancelAdjustment, CancelRun, DeleteDraft, AtOnce
<1>4. ASSUME NEW w \in Workers, RegisterCommit(w) \/ ApproveCommit(w)
      PROVE  Ends
  BY <1>4 DEF RegisterCommit, ApproveCommit, Ends
<1> QED
  BY <1>1, <1>2, <1>3, <1>4 DEF PayrollStep

LEMMA DayMoves ==
  ASSUME Shape, DayStep
  PROVE  Begins({"dayTotal"}) \/ Ends \/ GoesOn
<1>1. ASSUME NEW w \in Workers, DayActive(w) PROVE Begins({"dayTotal"})
  <2> DEFINE c == [Command("dayTotal", Day, Nothing, {}, {})
                   EXCEPT !.under = InState("PENDING_REVIEW") \cup OnTheRoad]
  <2>1. c.op = "dayTotal" /\ c.since = clock
    BY DEF Command
  <2>2. Begin(w, c)
    BY <1>1 DEF DayActive
  <2> QED
    BY <2>1, <2>2 DEF Begins
<1>2. ASSUME NEW w \in Workers, DayTotal(w) PROVE GoesOn
  BY <1>2 DEF DayTotal, GoesOn
<1>3. ASSUME NEW w \in Workers, DayPending(w) \/ DayDrivers(w) PROVE GoesOn
  <2>1. PICK to \in {"dayDrivers", "dayInsert"} : cmd' = [cmd EXCEPT ![w].op = to]
    BY <1>3 DEF DayPending, DayDrivers, Asking
  <2>2. cmd' = [cmd EXCEPT ![w].op = to, ![w].picked = cmd[w].picked]
    BY <2>1 DEF Shape, CmdOK, Commands
  <2> QED
    BY <2>2 DEF GoesOn
<1>4. ASSUME NEW w \in Workers, DayInsert(w) PROVE Ends
  BY <1>4 DEF DayInsert, Ends
<1> QED
  BY <1>1, <1>2, <1>3, <1>4 DEF DayStep

(* The clock goes on, and nobody began later than now.                      *)

LEMMA ClockGoesOn == Shape /\ [Next]_vars => clock' \in Nat /\ clock <= clock'
<1> SUFFICES ASSUME Shape, [Next]_vars
             PROVE  clock' = clock \/ Tick
  BY DEF Tick, Shape, TypeOK
<1>1. CASE ShiftStep
  BY <1>1 DEF ShiftStep, ReviewShift, OpenShift, CancelSale, EntryRead, EntryCommit, SaleRead,
     SaleCommit, CloseRead, CloseCommit, End
<1>2. CASE DriverStep
  BY <1>2 DEF DriverStep, Assign, ReviewSettlement, CheckIn, StatusRead, StatusCommit,
     SettleRead, SettleCommit, CheckOutRead, CheckOutCommit, End
<1>3. CASE PayrollStep
  BY <1>3 DEF PayrollStep, RegisterAdjustment, CancelAdjustment, CancelRun, DeleteDraft,
     RegisterRead, RegisterCommit, ApproveRead, ApproveCommit, End
<1>4. CASE DayStep
  BY <1>4 DEF DayStep, DayActive, DayTotal, DayPending, DayDrivers, Asking, DayInsert, End
<1>5. CASE \E w \in Workers : Abandon(w)
  BY <1>5 DEF Abandon, End
<1>6. CASE UNCHANGED vars
  BY <1>6 DEF vars
<1> QED
  BY <1>1, <1>2, <1>3, <1>4, <1>5, <1>6 DEF Next

SincePast == \A w \in Workers : cmd[w].since <= clock

LEMMA MovesPast ==
  ASSUME Shape, SincePast, clock' \in Nat, clock <= clock', NEW ops,
         Begins(ops) \/ Ends \/ GoesOn \/ UNCHANGED cmd
  PROVE  SincePast'
<1>0. clock \in Nat /\ cmd \in [Workers -> Commands] /\ \A w \in Workers : cmd[w].since \in Nat
  BY DEF Shape, TypeOK, Commands
<1>1. CASE Begins(ops)
  <2>1. PICK w \in Workers : \E c : Begin(w, c) /\ c.since = clock
    BY <1>1 DEF Begins
  <2>2. PICK c : Begin(w, c) /\ c.since = clock
    BY <2>1
  <2>3. cmd' = [cmd EXCEPT ![w] = c]
    BY <2>2 DEF Begin
  <2> QED
    BY <1>0, <2>2, <2>3 DEF SincePast
<1>2. CASE Ends
  BY <1>0, <1>2 DEF Ends, End, NoCommand, SincePast
<1>3. CASE GoesOn
  <2>1. PICK w \in Workers, to \in {"dayPending", "dayDrivers", "dayInsert"} : \E picked :
          cmd' = [cmd EXCEPT ![w].op = to, ![w].picked = picked]
    BY <1>3 DEF GoesOn
  <2>2. \A v \in Workers : cmd'[v].since = cmd[v].since
    BY <1>0, <2>1 DEF Commands
  <2> QED
    BY <1>0, <2>2 DEF SincePast
<1>4. CASE UNCHANGED cmd
  BY <1>0, <1>4 DEF SincePast
<1> QED
  BY <1>1, <1>2, <1>3, <1>4

LEMMA NextPast == Shape /\ SincePast /\ [Next]_vars => SincePast'
<1> SUFFICES ASSUME Shape, SincePast, [Next]_vars
             PROVE  SincePast'
  OBVIOUS
<1>0. clock' \in Nat /\ clock <= clock'
  BY ClockGoesOn
<1>1. CASE UNCHANGED cmd
  BY <1>0, <1>1, MovesPast
<1>2. CASE ShiftStep
  BY <1>0, <1>2, ShiftMoves, MovesPast
<1>3. CASE DriverStep
  BY <1>0, <1>3, DriverMoves, MovesPast
<1>4. CASE PayrollStep
  BY <1>0, <1>4, PayrollMoves, MovesPast
<1>5. CASE DayStep
  BY <1>0, <1>5, DayMoves, MovesPast
<1>6. CASE \E w \in Workers : Abandon(w)
  BY <1>0, <1>6, MovesPast DEF Abandon, Ends
<1> QED
  BY <1>1, <1>2, <1>3, <1>4, <1>5, <1>6 DEF Next, vars

(* Nothing is locked by two.                                                *)

LocksApart == \A w, v \in Workers : w # v => cmd[w].locked \cap cmd[v].locked = {}

LEMMA BeginApart ==
  ASSUME Shape, LocksApart, NEW ops, Begins(ops)
  PROVE  LocksApart'
<1>1. PICK w \in Workers : \E c : Begin(w, c)
  BY DEF Begins
<1>2. PICK c : Begin(w, c)
  BY <1>1
<1>3. cmd' = [cmd EXCEPT ![w] = c] /\ \A v \in Workers : cmd[v].locked \cap c.locked = {}
  BY <1>2 DEF Begin, Unlocked
<1> QED
  BY <1>3 DEF Shape, CmdOK, LocksApart

LEMMA EndApart ==
  ASSUME Shape, LocksApart, Ends
  PROVE  LocksApart'
BY DEF Ends, End, NoCommand, Shape, CmdOK, LocksApart

LEMMA GoesOnApart ==
  ASSUME Shape, LocksApart, GoesOn
  PROVE  LocksApart'
<1>1. PICK w \in Workers, to \in {"dayPending", "dayDrivers", "dayInsert"} : \E picked :
        cmd' = [cmd EXCEPT ![w].op = to, ![w].picked = picked]
  BY DEF GoesOn
<1>2. cmd \in [Workers -> Commands]
  BY DEF Shape, CmdOK
<1>3. \A v \in Workers : cmd'[v].locked = cmd[v].locked
  BY <1>1, <1>2 DEF Commands
<1> QED
  BY <1>3 DEF LocksApart

LEMMA NextApart == Shape /\ LocksApart /\ [Next]_vars => LocksApart'
<1> SUFFICES ASSUME Shape, LocksApart, [Next]_vars
             PROVE  LocksApart'
  OBVIOUS
<1>1. CASE UNCHANGED cmd
  BY <1>1 DEF LocksApart
<1>2. CASE ShiftStep
  BY <1>1, <1>2, ShiftMoves, BeginApart, EndApart
<1>3. CASE DriverStep
  BY <1>1, <1>3, DriverMoves, BeginApart, EndApart
<1>4. CASE PayrollStep
  BY <1>1, <1>4, PayrollMoves, BeginApart, EndApart
<1>5. CASE DayStep
  BY <1>5, DayMoves, BeginApart, EndApart, GoesOnApart
<1>6. CASE \E w \in Workers : Abandon(w)
  BY <1>6, EndApart DEF Abandon, Ends
<1> QED
  BY <1>1, <1>2, <1>3, <1>4, <1>5, <1>6 DEF Next, vars

(* A command that begins, ends or goes on is of no concern to the others.   *)

Elsewhere(ops) == \A w \in Workers : cmd'[w] = cmd[w] \/ cmd'[w].op \notin ops

LEMMA BeginElsewhere ==
  ASSUME Shape, NEW begun, NEW ops, begun \cap ops = {}, Begins(begun)
  PROVE  Elsewhere(ops)
<1>1. PICK w \in Workers : \E c : Begin(w, c) /\ c.op \in begun
  BY DEF Begins
<1>2. PICK c : Begin(w, c) /\ c.op \in begun
  BY <1>1
<1>3. cmd' = [cmd EXCEPT ![w] = c]
  BY <1>2 DEF Begin
<1> QED
  BY <1>2, <1>3 DEF Shape, CmdOK, Elsewhere

LEMMA EndElsewhere ==
  ASSUME Shape, NEW ops, "idle" \notin ops, Ends
  PROVE  Elsewhere(ops)
BY DEF Ends, End, NoCommand, Shape, CmdOK, Elsewhere

LEMMA GoesOnElsewhere ==
  ASSUME Shape, NEW ops, ops \cap {"dayPending", "dayDrivers", "dayInsert"} = {}, GoesOn
  PROVE  Elsewhere(ops)
<1>1. PICK w \in Workers, to \in {"dayPending", "dayDrivers", "dayInsert"} : \E picked :
        cmd' = [cmd EXCEPT ![w].op = to, ![w].picked = picked]
  BY DEF GoesOn
<1>2. cmd \in [Workers -> Commands]
  BY DEF Shape, CmdOK
<1>3. cmd'[w].op = to /\ \A v \in Workers : v # w => cmd'[v] = cmd[v]
  BY <1>1, <1>2 DEF Commands
<1> QED
  BY <1>3 DEF Elsewhere

-----------------------------------------------------------------------------
(* The payroll.                                                             *)

PayrollOps == {"register", "approve"}

\* While a run is being registered none is in force, and its adjustments rest.
Registering(w) ==
  cmd[w].op = "register" =>
    /\ run[cmd[w].doc].status = "none"
    /\ Month \in cmd[w].locked /\ cmd[w].picked \subseteq cmd[w].locked
    /\ \A a \in cmd[w].picked : adjustment[a].status = "ACTIVE" /\ adjustment[a].run = Nothing
    /\ \A p \in Runs : ~InForce(p)

\* While a run is being approved it is a draft.
Approving(w) ==
  cmd[w].op = "approve" =>
    cmd[w].doc \in cmd[w].locked /\ run[cmd[w].doc].status = "DRAFT"

NothingLeft ==
  \A p \in Runs : \A a \in Adjustments :
    LookedAt(p) /\ adjustment[a].status = "ACTIVE" /\ adjustment[a].run = Nothing
      /\ EmployeeOf[a] \in run[p].staff
    => a \in unseen

PayrollInv ==
  /\ \A w \in Workers : Registering(w) /\ Approving(w)
  /\ AdjustmentsPaidOnce
  /\ NothingLeft

LEMMA PayrollFrame ==
  ASSUME Shape, PayrollInv, UNCHANGED paper, Elsewhere(PayrollOps)
  PROVE  PayrollInv'
<1>0. UNCHANGED <<adjustment, run, unseen>>
  BY DEF paper
<1>1. \A p \in Runs : (InForce(p))' <=> InForce(p)
  BY <1>0 DEF InForce
<1>2. ASSUME NEW w \in Workers PROVE Registering(w)' /\ Approving(w)'
  <2>1. CASE cmd'[w] = cmd[w]
    BY <1>0, <1>1, <2>1 DEF PayrollInv, Registering, Approving
  <2>2. CASE cmd'[w].op \notin PayrollOps
    BY <2>2 DEF PayrollOps, Registering, Approving
  <2> QED
    BY <2>1, <2>2 DEF Elsewhere
<1>3. AdjustmentsPaidOnce'
  BY <1>0, <1>1 DEF PayrollInv, AdjustmentsPaidOnce
<1>4. \A p \in Runs : (LookedAt(p))' => LookedAt(p)
  BY <1>0 DEF LookedAt, Elsewhere, PayrollOps
<1>5. NothingLeft'
  BY <1>0, <1>4 DEF PayrollInv, NothingLeft
<1> QED
  BY <1>2, <1>3, <1>5 DEF PayrollInv

\* What is looked at is in force.
LEMMA LookedAtInForce ==
  ASSUME PayrollInv, NEW p \in Runs, LookedAt(p)
  PROVE  InForce(p)
BY DEF PayrollInv, LookedAt, InForce, Approving

LEMMA PayrollSteps ==
  ASSUME Shape, LocksApart, PayrollInv, PayrollStep
  PROVE  PayrollInv'
<1>0. /\ \A w \in Workers : Registering(w) /\ Approving(w)
      /\ AdjustmentsPaidOnce /\ NothingLeft
      /\ \A w \in Workers : Sound(cmd[w])
      /\ cmd \in [Workers -> Commands]
      /\ adjustment \in [Adjustments -> [status : {"none", "ACTIVE", "CANCELLED"},
                                        run : Runs \cup {Nothing}]]
      /\ run \in [Runs -> RunRows] /\ unseen \subseteq Adjustments
      /\ Adjustments \cap Runs = {} /\ Nothing \notin Runs
  BY KindsHold, PayrollAssumption DEF PayrollInv, Shape, CmdOK, TypeOK, Kinds
<1>1. ASSUME NEW a \in Adjustments, RegisterAdjustment(a) PROVE PayrollInv'
  <2>1. /\ adjustment[a].status = "none" /\ adjustment' = [adjustment EXCEPT ![a].status = "ACTIVE"]
        /\ unseen' = IF \E p \in Runs : LookedAt(p) THEN unseen \cup {a} ELSE unseen
        /\ UNCHANGED <<run, cmd>>
    BY <1>1 DEF RegisterAdjustment, AtOnce
  <2>2. /\ adjustment'[a].status = "ACTIVE" /\ adjustment'[a].run = adjustment[a].run
        /\ \A b \in Adjustments : b # a => adjustment'[b] = adjustment[b]
    BY <1>0, <2>1
  <2>3. \A p \in Runs : ((InForce(p))' <=> InForce(p)) /\ ((LookedAt(p))' <=> LookedAt(p))
    BY <2>1 DEF InForce, LookedAt
  <2>4. \A w \in Workers : Registering(w)' /\ Approving(w)'
    BY <1>0, <2>1, <2>2, <2>3 DEF Registering, Approving, Sound
  <2>5. AdjustmentsPaidOnce'
    BY <1>0, <2>1, <2>2, <2>3 DEF AdjustmentsPaidOnce
  <2>6. NothingLeft'
    BY <1>0, <2>1, <2>2, <2>3 DEF NothingLeft
  <2> QED
    BY <2>4, <2>5, <2>6 DEF PayrollInv
<1>2. ASSUME NEW a \in Adjustments, CancelAdjustment(a) PROVE PayrollInv'
  <2>1. /\ adjustment[a].run = Nothing /\ Unlocked({a})
        /\ adjustment' = [adjustment EXCEPT ![a].status = "CANCELLED"]
        /\ UNCHANGED <<run, cmd, unseen>>
    BY <1>2 DEF CancelAdjustment, AtOnce
  <2>2. /\ adjustment'[a].status = "CANCELLED" /\ adjustment'[a].run = Nothing
        /\ \A b \in Adjustments : b # a => adjustment'[b] = adjustment[b]
    BY <1>0, <2>1
  <2>3. \A p \in Runs : ((InForce(p))' <=> InForce(p)) /\ ((LookedAt(p))' <=> LookedAt(p))
    BY <2>1 DEF InForce, LookedAt
  <2>4. \A w \in Workers : Registering(w)' /\ Approving(w)'
    BY <1>0, <2>1, <2>2, <2>3 DEF Registering, Approving, Sound, Unlocked
  <2>5. AdjustmentsPaidOnce'
    BY <1>0, <2>1, <2>2, <2>3 DEF AdjustmentsPaidOnce
  <2>6. NothingLeft'
    BY <1>0, <2>1, <2>2, <2>3 DEF NothingLeft
  <2> QED
    BY <2>4, <2>5, <2>6 DEF PayrollInv
\* A run of which nobody has hold goes out of force, and with it what it has applied.
<1>3. ASSUME NEW p \in Runs, InForce(p), Unlocked({p}), adjustment' = Unlinked(p),
             UNCHANGED <<cmd, unseen>>, \A q \in Runs : q # p => run'[q] = run[q],
             run'[p].status \notin {"none", "DRAFT", "APPROVED"}
      PROVE PayrollInv'
  <2>1. \A a \in Adjustments :
          /\ adjustment'[a].status = adjustment[a].status
          /\ adjustment'[a].run = IF adjustment[a].run = p THEN Nothing ELSE adjustment[a].run
    BY <1>0, <1>3 DEF Unlinked
  <2>2. \A q \in Runs : ~(InForce(q))'
    BY <1>0, <1>3 DEF AdjustmentsPaidOnce, InForce
  <2>3. \A w \in Workers : cmd[w].op # "approve"
    BY <1>0, <1>3 DEF Approving, Sound, AdjustmentsPaidOnce, InForce, Unlocked
  <2>4. \A w \in Workers : cmd[w].op # "register"
    BY <1>0, <1>3 DEF Registering
  <2>5. \A q \in Runs : ~(LookedAt(q))'
    BY <1>3, <2>2, <2>3 DEF LookedAt, InForce
  <2>6. \A w \in Workers : Registering(w)' /\ Approving(w)'
    BY <1>3, <2>3, <2>4 DEF Registering, Approving
  <2>7. AdjustmentsPaidOnce'
    BY <1>0, <1>3, <2>1, <2>2 DEF AdjustmentsPaidOnce
  <2> QED
    BY <2>5, <2>6, <2>7 DEF PayrollInv, NothingLeft
<1>4. ASSUME NEW p \in Runs, CancelRun(p) PROVE PayrollInv'
  <2>1. /\ InForce(p) /\ Unlocked({p}) /\ adjustment' = Unlinked(p) /\ UNCHANGED <<cmd, unseen>>
        /\ run' = [run EXCEPT ![p].status = "CANCELLED"]
    BY <1>4 DEF CancelRun, InForce
  <2>2. (\A q \in Runs : q # p => run'[q] = run[q]) /\ run'[p].status = "CANCELLED"
    BY <1>0, <2>1 DEF RunRows
  <2> QED
    BY <1>3, <2>1, <2>2
<1>5. ASSUME NEW p \in Runs, DeleteDraft(p) PROVE PayrollInv'
  <2>1. /\ InForce(p) /\ Unlocked({p}) /\ adjustment' = Unlinked(p) /\ UNCHANGED <<cmd, unseen>>
        /\ run' = [run EXCEPT ![p] = [NoRun EXCEPT !.status = "DELETED"]]
    BY <1>5 DEF DeleteDraft, InForce, AtOnce
  <2>2. (\A q \in Runs : q # p => run'[q] = run[q]) /\ run'[p].status = "DELETED"
    BY <1>0, <2>1 DEF NoRun
  <2> QED
    BY <1>3, <2>1, <2>2
<1>6. ASSUME NEW w \in Workers, NEW p \in Runs, NEW staff \in SUBSET Employees,
             RegisterRead(w, p, staff)
      PROVE PayrollInv'
  <2> DEFINE b == Command("register", p, Nothing, Eligible(staff), Eligible(staff) \cup {Month})
             c == [b EXCEPT !.under = staff]
  <2>1. /\ run[p].status = "none" /\ (\A q \in Runs : ~InForce(q)) /\ Begin(w, c)
        /\ UNCHANGED <<adjustment, run, unseen>>
    BY <1>6 DEF RegisterRead, paper
  <2>2. /\ c.op = "register" /\ c.doc = p /\ c.picked = Eligible(staff)
        /\ c.locked = Eligible(staff) \cup {Month}
    BY DEF Command
  <2> HIDE DEF b, c
  <2>3. cmd' = [cmd EXCEPT ![w] = c]
    BY <2>1 DEF Begin
  <2>4. \A q \in Runs : ~(InForce(q))'
    BY <2>1 DEF InForce
  <2>5. ASSUME NEW v \in Workers PROVE Registering(v)' /\ Approving(v)'
    <3>1. CASE v = w
      <4>1. cmd'[v] = c
        BY <1>0, <2>3, <3>1
      <4>2. ~(cmd'[v].op = "approve")
        BY <2>2, <4>1
      <4>3. \A a \in Eligible(staff) : adjustment[a].status = "ACTIVE" /\ adjustment[a].run = Nothing
        BY DEF Eligible
      <4> QED
        BY <2>1, <2>2, <2>4, <4>1, <4>2, <4>3 DEF Registering, Approving
    <3>2. CASE v # w
      <4>1. cmd'[v] = cmd[v]
        BY <1>0, <2>3, <3>2
      <4> QED
        BY <1>0, <2>1, <2>4, <4>1 DEF Registering, Approving
    <3> QED
      BY <3>1, <3>2
  <2>6. AdjustmentsPaidOnce'
    BY <1>0, <2>1, <2>4 DEF AdjustmentsPaidOnce
  <2>7. \A q \in Runs : ~(LookedAt(q))'
    BY <2>4, <2>5, <1>0, <2>1, <2>2, <2>3 DEF LookedAt, InForce, Approving
  <2> QED
    BY <2>5, <2>6, <2>7 DEF PayrollInv, NothingLeft
<1>7. ASSUME NEW w \in Workers, RegisterCommit(w) PROVE PayrollInv'
  <2> DEFINE p == cmd[w].doc
  <2>1. /\ cmd[w].op = "register" /\ End(w) /\ unseen' = unseen \ cmd[w].picked
        /\ adjustment' = [a \in Adjustments |->
             IF a \in cmd[w].picked THEN [adjustment[a] EXCEPT !.run = p] ELSE adjustment[a]]
        /\ \E net \in 0..MaxNet, u \in Users :
             run' = [run EXCEPT ![p] =
               [status |-> "DRAFT", staff |-> cmd[w].under, applied |-> cmd[w].picked,
                net |-> net, by |-> u]]
    BY <1>7 DEF RegisterCommit
  <2>2. /\ p \in Runs /\ run[p].status = "none" /\ (\A q \in Runs : ~InForce(q))
        /\ Month \in cmd[w].locked /\ cmd[w].picked \subseteq Adjustments
        /\ \A a \in cmd[w].picked : adjustment[a].status = "ACTIVE" /\ adjustment[a].run = Nothing
    BY <1>0, <2>1 DEF Registering, Sound
  <2>3. /\ run'[p].status = "DRAFT" /\ run'[p].applied = cmd[w].picked
        /\ \A q \in Runs : q # p => run'[q] = run[q]
    BY <1>0, <2>1, <2>2
  <2>4. \A a \in Adjustments :
          /\ adjustment'[a].status = adjustment[a].status
          /\ adjustment'[a].run = IF a \in cmd[w].picked THEN p ELSE adjustment[a].run
    BY <1>0, <2>1
  <2>5. /\ cmd'[w] = NoCommand /\ \A v \in Workers : v # w => cmd'[v] = cmd[v]
    BY <1>0, <2>1 DEF End
  <2> HIDE DEF p
  <2>6. \A q \in Runs : (InForce(q))' <=> q = p
    BY <2>2, <2>3 DEF InForce
  <2>7. \A v \in Workers : v # w => cmd[v].op # "register" /\ cmd[v].op # "approve"
    <3>1. \A v \in Workers : v # w => cmd[v].op # "register"
      BY <1>0, <2>2 DEF Registering, LocksApart
    <3>2. \A v \in Workers : cmd[v].op # "approve"
      BY <1>0, <2>2 DEF Approving, Sound, InForce
    <3> QED
      BY <3>1, <3>2
  <2>8. \A v \in Workers : Registering(v)' /\ Approving(v)'
    BY <2>5, <2>7 DEF Registering, Approving, NoCommand
  <2>9. AdjustmentsPaidOnce'
    <3>1. \A a \in Adjustments : \A q \in Runs : adjustment[a].run # q
      BY <1>0, <2>2 DEF AdjustmentsPaidOnce
    <3> QED
      BY <1>0, <2>2, <2>3, <2>4, <2>6, <3>1 DEF AdjustmentsPaidOnce
  <2>10. \A q \in Runs : ~(LookedAt(q))'
    BY <2>3, <2>6, <2>5, <2>7 DEF LookedAt, InForce, NoCommand
  <2> QED
    BY <2>8, <2>9, <2>10 DEF PayrollInv, NothingLeft
<1>8. ASSUME NEW w \in Workers, NEW p \in Runs, NEW u \in Users, ApproveRead(w, p, u)
      PROVE PayrollInv'
  <2> DEFINE c == Command("approve", p, Nothing, {}, {p})
  <2>1. /\ run[p].status = "DRAFT" /\ Eligible(run[p].staff) = {} /\ Begin(w, c)
        /\ UNCHANGED <<adjustment, run, unseen>>
    BY <1>8 DEF ApproveRead, paper
  <2>2. c.op = "approve" /\ c.doc = p /\ c.locked = {p}
    BY DEF Command
  <2> HIDE DEF c
  <2>3. cmd' = [cmd EXCEPT ![w] = c]
    BY <2>1 DEF Begin
  <2>4. cmd'[w] = c /\ \A v \in Workers : v # w => cmd'[v] = cmd[v]
    BY <1>0, <2>3
  <2>5. \A q \in Runs : (InForce(q))' <=> InForce(q)
    BY <2>1 DEF InForce
  <2>6. ASSUME NEW v \in Workers PROVE Registering(v)' /\ Approving(v)'
    BY <1>0, <2>1, <2>2, <2>4, <2>5 DEF Registering, Approving
  <2>7. AdjustmentsPaidOnce'
    BY <1>0, <2>1, <2>5 DEF AdjustmentsPaidOnce
  <2>8. NothingLeft'
    <3>1. \A q \in Runs : (LookedAt(q))' => LookedAt(q) \/ q = p
      BY <2>1, <2>2, <2>4 DEF LookedAt
    <3>2. \A a \in Adjustments : ~(adjustment[a].status = "ACTIVE" /\ adjustment[a].run = Nothing
                                   /\ EmployeeOf[a] \in run[p].staff)
      BY <2>1 DEF Eligible
    <3> QED
      BY <1>0, <2>1, <3>1, <3>2 DEF NothingLeft
  <2> QED
    BY <2>6, <2>7, <2>8 DEF PayrollInv
<1>9. ASSUME NEW w \in Workers, ApproveCommit(w) PROVE PayrollInv'
  <2> DEFINE p == cmd[w].doc
  <2>1. /\ cmd[w].op = "approve" /\ End(w) /\ run' = [run EXCEPT ![p].status = "APPROVED"]
        /\ UNCHANGED <<adjustment, unseen>>
    BY <1>9 DEF ApproveCommit
  <2>2. p \in Runs /\ p \in cmd[w].locked /\ run[p].status = "DRAFT"
    BY <1>0, <2>1 DEF Approving, Sound
  <2>3. /\ run'[p].status = "APPROVED" /\ run'[p].applied = run[p].applied
        /\ run'[p].staff = run[p].staff
        /\ \A q \in Runs : q # p => run'[q] = run[q]
    BY <1>0, <2>1, <2>2 DEF RunRows
  <2>4. /\ cmd'[w] = NoCommand /\ \A v \in Workers : v # w => cmd'[v] = cmd[v]
    BY <1>0, <2>1 DEF End
  <2>5. LookedAt(p) /\ InForce(p)
    BY <2>1, <2>2 DEF LookedAt, InForce
  <2> HIDE DEF p
  <2>6. \A q \in Runs : ((InForce(q))' <=> InForce(q)) /\ ((LookedAt(q))' => LookedAt(q))
    BY <2>2, <2>3, <2>4, <2>5 DEF InForce, LookedAt, NoCommand
  <2>7. ASSUME NEW v \in Workers PROVE Registering(v)' /\ Approving(v)'
    <3>1. CASE v = w
      BY <2>4, <3>1 DEF Registering, Approving, NoCommand
    <3>2. CASE v # w
      <4>1. cmd'[v] = cmd[v]
        BY <2>4, <3>2
      <4>2. Registering(v)'
        BY <1>0, <2>2, <2>5, <4>1 DEF Registering
      <4>3. Approving(v)'
        <5>1. cmd[v].op = "approve" => cmd[v].doc # p
          BY <1>0, <2>2, <3>2 DEF Approving, LocksApart
        <5> QED
          BY <1>0, <2>3, <4>1, <5>1 DEF Approving, Sound
      <4> QED
        BY <4>2, <4>3
    <3> QED
      BY <3>1, <3>2
  <2>8. AdjustmentsPaidOnce'
    BY <1>0, <2>1, <2>3, <2>6 DEF AdjustmentsPaidOnce
  <2>9. NothingLeft'
    BY <1>0, <2>1, <2>3, <2>6 DEF NothingLeft
  <2> QED
    BY <2>7, <2>8, <2>9 DEF PayrollInv
<1> QED
  BY <1>1, <1>2, <1>4, <1>5, <1>6, <1>7, <1>8, <1>9 DEF PayrollStep

-----------------------------------------------------------------------------
(* The shifts.                                                              *)

ShiftOps == {"entry", "sale", "close"}

\* A movement that a shift has counted is of its cashier, and of its time.
InWindow(x, s, until) ==
  /\ movement[x].status # "none"
  /\ movement[x].cashier = shift[s].cashier
  /\ shift[s].opened <= movement[x].at /\ movement[x].at <= until

ShiftTimes ==
  \A s \in Shifts :
    /\ shift[s].opened <= clock /\ shift[s].until <= clock
    /\ ~Over(s) => shift[s].counted = {}
    /\ \A x \in shift[s].counted : InWindow(x, s, shift[s].until)

MovementTimes == \A x \in Movements : movement[x].at <= clock

Before(s, other) == Over(s) /\ shift[s].until < shift[other].opened

ShiftsApart ==
  \A s, other \in Shifts :
    s # other /\ shift[s].status # "none" /\ shift[other].status # "none"
      /\ shift[s].cashier = shift[other].cashier
    => Before(s, other) \/ Before(other, s)

\* An entry is in the closing of its shift, or will be, or came late.
OfShift(e, s) ==
  /\ movement[e].status = "in"
  /\ Over(s) => (e \in shift[s].counted <=> ~movement[e].late)
  /\ ~Over(s) => /\ shift[s].status = "ACTIVE" /\ ~movement[e].late
                 /\ movement[e].cashier = shift[s].cashier
                 /\ shift[s].opened <= movement[e].at

EntriesOf == \A e \in Entries : \A s \in Shifts : movement[e].of = s => OfShift(e, s)

DrawerInv == ShiftTimes /\ MovementTimes /\ ShiftsApart /\ EntriesOf

Writing(w) == cmd[w].op \in {"entry", "sale"} => movement[cmd[w].doc].status = "none"

Entering(w) ==
  cmd[w].op = "entry" =>
    \A s \in cmd[w].picked : shift[s].status # "none" /\ shift[s].opened <= cmd[w].since

Closing(w) ==
  cmd[w].op = "close" =>
    /\ cmd[w].doc \in cmd[w].locked /\ shift[cmd[w].doc].status = "ACTIVE"
    /\ \A x \in cmd[w].picked : InWindow(x, cmd[w].doc, cmd[w].since)
    /\ \A e \in Entries : movement[e].of = cmd[w].doc => e \in cmd[w].picked

AtDrawer(w) == Writing(w) /\ Entering(w) /\ Closing(w)

\* A movement is written by one.
WritersApart ==
  \A w, v \in Workers :
    w # v /\ cmd[w].op \in {"entry", "sale"} /\ cmd[v].op \in {"entry", "sale"}
    => cmd[w].doc # cmd[v].doc

ShiftInv == DrawerInv /\ WritersApart /\ \A w \in Workers : AtDrawer(w)

LEMMA DrawerFrame ==
  ASSUME Shape, DrawerInv, UNCHANGED drawer, clock' \in Nat, clock <= clock'
  PROVE  DrawerInv'
<1>0. UNCHANGED <<shift, movement>>
  BY DEF drawer
<1>1. /\ shift \in [Shifts -> ShiftRows] /\ movement \in [Movements -> MovementRows]
      /\ clock \in Nat
  BY DEF Shape, TypeOK
<1>2. /\ \A s \in Shifts : shift[s].opened \in Nat /\ shift[s].until \in Nat
      /\ \A x \in Movements : movement[x].at \in Nat
  BY <1>1 DEF ShiftRows, MovementRows
<1>3. ShiftTimes' /\ MovementTimes'
  BY <1>0, <1>1, <1>2 DEF DrawerInv, ShiftTimes, MovementTimes, InWindow, Over
<1>4. ShiftsApart' /\ EntriesOf'
  BY <1>0 DEF DrawerInv, ShiftsApart, Before, EntriesOf, OfShift, Over
<1> QED
  BY <1>3, <1>4 DEF DrawerInv

LEMMA ShiftFrame ==
  ASSUME Shape, ShiftInv, UNCHANGED drawer, clock' \in Nat, clock <= clock', Elsewhere(ShiftOps)
  PROVE  ShiftInv'
<1>0. UNCHANGED <<shift, movement>>
  BY DEF drawer
<1>1. DrawerInv'
  BY DrawerFrame DEF ShiftInv
<1>2. ASSUME NEW w \in Workers PROVE AtDrawer(w)'
  <2>1. CASE cmd'[w] = cmd[w]
    BY <1>0, <2>1 DEF ShiftInv, AtDrawer, Writing, Entering, Closing, InWindow
  <2>2. CASE cmd'[w].op \notin ShiftOps
    BY <2>2 DEF ShiftOps, AtDrawer, Writing, Entering, Closing
  <2> QED
    BY <2>1, <2>2 DEF Elsewhere
<1>3. WritersApart'
  BY DEF ShiftInv, WritersApart, Elsewhere, ShiftOps
<1> QED
  BY <1>1, <1>2, <1>3 DEF ShiftInv

\* A command begins at the drawer.
LEMMA BeginAtDrawer ==
  ASSUME Shape, ShiftInv, UNCHANGED drawer, clock' \in Nat, clock <= clock',
         NEW w \in Workers, NEW c, Begin(w, c), (AtDrawer(w))',
         c.op \in {"entry", "sale"} => Unclaimed(c.doc)
  PROVE  ShiftInv'
<1>0. UNCHANGED <<shift, movement>>
  BY DEF drawer
<1>1. DrawerInv'
  BY DrawerFrame DEF ShiftInv
<1>2. cmd'[w] = c /\ \A v \in Workers : v # w => cmd'[v] = cmd[v]
  BY DEF Begin, Shape, CmdOK
<1>3. ASSUME NEW v \in Workers, v # w PROVE AtDrawer(v)'
  BY <1>0, <1>2, <1>3 DEF ShiftInv, AtDrawer, Writing, Entering, Closing, InWindow
<1>4. WritersApart'
  BY <1>2 DEF ShiftInv, WritersApart, Unclaimed
<1> QED
  BY <1>1, <1>3, <1>4 DEF ShiftInv

\* A movement lands.
LEMMA MovementLands ==
  ASSUME Shape, ShiftInv, SincePast, NEW w \in Workers, End(w), UNCHANGED shift,
         cmd[w].op \in {"entry", "sale"}, NEW row \in MovementRows,
         movement' = [movement EXCEPT ![cmd[w].doc] = row],
         row.status = "in", row.at <= clock,
         row.of # Nothing =>
           /\ cmd[w].doc \in Entries /\ row.of \in Shifts /\ Unlocked({row.of})
           /\ row.late <=> shift[row.of].status # "ACTIVE"
           /\ shift[row.of].status # "none"
           /\ row.cashier = shift[row.of].cashier /\ shift[row.of].opened <= row.at,
         cmd[w].doc \in Sales => row.of = Nothing
  PROVE  ShiftInv'
<1> DEFINE x == cmd[w].doc
<1>0. /\ x \in Movements /\ movement[x].status = "none"
      /\ cmd \in [Workers -> Commands] /\ \A v \in Workers : Sound(cmd[v])
      /\ movement \in [Movements -> MovementRows] /\ shift \in [Shifts -> ShiftRows]
      /\ Nothing \notin Shifts /\ clock' = clock
      /\ \A v \in Workers : AtDrawer(v)
      /\ ShiftTimes /\ MovementTimes /\ ShiftsApart /\ EntriesOf /\ WritersApart
  BY KindsHold DEF ShiftInv, DrawerInv, Shape, CmdOK, TypeOK, Sound, AtDrawer, Writing,
     Movements, Kinds, End
<1>1. movement'[x] = row /\ \A y \in Movements : y # x => movement'[y] = movement[y]
  BY <1>0
<1>2. cmd'[w] = NoCommand /\ \A v \in Workers : v # w => cmd'[v] = cmd[v]
  BY <1>0 DEF End
<1> HIDE DEF x
<1>3. \A s \in Shifts : (Over(s))' <=> Over(s)
  BY DEF Over
<1>4. \A s \in Shifts : x \notin shift[s].counted /\ shift[s].counted \subseteq Movements
  BY <1>0 DEF ShiftTimes, InWindow, ShiftRows
<1>5. ShiftTimes'
  BY <1>0, <1>1, <1>3, <1>4 DEF ShiftTimes, InWindow
<1>6. MovementTimes'
  BY <1>0, <1>1 DEF MovementTimes
<1>7. ShiftsApart'
  BY <1>0, <1>3 DEF ShiftsApart, Before
<1>8. EntriesOf'
  <2> SUFFICES ASSUME NEW e \in Entries, NEW s \in Shifts, movement'[e].of = s
               PROVE  OfShift(e, s)'
    BY DEF EntriesOf
  <2>1. CASE e # x
    <3>1. movement'[e] = movement[e] /\ e \in Movements
      BY <1>1, <2>1 DEF Movements
    <3> QED
      BY <1>0, <1>3, <3>1 DEF EntriesOf, OfShift
  <2>2. CASE e = x
    <3>1. row.of = s /\ s # Nothing
      BY <1>0, <1>1, <2>2
    <3>2. shift[s].status \in {"none", "ACTIVE", "PENDING_REVIEW", "CLOSED"}
      BY <1>0 DEF ShiftRows
    <3>3. Over(s) <=> shift[s].status # "ACTIVE"
      BY <3>1, <3>2 DEF Over
    <3> QED
      BY <1>1, <1>3, <1>4, <2>2, <3>1, <3>3 DEF OfShift
  <2> QED
    BY <2>1, <2>2
<1>9. ASSUME NEW v \in Workers PROVE AtDrawer(v)'
  <2>1. CASE v = w
    BY <1>2, <2>1 DEF NoCommand, AtDrawer, Writing, Entering, Closing
  <2>2. CASE v # w
    <3>1. cmd'[v] = cmd[v]
      BY <1>2, <2>2
    <3>2. Writing(v)'
      <4>1. cmd[v].op \in {"entry", "sale"} => cmd[v].doc # x /\ cmd[v].doc \in Movements
        BY <1>0, <2>2 DEF WritersApart, Sound, Movements, x
      <4> QED
        BY <1>0, <1>1, <3>1, <4>1 DEF AtDrawer, Writing
    <3>3. Entering(v)'
      BY <1>0, <3>1 DEF AtDrawer, Entering
    <3>4. Closing(v)'
      <4> SUFFICES ASSUME cmd[v].op = "close"
                   PROVE  /\ \A y \in cmd[v].picked : InWindow(y, cmd[v].doc, cmd[v].since)'
                          /\ \A e \in Entries : movement'[e].of = cmd[v].doc => e \in cmd[v].picked
        BY <1>0, <3>1 DEF AtDrawer, Closing, InWindow
      <4>1. /\ cmd[v].picked \subseteq Movements /\ cmd[v].doc \in Shifts
            /\ cmd[v].doc \in cmd[v].locked
            /\ \A y \in cmd[v].picked : InWindow(y, cmd[v].doc, cmd[v].since)
            /\ \A e \in Entries : movement[e].of = cmd[v].doc => e \in cmd[v].picked
        BY <1>0 DEF Sound, AtDrawer, Closing
      <4>2. x \notin cmd[v].picked
        BY <1>0, <4>1 DEF InWindow
      <4>3. \A y \in cmd[v].picked : InWindow(y, cmd[v].doc, cmd[v].since)'
        BY <1>1, <4>1, <4>2, <3>1 DEF InWindow
      <4>4. row.of # cmd[v].doc
        BY <1>0, <4>1 DEF Unlocked
      <4> QED
        BY <1>1, <4>1, <4>3, <4>4 DEF Movements
    <3> QED
      BY <3>2, <3>3, <3>4 DEF AtDrawer
  <2> QED
    BY <2>1, <2>2
<1>10. WritersApart'
  BY <1>0, <1>2 DEF WritersApart, NoCommand
<1> QED
  BY <1>5, <1>6, <1>7, <1>8, <1>9, <1>10 DEF ShiftInv, DrawerInv

\* A shift is opened when the others of its cashier are over.
LEMMA ShiftOpens ==
  ASSUME Shape, ShiftInv, SincePast, NEW s \in Shifts, NEW c \in Cashiers, OpenShift(s, c)
  PROVE  ShiftInv'
<1>0. /\ shift \in [Shifts -> ShiftRows] /\ clock \in Nat
      /\ ShiftTimes /\ MovementTimes /\ ShiftsApart /\ EntriesOf /\ WritersApart
      /\ \A v \in Workers : AtDrawer(v) /\ Sound(cmd[v]) /\ cmd[v].since <= clock
      /\ \A v \in Workers : cmd[v].since \in Nat
      /\ \A x \in Movements : movement[x].at \in Nat
  BY DEF ShiftInv, DrawerInv, Shape, CmdOK, TypeOK, SincePast, Commands, MovementRows
<1>1. /\ shift[s].status = "none" /\ clock' = clock + 1 /\ UNCHANGED <<cmd, movement>>
      /\ \A other \in Shifts : ~(shift[other].status = "ACTIVE" /\ shift[other].cashier = c)
      /\ shift' = [shift EXCEPT ![s] =
           [status |-> "ACTIVE", cashier |-> c, opened |-> clock', until |-> 0,
            counted |-> {}, variance |-> 0]]
  BY DEF OpenShift, Tick, AtOnce
<1>2. /\ shift'[s].status = "ACTIVE" /\ shift'[s].cashier = c /\ shift'[s].opened = clock + 1
      /\ shift'[s].until = 0 /\ shift'[s].counted = {}
      /\ \A other \in Shifts : other # s => shift'[other] = shift[other]
  BY <1>0, <1>1
<1>3. /\ ~Over(s) /\ ~(Over(s))'
      /\ \A other \in Shifts : other # s => ((Over(other))' <=> Over(other))
  BY <1>1, <1>2 DEF Over
<1>4. \A other \in Shifts :
        /\ shift[other].opened \in Nat /\ shift[other].until \in Nat
        /\ shift[other].status \in {"none", "ACTIVE", "PENDING_REVIEW", "CLOSED"}
  BY <1>0 DEF ShiftRows
<1>5. ShiftTimes'
  BY <1>0, <1>1, <1>2, <1>3, <1>4 DEF ShiftTimes, InWindow
<1>6. MovementTimes'
  BY <1>0, <1>1 DEF MovementTimes
<1>7. ShiftsApart'
  <2>1. ASSUME NEW other \in Shifts, other # s, shift[other].status # "none",
               shift[other].cashier = c
        PROVE  Before(other, s)'
    <3>1. Over(other)
      BY <1>1, <1>4, <2>1 DEF Over
    <3>2. shift'[other].until < shift'[s].opened
      BY <1>0, <1>2, <1>4, <2>1 DEF ShiftTimes
    <3> QED
      BY <1>3, <2>1, <3>1, <3>2 DEF Before
  <2>2. ASSUME NEW a \in Shifts, NEW b \in Shifts, a # s, b # s, Before(a, b)
        PROVE  Before(a, b)'
    BY <1>2, <1>3, <2>2 DEF Before
  <2> QED
    BY <1>0, <1>2, <2>1, <2>2 DEF ShiftsApart
<1>8. EntriesOf'
  BY <1>0, <1>1, <1>2, <1>3 DEF EntriesOf, OfShift
<1>9. ASSUME NEW v \in Workers PROVE AtDrawer(v)'
  <2>1. Entering(v)'
    BY <1>0, <1>1, <1>2 DEF AtDrawer, Entering, Sound
  <2>2. Closing(v)'
    BY <1>0, <1>1, <1>2 DEF AtDrawer, Closing, InWindow, Sound
  <2> QED
    BY <1>0, <1>1, <2>1, <2>2 DEF AtDrawer, Writing
<1>10. WritersApart'
  BY <1>0, <1>1 DEF WritersApart
<1> QED
  BY <1>5, <1>6, <1>7, <1>8, <1>9, <1>10 DEF ShiftInv, DrawerInv

\* The closing of a shift, under its lock, has what was written down for it.
LEMMA ShiftCloses ==
  ASSUME Shape, LocksApart, ShiftInv, SincePast, NEW w \in Workers, CloseCommit(w)
  PROVE  ShiftInv'
<1>s. PICK s : s = cmd[w].doc
  OBVIOUS
<1>0. /\ shift \in [Shifts -> ShiftRows] /\ cmd \in [Workers -> Commands] /\ clock \in Nat
      /\ ShiftTimes /\ MovementTimes /\ ShiftsApart /\ EntriesOf /\ WritersApart
      /\ \A v \in Workers : AtDrawer(v) /\ Sound(cmd[v]) /\ cmd[v].since <= clock
      /\ \A v \in Workers : cmd[v].since \in Nat
  BY DEF ShiftInv, DrawerInv, Shape, CmdOK, TypeOK, SincePast, Commands
<1>1. /\ cmd[w].op = "close" /\ End(w) /\ clock' = clock /\ UNCHANGED movement
  BY DEF CloseCommit, End
<1>2. \E status \in {"CLOSED", "PENDING_REVIEW"} : \E variance :
        shift' = [shift EXCEPT ![s].status = status, ![s].until = cmd[w].since,
                               ![s].counted = cmd[w].picked, ![s].variance = variance]
  BY <1>s DEF CloseCommit
<1>3. /\ s \in Shifts /\ s \in cmd[w].locked /\ shift[s].status = "ACTIVE"
      /\ \A x \in cmd[w].picked : InWindow(x, s, cmd[w].since)
      /\ \A e \in Entries : movement[e].of = s => e \in cmd[w].picked
  BY <1>0, <1>1, <1>s DEF AtDrawer, Closing, Sound
<1>4. /\ shift'[s].status \in {"CLOSED", "PENDING_REVIEW"} /\ shift'[s].cashier = shift[s].cashier
      /\ shift'[s].opened = shift[s].opened
      /\ shift'[s].until = cmd[w].since /\ shift'[s].counted = cmd[w].picked
      /\ \A other \in Shifts : other # s => shift'[other] = shift[other]
  BY <1>0, <1>2, <1>3 DEF ShiftRows
<1>5. cmd'[w] = NoCommand /\ \A v \in Workers : v # w => cmd'[v] = cmd[v]
  BY <1>0, <1>1 DEF End
<1>6. /\ ~Over(s) /\ (Over(s))'
      /\ \A other \in Shifts : other # s => ((Over(other))' <=> Over(other))
  BY <1>3, <1>4 DEF Over
<1>7. ShiftTimes'
  BY <1>0, <1>1, <1>3, <1>4, <1>6 DEF ShiftTimes, InWindow
<1>8. MovementTimes'
  BY <1>0, <1>1 DEF MovementTimes
<1>9. ShiftsApart'
  <2>1. ASSUME NEW a \in Shifts, NEW b \in Shifts, Before(a, b) PROVE Before(a, b)'
    BY <1>3, <1>4, <1>6, <2>1 DEF Before
  <2> QED
    BY <1>0, <1>3, <1>4, <2>1 DEF ShiftsApart
<1>10. EntriesOf'
  <2> SUFFICES ASSUME NEW e \in Entries, NEW other \in Shifts, movement[e].of = other
               PROVE  OfShift(e, other)'
    BY <1>1 DEF EntriesOf
  <2>1. OfShift(e, other)
    BY <1>0 DEF EntriesOf
  <2>2. CASE other = s
    BY <1>1, <1>3, <1>4, <1>6, <2>1, <2>2 DEF OfShift
  <2>3. CASE other # s
    BY <1>1, <1>4, <1>6, <2>1, <2>3 DEF OfShift
  <2> QED
    BY <2>2, <2>3
<1>11. ASSUME NEW v \in Workers PROVE AtDrawer(v)'
  <2>1. CASE v = w
    BY <1>5, <2>1 DEF NoCommand, AtDrawer, Writing, Entering, Closing
  <2>2. CASE v # w
    <3>1. cmd'[v] = cmd[v]
      BY <1>5, <2>2
    <3>2. Entering(v)'
      BY <1>0, <1>3, <1>4, <3>1 DEF AtDrawer, Entering, Sound
    <3>3. cmd[v].op = "close" => cmd[v].doc # s
      BY <1>0, <1>3, <2>2 DEF AtDrawer, Closing, LocksApart
    <3>4. Closing(v)'
      BY <1>0, <1>1, <1>4, <3>1, <3>3 DEF AtDrawer, Closing, InWindow, Sound
    <3> QED
      BY <1>0, <1>1, <3>1, <3>2, <3>4 DEF AtDrawer, Writing
  <2> QED
    BY <2>1, <2>2
<1>12. WritersApart'
  BY <1>0, <1>5 DEF WritersApart, NoCommand
<1> QED
  BY <1>7, <1>8, <1>9, <1>10, <1>11, <1>12 DEF ShiftInv, DrawerInv

LEMMA ShiftReviewed ==
  ASSUME Shape, ShiftInv, NEW s \in Shifts, ReviewShift(s)
  PROVE  ShiftInv'
<1>0. /\ shift \in [Shifts -> ShiftRows]
      /\ ShiftTimes /\ MovementTimes /\ ShiftsApart /\ EntriesOf /\ WritersApart
      /\ \A v \in Workers : AtDrawer(v) /\ Sound(cmd[v])
  BY DEF ShiftInv, DrawerInv, Shape, CmdOK, TypeOK
<1>1. /\ shift[s].status = "PENDING_REVIEW" /\ UNCHANGED <<clock, cmd, movement>>
      /\ shift' = [shift EXCEPT ![s].status = "CLOSED"]
  BY DEF ReviewShift
<1>2. \A other \in Shifts :
        /\ shift'[other].cashier = shift[other].cashier
        /\ shift'[other].opened = shift[other].opened
        /\ shift'[other].until = shift[other].until
        /\ shift'[other].counted = shift[other].counted
        /\ shift'[other].status = IF other = s THEN "CLOSED" ELSE shift[other].status
  BY <1>0, <1>1 DEF ShiftRows
<1>3. \A other \in Shifts : (Over(other))' <=> Over(other)
  BY <1>1, <1>2 DEF Over
<1>4. ShiftTimes' /\ MovementTimes'
  BY <1>0, <1>1, <1>2, <1>3 DEF ShiftTimes, MovementTimes, InWindow
<1>5. ShiftsApart'
  BY <1>0, <1>1, <1>2, <1>3 DEF ShiftsApart, Before
<1>6. EntriesOf'
  BY <1>0, <1>1, <1>2, <1>3 DEF EntriesOf, OfShift, Over
<1>7. ASSUME NEW v \in Workers PROVE AtDrawer(v)'
  <2>1. Entering(v)'
    BY <1>0, <1>1, <1>2 DEF AtDrawer, Entering, Sound
  <2>2. Closing(v)'
    BY <1>0, <1>1, <1>2 DEF AtDrawer, Closing, InWindow, Sound
  <2> QED
    BY <1>0, <1>1, <2>1, <2>2 DEF AtDrawer, Writing
<1>8. WritersApart'
  BY <1>0, <1>1 DEF WritersApart
<1> QED
  BY <1>4, <1>5, <1>6, <1>7, <1>8 DEF ShiftInv, DrawerInv

LEMMA SaleCancelled ==
  ASSUME Shape, ShiftInv, NEW x \in Sales, CancelSale(x)
  PROVE  ShiftInv'
<1>0. /\ movement \in [Movements -> MovementRows] /\ shift \in [Shifts -> ShiftRows]
      /\ x \in Movements /\ Entries \cap Sales = {} /\ Entries \subseteq Movements
      /\ ShiftTimes /\ MovementTimes /\ ShiftsApart /\ EntriesOf /\ WritersApart
      /\ \A v \in Workers : AtDrawer(v) /\ Sound(cmd[v])
  BY ShiftAssumption DEF ShiftInv, DrawerInv, Shape, CmdOK, TypeOK, Movements
<1>1. /\ movement[x].status = "in" /\ UNCHANGED <<clock, cmd, shift>>
      /\ movement' = [movement EXCEPT ![x].status = "cancelled"]
  BY DEF CancelSale, AtOnce
<1>2. \A y \in Movements :
        /\ movement'[y].cashier = movement[y].cashier /\ movement'[y].at = movement[y].at
        /\ movement'[y].of = movement[y].of /\ movement'[y].late = movement[y].late
        /\ movement'[y].status = IF y = x THEN "cancelled" ELSE movement[y].status
  BY <1>0, <1>1 DEF MovementRows
<1>3. \A s \in Shifts : shift[s].counted \subseteq Movements /\ ((Over(s))' <=> Over(s))
  BY <1>0, <1>1 DEF ShiftRows, Over
<1>4. ShiftTimes' /\ MovementTimes'
  BY <1>0, <1>1, <1>2, <1>3 DEF ShiftTimes, MovementTimes, InWindow
<1>5. ShiftsApart'
  BY <1>0, <1>1, <1>3 DEF ShiftsApart, Before
<1>6. EntriesOf'
  BY <1>0, <1>1, <1>2, <1>3 DEF EntriesOf, OfShift
<1>7. ASSUME NEW v \in Workers PROVE AtDrawer(v)'
  <2>1. Writing(v)'
    BY <1>0, <1>1, <1>2 DEF AtDrawer, Writing, Sound, Movements
  <2>2. Closing(v)'
    BY <1>0, <1>1, <1>2 DEF AtDrawer, Closing, InWindow, Sound
  <2> QED
    BY <1>0, <1>1, <2>1, <2>2 DEF AtDrawer, Entering
<1>8. WritersApart'
  BY <1>0, <1>1 DEF WritersApart
<1> QED
  BY <1>4, <1>5, <1>6, <1>7, <1>8 DEF ShiftInv, DrawerInv

LEMMA ShiftSteps ==
  ASSUME Shape, LocksApart, SincePast, ShiftInv, ShiftStep, clock' \in Nat, clock <= clock'
  PROVE  ShiftInv'
<1>0. /\ shift \in [Shifts -> ShiftRows] /\ movement \in [Movements -> MovementRows]
      /\ clock \in Nat /\ cmd \in [Workers -> Commands]
      /\ ShiftTimes /\ MovementTimes /\ ShiftsApart /\ EntriesOf /\ WritersApart
      /\ \A v \in Workers :
           AtDrawer(v) /\ Sound(cmd[v]) /\ cmd[v].since <= clock /\ cmd[v].since \in Nat
      /\ Entries \cap Sales = {} /\ Nothing \notin Shifts
  BY KindsHold, ShiftAssumption DEF ShiftInv, DrawerInv, Shape, CmdOK, TypeOK, SincePast,
     Commands, Kinds
<1>1. ASSUME NEW w \in Workers, NEW e \in Entries, NEW s \in Shifts, EntryRead(w, e, s)
      PROVE ShiftInv'
  <2> DEFINE c == Command("entry", e, Nothing, {s}, {})
  <2>1. /\ Unclaimed(e) /\ movement[e].status = "none" /\ shift[s].status = "ACTIVE"
        /\ Begin(w, c) /\ UNCHANGED drawer
    BY <1>1 DEF EntryRead
  <2>2. c.op = "entry" /\ c.doc = e /\ c.picked = {s} /\ c.since = clock
    BY DEF Command
  <2> HIDE DEF c
  <2>3. cmd'[w] = c
    BY <1>0, <2>1 DEF Begin
  <2>4. (AtDrawer(w))'
    BY <1>0, <2>1, <2>2, <2>3 DEF AtDrawer, Writing, Entering, Closing, ShiftTimes, drawer
  <2> QED
    BY <2>1, <2>2, <2>4, BeginAtDrawer
<1>2. ASSUME NEW w \in Workers, EntryCommit(w) PROVE ShiftInv'
  <2>1. PICK s \in cmd[w].picked, at \in cmd[w].since..clock :
          /\ Unlocked({s})
          /\ movement' = [movement EXCEPT ![cmd[w].doc] =
               [status |-> "in", cashier |-> shift[s].cashier, at |-> at, of |-> s,
                late |-> shift[s].status # "ACTIVE"]]
    BY <1>2 DEF EntryCommit
  <2>2. cmd[w].op = "entry" /\ End(w) /\ UNCHANGED shift
    BY <1>2 DEF EntryCommit
  <2>3. /\ s \in Shifts /\ cmd[w].doc \in Entries /\ cmd[w].doc \notin Sales
        /\ shift[s].status # "none" /\ shift[s].opened <= cmd[w].since
    BY <1>0, <2>1, <2>2 DEF AtDrawer, Entering, Sound
  <2>4. /\ at \in Nat /\ at <= clock /\ cmd[w].since <= at /\ shift[s].opened \in Nat
        /\ shift[s].cashier \in Cashiers \cup {Nothing}
    <3>1. shift[s].opened \in Nat /\ shift[s].cashier \in Cashiers \cup {Nothing}
      BY <1>0, <2>3 DEF ShiftRows
    <3>2. cmd[w].since \in Nat /\ clock \in Nat /\ at \in cmd[w].since..clock
      BY <1>0, <2>1
    <3> HIDE <2>1
    <3> QED
      BY <3>1, <3>2
  <2> DEFINE row == [status |-> "in", cashier |-> shift[s].cashier, at |-> at, of |-> s,
                     late |-> shift[s].status # "ACTIVE"]
  <2>5. row \in MovementRows
    BY <2>3, <2>4 DEF MovementRows
  <2>6. /\ row.status = "in" /\ row.at = at /\ row.of = s /\ row.cashier = shift[s].cashier
        /\ row.late <=> shift[s].status # "ACTIVE"
    OBVIOUS
  <2>7. movement' = [movement EXCEPT ![cmd[w].doc] = row]
    BY <2>1
  <2>8. shift[s].opened <= at
    BY <1>0, <2>3, <2>4
  <2> HIDE DEF row
  <2> QED
    BY <2>1, <2>2, <2>3, <2>4, <2>5, <2>6, <2>7, <2>8, MovementLands
<1>3. ASSUME NEW w \in Workers, NEW x \in Sales, SaleRead(w, x) PROVE ShiftInv'
  <2> DEFINE c == Command("sale", x, Nothing, {}, {})
  <2>1. Unclaimed(x) /\ movement[x].status = "none" /\ Begin(w, c) /\ UNCHANGED drawer
    BY <1>3 DEF SaleRead
  <2>2. c.op = "sale" /\ c.doc = x
    BY DEF Command
  <2> HIDE DEF c
  <2>3. cmd'[w] = c
    BY <1>0, <2>1 DEF Begin
  <2>4. (AtDrawer(w))'
    BY <2>1, <2>2, <2>3 DEF AtDrawer, Writing, Entering, Closing, drawer
  <2> QED
    BY <2>1, <2>2, <2>4, BeginAtDrawer
<1>4. ASSUME NEW w \in Workers, NEW c \in Cashiers, SaleCommit(w, c) PROVE ShiftInv'
  <2> DEFINE row == [status |-> "in", cashier |-> c, at |-> cmd[w].since, of |-> Nothing,
                     late |-> FALSE]
  <2>1. /\ cmd[w].op = "sale" /\ End(w) /\ UNCHANGED shift
        /\ movement' = [movement EXCEPT ![cmd[w].doc] = row]
    BY <1>4 DEF SaleCommit
  <2>2. row \in MovementRows /\ row.status = "in" /\ row.at <= clock /\ row.of = Nothing
    BY <1>0 DEF MovementRows
  <2> HIDE DEF row
  <2> QED
    BY <2>1, <2>2, MovementLands
<1>5. ASSUME NEW w \in Workers, NEW s \in Shifts, CloseRead(w, s) PROVE ShiftInv'
  <2> DEFINE c == Command("close", s, Nothing, Moved(s), {s})
  <2>1. shift[s].status = "ACTIVE" /\ Begin(w, c) /\ UNCHANGED drawer
    BY <1>5 DEF CloseRead
  <2>2. c.op = "close" /\ c.doc = s /\ c.picked = Moved(s) /\ c.since = clock /\ c.locked = {s}
    BY DEF Command
  <2> HIDE DEF c
  <2>3. cmd'[w] = c /\ UNCHANGED <<shift, movement>>
    BY <1>0, <2>1 DEF Begin, drawer
  <2>4. \A x \in Moved(s) : InWindow(x, s, clock)
    BY <1>0 DEF Moved, InWindow, MovementTimes
  <2>5. \A e \in Entries : movement[e].of = s => e \in Moved(s)
    BY <1>0, <2>1 DEF EntriesOf, OfShift, Over, Moved, Movements
  <2>6. (Closing(w))'
    BY <2>1, <2>2, <2>3, <2>4, <2>5 DEF Closing, InWindow
  <2>7. (AtDrawer(w))'
    BY <2>2, <2>3, <2>6 DEF AtDrawer, Writing, Entering
  <2> QED
    BY <2>1, <2>2, <2>7, BeginAtDrawer
<1> QED
  BY <1>1, <1>2, <1>3, <1>4, <1>5, ShiftOpens, ShiftCloses, ShiftReviewed, SaleCancelled
  DEF ShiftStep

\* No two shifts of a cashier have a moment in common, and so no movement.
LEMMA CountedOnce ==
  ASSUME Shape, ShiftInv
  PROVE  MoneyIsCountedOnce
<1>0. /\ shift \in [Shifts -> ShiftRows] /\ movement \in [Movements -> MovementRows]
      /\ ShiftTimes /\ ShiftsApart /\ EntriesOf
  BY DEF ShiftInv, DrawerInv, Shape, TypeOK
<1>1. ASSUME NEW s \in Shifts, NEW other \in Shifts, NEW x \in Movements, s # other,
             x \in shift[s].counted, x \in shift[other].counted
      PROVE  FALSE
  <2>1. /\ movement[x].at \in Nat
        /\ shift[s].opened \in Nat /\ shift[s].until \in Nat
        /\ shift[other].opened \in Nat /\ shift[other].until \in Nat
    BY <1>0 DEF ShiftRows, MovementRows
  <2>2. Over(s) /\ Over(other) /\ InWindow(x, s, shift[s].until) /\ InWindow(x, other, shift[other].until)
    BY <1>0, <1>1 DEF ShiftTimes
  <2>3. Before(s, other) \/ Before(other, s)
    BY <1>0, <1>1, <2>2 DEF ShiftsApart, Over, InWindow
  <2> QED
    BY <2>1, <2>2, <2>3 DEF Before, InWindow
<1>2. \A s \in Shifts : shift[s].counted \subseteq Movements
  BY <1>0 DEF ShiftRows
<1>3. \A e \in Entries, s \in Shifts :
        movement[e].of = s /\ Over(s) => (e \in shift[s].counted <=> ~movement[e].late)
  BY <1>0 DEF EntriesOf, OfShift
<1> QED
  BY <1>1, <1>2, <1>3 DEF MoneyIsCountedOnce

-----------------------------------------------------------------------------
(* The deliveries.                                                          *)

AtRoad(w) ==
  /\ cmd[w].op \in {"status", "settle"} => \A d \in cmd[w].picked : cmd[w].read[d].at <= clock
  /\ cmd[w].op = "status" => \A d \in cmd[w].picked : cmd[w].read[d].status = "ASSIGNED"
  /\ cmd[w].op = "settle" =>
       /\ settlement[cmd[w].doc].status = "none"
       /\ \A d \in cmd[w].picked :
            cmd[w].read[d].status = "DELIVERED" /\ cmd[w].read[d].settlement = Nothing

\* A settlement is written by one.
SettlersApart ==
  \A w, v \in Workers :
    w # v /\ cmd[w].op = "settle" /\ cmd[v].op = "settle" => cmd[w].doc # cmd[v].doc

DeliveryTimes == \A d \in Deliveries : delivery[d].at <= clock

Settled ==
  /\ \A t \in Settlements : settlement[t].status = "none" => settlement[t].orders = {}
  /\ \A d \in Deliveries \ raced : \A t \in Settlements :
       d \in settlement[t].orders <=> delivery[d].settlement = t

SettleInv == (\A w \in Workers : AtRoad(w)) /\ SettlersApart /\ DeliveryTimes /\ Settled

\* A delivery that a round has counted was delivered by its driver since its beginning.
PaidFor(d, k) ==
  /\ delivery[d].status = "DELIVERED" /\ delivery[d].driver = round[k].driver
  /\ round[k].from <= delivery[d].at

\* A round is over before the other begins, and what it has counted is delivered.
Earlier(k, other) ==
  /\ round[k].status = "CLOSED"
  /\ \A d \in round[k].counted \ raced : delivery[d].at < round[other].from

RoundsApart ==
  \A k, other \in Rounds :
    k # other /\ round[k].status # "none" /\ round[other].status # "none"
      /\ round[k].driver = round[other].driver
    => Earlier(k, other) \/ Earlier(other, k)

CheckingOut(w) ==
  cmd[w].op = "checkout" =>
    /\ cmd[w].doc \in cmd[w].locked /\ round[cmd[w].doc].status = "ACTIVE"
    /\ \A d \in cmd[w].picked \ raced : PaidFor(d, cmd[w].doc)

RoundInv ==
  /\ \A k \in Rounds : /\ \A d \in round[k].counted \ raced : PaidFor(d, k)
                       /\ round[k].status # "CLOSED" => round[k].counted = {}
  /\ RoundsApart
  /\ \A w \in Workers : CheckingOut(w)

\* What is delivered stays so, and settled as it is, if no stale row is saved over it.
DeliveredStays ==
  /\ raced \subseteq raced'
  /\ \A d \in Deliveries \ raced' :
       /\ delivery[d].status = "DELIVERED" =>
            /\ delivery'[d].status = "DELIVERED" /\ delivery'[d].driver = delivery[d].driver
            /\ delivery'[d].at = delivery[d].at
       /\ delivery[d].settlement # Nothing => delivery'[d].settlement = delivery[d].settlement

\* What a command saves.
LEMMA SavesOver ==
  ASSUME Shape, NEW w \in Workers, cmd[w].op \in {"status", "settle"},
         NEW new \in [Deliveries -> DeliveryRows], SaveOver(w, new)
  PROVE  /\ raced' = raced \cup {d \in cmd[w].picked : delivery[d] # cmd[w].read[d]}
         /\ cmd[w].picked \subseteq Deliveries
         /\ cmd[w].read \in [Deliveries -> DeliveryRows]
         /\ \A d \in Deliveries :
              delivery'[d] = IF d \in cmd[w].picked THEN new[d] ELSE delivery[d]
BY DEF Shape, CmdOK, Sound, SaveOver

\* The rows of an update of a status.
LEMMA StatusSaves ==
  ASSUME Shape, SettleInv, NEW w \in Workers, StatusCommit(w)
  PROVE  /\ raced' = raced \cup {d \in cmd[w].picked : delivery[d] # cmd[w].read[d]}
         /\ cmd[w].picked \subseteq Deliveries
         /\ \A d \in Deliveries \ cmd[w].picked : delivery'[d] = delivery[d]
         /\ \A d \in cmd[w].picked :
              /\ delivery'[d].driver = cmd[w].read[d].driver
              /\ delivery'[d].settlement = cmd[w].read[d].settlement
              /\ delivery'[d].at <= clock
              /\ cmd[w].read[d].status = "ASSIGNED"
<1>0. /\ cmd[w].read \in [Deliveries -> DeliveryRows] /\ cmd[w].picked \subseteq Deliveries
      /\ cmd[w].since \in Nat /\ clock \in Nat /\ cmd[w].op = "status"
      /\ \A d \in cmd[w].picked : cmd[w].read[d].status = "ASSIGNED" /\ cmd[w].read[d].at <= clock
  BY DEF StatusCommit, Shape, TypeOK, CmdOK, Sound, Commands, SettleInv, AtRoad
<1>1. PICK status \in {"ASSIGNED", "DELIVERED", "FAILED"}, at \in cmd[w].since..clock :
        SaveOver(w, [d \in Deliveries |->
          [cmd[w].read[d] EXCEPT !.status = status,
                                 !.at = IF status = "DELIVERED" THEN at ELSE @]])
  BY DEF StatusCommit
<1>2. at <= clock /\ at \in Nat
  <2>1. cmd[w].since \in Nat /\ clock \in Nat /\ at \in cmd[w].since..clock
    BY <1>0, <1>1
  <2> HIDE <1>1
  <2> QED
    BY <2>1
<1> DEFINE new == [d \in Deliveries |->
          [cmd[w].read[d] EXCEPT !.status = status,
                                 !.at = IF status = "DELIVERED" THEN at ELSE @]]
<1>3. ASSUME NEW d \in Deliveries
      PROVE  /\ new[d] \in DeliveryRows
             /\ new[d].driver = cmd[w].read[d].driver
             /\ new[d].settlement = cmd[w].read[d].settlement
             /\ new[d].at = IF status = "DELIVERED" THEN at ELSE cmd[w].read[d].at
  <2>1. cmd[w].read[d] \in DeliveryRows
    BY <1>0
  <2> QED
    BY <1>2, <2>1 DEF DeliveryRows
<1>4. SaveOver(w, new)
  BY <1>1
<1>5. new \in [Deliveries -> DeliveryRows]
  BY <1>3
<1> HIDE DEF new
<1>6. /\ raced' = raced \cup {d \in cmd[w].picked : delivery[d] # cmd[w].read[d]}
      /\ \A d \in Deliveries :
           delivery'[d] = IF d \in cmd[w].picked THEN new[d] ELSE delivery[d]
  BY <1>0, <1>4, <1>5, SavesOver
<1>7. ASSUME NEW d \in cmd[w].picked
      PROVE  /\ delivery'[d].driver = cmd[w].read[d].driver
             /\ delivery'[d].settlement = cmd[w].read[d].settlement
             /\ delivery'[d].at <= clock
  BY <1>0, <1>2, <1>3, <1>6
<1> QED
  BY <1>0, <1>6, <1>7

\* The rows of a settlement.
LEMMA SettleSaves ==
  ASSUME Shape, SettleInv, NEW w \in Workers, SettleCommit(w)
  PROVE  /\ raced' = raced \cup {d \in cmd[w].picked : delivery[d] # cmd[w].read[d]}
         /\ cmd[w].picked \subseteq Deliveries
         /\ \A d \in Deliveries \ cmd[w].picked : delivery'[d] = delivery[d]
         /\ \A d \in cmd[w].picked :
              /\ delivery'[d].driver = cmd[w].read[d].driver
              /\ delivery'[d].status = cmd[w].read[d].status
              /\ delivery'[d].at = cmd[w].read[d].at
              /\ delivery'[d].settlement = cmd[w].doc
              /\ cmd[w].read[d].status = "DELIVERED" /\ cmd[w].read[d].settlement = Nothing
<1>0. /\ cmd[w].read \in [Deliveries -> DeliveryRows] /\ cmd[w].picked \subseteq Deliveries
      /\ cmd[w].op = "settle" /\ cmd[w].doc \in Settlements
      /\ \A d \in cmd[w].picked :
           cmd[w].read[d].status = "DELIVERED" /\ cmd[w].read[d].settlement = Nothing
  BY DEF SettleCommit, Shape, CmdOK, Sound, SettleInv, AtRoad
<1> DEFINE new == [d \in Deliveries |-> [cmd[w].read[d] EXCEPT !.settlement = cmd[w].doc]]
<1>1. SaveOver(w, new)
  BY DEF SettleCommit
<1>2. ASSUME NEW d \in Deliveries
      PROVE  /\ new[d] \in DeliveryRows
             /\ new[d].driver = cmd[w].read[d].driver
             /\ new[d].status = cmd[w].read[d].status
             /\ new[d].at = cmd[w].read[d].at
             /\ new[d].settlement = cmd[w].doc
  <2>1. cmd[w].read[d] \in DeliveryRows
    BY <1>0
  <2> QED
    BY <1>0, <2>1 DEF DeliveryRows
<1>3. new \in [Deliveries -> DeliveryRows]
  BY <1>2
<1> HIDE DEF new
<1>4. /\ raced' = raced \cup {d \in cmd[w].picked : delivery[d] # cmd[w].read[d]}
      /\ \A d \in Deliveries :
           delivery'[d] = IF d \in cmd[w].picked THEN new[d] ELSE delivery[d]
  BY <1>0, <1>1, <1>3, SavesOver
<1> QED
  BY <1>0, <1>2, <1>4

\* Every step of the drivers lets what is delivered stay.
LEMMA DriverStays ==
  ASSUME Shape, SettleInv, DriverStep
  PROVE  DeliveredStays
<1>0. delivery \in [Deliveries -> DeliveryRows]
  BY DEF Shape, TypeOK
<1>1. CASE UNCHANGED <<delivery, raced>>
  BY <1>1 DEF DeliveredStays
<1>2. ASSUME NEW d \in Deliveries, NEW r \in Drivers, Assign(d, r) PROVE DeliveredStays
  <2>1. /\ delivery[d].status = "none" /\ UNCHANGED raced
        /\ delivery' = [delivery EXCEPT ![d].status = "ASSIGNED", ![d].driver = r]
    BY <1>2 DEF Assign
  <2>2. /\ delivery'[d].settlement = delivery[d].settlement
        /\ \A x \in Deliveries : x # d => delivery'[x] = delivery[x]
    BY <1>0, <2>1 DEF DeliveryRows
  <2> QED
    BY <2>1, <2>2 DEF DeliveredStays
<1>3. ASSUME NEW w \in Workers, StatusCommit(w) PROVE DeliveredStays
  BY <1>3, StatusSaves DEF DeliveredStays
<1>4. ASSUME NEW w \in Workers, SettleCommit(w) PROVE DeliveredStays
  BY <1>4, SettleSaves DEF DeliveredStays
<1> QED
  BY <1>1, <1>2, <1>3, <1>4 DEF DriverStep, ReviewSettlement, CheckIn, StatusRead, SettleRead,
     CheckOutRead, CheckOutCommit, road

LEMMA SettleFrame ==
  ASSUME Shape, SettleInv, UNCHANGED <<delivery, settlement, raced>>,
         clock' \in Nat, clock <= clock', Elsewhere({"status", "settle"})
  PROVE  SettleInv'
<1>0. /\ clock \in Nat /\ delivery \in [Deliveries -> DeliveryRows]
      /\ \A w \in Workers : AtRoad(w) /\ Sound(cmd[w])
  BY DEF Shape, TypeOK, CmdOK, SettleInv
<1>1. ASSUME NEW w \in Workers PROVE AtRoad(w)'
  <2>1. CASE cmd'[w] = cmd[w]
    <3>1. cmd[w].op \in {"status", "settle"} =>
            \A d \in cmd[w].picked : cmd[w].read[d].at \in Nat
      BY <1>0 DEF Sound, DeliveryRows
    <3> QED
      BY <1>0, <2>1, <3>1 DEF AtRoad
  <2>2. CASE cmd'[w].op \notin {"status", "settle"}
    BY <2>2 DEF AtRoad
  <2> QED
    BY <2>1, <2>2 DEF Elsewhere
<1>2. SettlersApart'
  BY DEF SettleInv, SettlersApart, Elsewhere
<1>3. DeliveryTimes'
  BY <1>0 DEF SettleInv, DeliveryTimes, DeliveryRows
<1>4. Settled'
  BY DEF SettleInv, Settled
<1> QED
  BY <1>1, <1>2, <1>3, <1>4 DEF SettleInv

LEMMA RoundFrame ==
  ASSUME Shape, RoundInv, UNCHANGED round, DeliveredStays, Elsewhere({"checkout"})
  PROVE  RoundInv'
<1>0. /\ round \in [Rounds -> RoundRows]
      /\ \A k \in Rounds : round[k].counted \subseteq Deliveries
      /\ \A w \in Workers : Sound(cmd[w])
  BY DEF Shape, TypeOK, RoundRows, CmdOK
<1>1. ASSUME NEW d \in Deliveries \ raced', NEW k, PaidFor(d, k) PROVE PaidFor(d, k)'
  BY <1>1 DEF PaidFor, DeliveredStays
<1>2. ASSUME NEW k \in Rounds
      PROVE  /\ \A d \in round'[k].counted \ raced' : PaidFor(d, k)'
             /\ round'[k].status # "CLOSED" => round'[k].counted = {}
  BY <1>0, <1>1 DEF RoundInv, DeliveredStays
<1>3. ASSUME NEW k \in Rounds, NEW other \in Rounds, Earlier(k, other) PROVE Earlier(k, other)'
  BY <1>0, <1>3 DEF Earlier, RoundInv, PaidFor, DeliveredStays
<1>4. RoundsApart'
  BY <1>3 DEF RoundInv, RoundsApart
<1>5. ASSUME NEW w \in Workers PROVE CheckingOut(w)'
  <2>1. CASE cmd'[w] = cmd[w]
    BY <1>0, <1>1, <2>1 DEF RoundInv, CheckingOut, Sound, DeliveredStays
  <2>2. CASE cmd'[w].op # "checkout"
    BY <2>2 DEF CheckingOut
  <2> QED
    BY <2>1, <2>2 DEF Elsewhere
<1> QED
  BY <1>2, <1>4, <1>5 DEF RoundInv

LEMMA SettleSteps ==
  ASSUME Shape, SettleInv, DriverStep, clock' \in Nat, clock <= clock'
  PROVE  SettleInv'
<1>0. /\ delivery \in [Deliveries -> DeliveryRows]
      /\ settlement \in [Settlements -> SettlementRows]
      /\ cmd \in [Workers -> Commands] /\ clock \in Nat
      /\ \A w \in Workers : AtRoad(w) /\ Sound(cmd[w])
      /\ SettlersApart /\ DeliveryTimes /\ Settled
      /\ Nothing \notin Settlements
  BY KindsHold DEF Shape, TypeOK, CmdOK, SettleInv, Kinds
<1>1. ASSUME NEW d \in Deliveries, NEW r \in Drivers, Assign(d, r) PROVE SettleInv'
  <2>1. /\ delivery' = [delivery EXCEPT ![d].status = "ASSIGNED", ![d].driver = r]
        /\ UNCHANGED <<settlement, raced, clock, cmd>>
    BY <1>1 DEF Assign, AtOnce
  <2>2. \A x \in Deliveries :
          delivery'[x].settlement = delivery[x].settlement /\ delivery'[x].at = delivery[x].at
    BY <1>0, <2>1 DEF DeliveryRows
  <2>3. DeliveryTimes' /\ Settled'
    BY <1>0, <2>1, <2>2 DEF DeliveryTimes, Settled
  <2> QED
    BY <1>0, <2>1, <2>3 DEF SettleInv, AtRoad, SettlersApart
<1>2. ASSUME NEW t \in Settlements, ReviewSettlement(t) PROVE SettleInv'
  <2>1. /\ settlement[t].status = "PENDING_REVIEW"
        /\ settlement' = [settlement EXCEPT ![t].status = "REVIEWED"]
        /\ UNCHANGED <<delivery, raced, clock, cmd>>
    BY <1>2 DEF ReviewSettlement, AtOnce
  <2>2. \A x \in Settlements :
          /\ settlement'[x].orders = settlement[x].orders
          /\ settlement'[x].status = "none" <=> settlement[x].status = "none"
    BY <1>0, <2>1 DEF SettlementRows
  <2>3. \A w \in Workers : AtRoad(w)'
    BY <1>0, <2>1, <2>2 DEF AtRoad, Sound
  <2>4. Settled'
    BY <1>0, <2>1, <2>2 DEF Settled
  <2> QED
    BY <1>0, <2>1, <2>3, <2>4 DEF SettleInv, SettlersApart, DeliveryTimes
\* A command begins, and nothing else.
<1>3. ASSUME NEW w \in Workers, NEW c, Begin(w, c), UNCHANGED <<clock, road>>, (AtRoad(w))',
             c.op = "settle" => Unclaimed(c.doc)
      PROVE  SettleInv'
  <2>1. cmd'[w] = c /\ \A v \in Workers : v # w => cmd'[v] = cmd[v]
    BY <1>0, <1>3 DEF Begin
  <2>2. UNCHANGED <<delivery, settlement, raced, clock>>
    BY <1>3 DEF road
  <2>3. \A v \in Workers : AtRoad(v)'
    BY <1>0, <1>3, <2>1, <2>2 DEF AtRoad
  <2>4. SettlersApart'
    BY <1>0, <1>3, <2>1 DEF SettlersApart, Unclaimed
  <2>5. DeliveryTimes' /\ Settled'
    BY <1>0, <2>2 DEF DeliveryTimes, Settled
  <2> QED
    BY <2>3, <2>4, <2>5 DEF SettleInv
<1>4. ASSUME NEW w \in Workers, NEW d \in Deliveries, StatusRead(w, d) PROVE SettleInv'
  <2> DEFINE c == Command("status", d, ReadOf({d}), {d}, {})
  <2>1. delivery[d].status = "ASSIGNED" /\ Begin(w, c) /\ UNCHANGED <<clock, road>>
    BY <1>4 DEF StatusRead
  <2>2. c.op = "status" /\ c.read[d] = delivery[d] /\ c.picked = {d}
    BY DEF Command, ReadOf
  <2> HIDE DEF c
  <2>3. cmd'[w] = c
    BY <1>0, <2>1 DEF Begin
  <2>4. AtRoad(w)'
    BY <1>0, <2>1, <2>2, <2>3 DEF AtRoad, DeliveryTimes
  <2> QED
    BY <1>3, <2>1, <2>2, <2>4
<1>5. ASSUME NEW w \in Workers, NEW t \in Settlements, NEW r \in Drivers, SettleRead(w, t, r)
      PROVE SettleInv'
  <2> DEFINE c == Command("settle", t, ReadOf(Unsettled(r)), Unsettled(r), {})
  <2>1. /\ Unclaimed(t) /\ settlement[t].status = "none" /\ Begin(w, c)
        /\ UNCHANGED <<clock, road>>
    BY <1>5 DEF SettleRead
  <2>2. /\ c.op = "settle" /\ c.doc = t /\ c.picked = Unsettled(r)
        /\ \A d \in Unsettled(r) : c.read[d] = delivery[d]
    BY DEF Command, ReadOf, Unsettled
  <2> HIDE DEF c
  <2>3. cmd'[w] = c /\ UNCHANGED settlement
    BY <1>0, <2>1 DEF Begin, road
  <2>4. \A d \in Unsettled(r) :
          delivery[d].at <= clock /\ delivery[d].status = "DELIVERED" /\ delivery[d].settlement = Nothing
    BY <1>0 DEF Unsettled, DeliveryTimes
  <2>5. AtRoad(w)'
    BY <2>1, <2>2, <2>3, <2>4 DEF AtRoad
  <2> QED
    BY <1>3, <2>1, <2>2, <2>5
\* A command ends, with what it has saved.
<1>6. ASSUME NEW w \in Workers, End(w),
             \A t \in Settlements : settlement'[t].status = "none" <=>
               settlement[t].status = "none" /\ ~(cmd[w].op = "settle" /\ cmd[w].doc = t)
      PROVE  SettlersApart' /\ clock' = clock /\ \A v \in Workers : AtRoad(v)'
  <2>1. /\ cmd'[w] = NoCommand /\ clock' = clock
        /\ \A v \in Workers : v # w => cmd'[v] = cmd[v]
    BY <1>0, <1>6 DEF End
  <2>2. SettlersApart'
    BY <1>0, <2>1 DEF SettlersApart, NoCommand
  <2>3. ASSUME NEW v \in Workers PROVE AtRoad(v)'
    <3>1. CASE v = w
      BY <2>1, <3>1 DEF AtRoad, NoCommand
    <3>2. CASE v # w
      <4>1. cmd'[v] = cmd[v]
        BY <2>1, <3>2
      <4>2. cmd[v].op = "settle" => settlement'[cmd[v].doc].status = "none"
        BY <1>0, <1>6, <3>2 DEF AtRoad, Sound, SettlersApart
      <4> QED
        BY <1>0, <2>1, <4>1, <4>2 DEF AtRoad
    <3> QED
      BY <3>1, <3>2
  <2> QED
    BY <2>1, <2>2, <2>3
<1>7. ASSUME NEW w \in Workers, StatusCommit(w) PROVE SettleInv'
  <2>1. cmd[w].op = "status" /\ End(w) /\ UNCHANGED settlement
    BY <1>7 DEF StatusCommit
  <2>2. SettlersApart' /\ clock' = clock /\ \A v \in Workers : AtRoad(v)'
    BY <1>6, <2>1
  <2>3. DeliveryTimes'
    BY <1>0, <1>7, <2>2, StatusSaves DEF DeliveryTimes
  <2>4. Settled'
    <3> SUFFICES ASSUME NEW d \in Deliveries \ raced'
                 PROVE  d \notin raced /\ delivery'[d].settlement = delivery[d].settlement
      BY <1>0, <2>1 DEF Settled
    <3> QED
      BY <1>7, StatusSaves
  <2> QED
    BY <2>2, <2>3, <2>4 DEF SettleInv
<1>8. ASSUME NEW w \in Workers, SettleCommit(w) PROVE SettleInv'
  <2>0. PICK t : t = cmd[w].doc
    OBVIOUS
  <2>1. /\ cmd[w].op = "settle" /\ End(w) /\ t \in Settlements /\ settlement[t].status = "none"
        /\ cmd[w].picked \subseteq Deliveries
    BY <1>0, <1>8, <2>0 DEF SettleCommit, AtRoad, Sound
  <2>2. \E status \in {"NONE", "PENDING_REVIEW"} : \E variance :
          settlement' = [settlement EXCEPT ![t] =
            [status |-> status, orders |-> cmd[w].picked, variance |-> variance]]
    BY <1>8, <2>0 DEF SettleCommit
  <2>3. /\ settlement'[t].status # "none" /\ settlement'[t].orders = cmd[w].picked
        /\ \A x \in Settlements : x # t => settlement'[x] = settlement[x]
    BY <1>0, <2>1, <2>2
  <2>4. SettlersApart' /\ clock' = clock /\ \A v \in Workers : AtRoad(v)'
    BY <1>6, <2>0, <2>1, <2>3
  <2>5. /\ raced' = raced \cup {d \in cmd[w].picked : delivery[d] # cmd[w].read[d]}
        /\ \A d \in Deliveries \ cmd[w].picked : delivery'[d] = delivery[d]
        /\ \A d \in cmd[w].picked :
             /\ delivery'[d].at = cmd[w].read[d].at /\ delivery'[d].settlement = t
             /\ cmd[w].read[d].settlement = Nothing /\ cmd[w].read[d].at <= clock
    BY <1>0, <1>8, <2>0, <2>1, SettleSaves DEF AtRoad
  <2>6. DeliveryTimes'
    BY <1>0, <2>4, <2>5 DEF DeliveryTimes
  <2>7. Settled'
    <3>1. \A x \in Settlements : settlement'[x].status = "none" => settlement'[x].orders = {}
      BY <1>0, <2>3 DEF Settled
    <3>2. ASSUME NEW d \in Deliveries \ raced', NEW x \in Settlements
          PROVE  d \in settlement'[x].orders <=> delivery'[d].settlement = x
      <4>1. d \notin raced /\ (d \in settlement[x].orders <=> delivery[d].settlement = x)
        BY <1>0, <2>5 DEF Settled
      <4>2. CASE d \in cmd[w].picked
        <5>1. delivery[d].settlement = Nothing /\ delivery'[d].settlement = t
          BY <2>5, <4>2
        <5> QED
          BY <1>0, <2>3, <4>1, <4>2, <5>1
      <4>3. CASE d \notin cmd[w].picked
        <5>1. delivery'[d] = delivery[d] /\ settlement[t].orders = {}
          BY <1>0, <2>1, <2>5, <4>3 DEF Settled
        <5>2. CASE x = t
          BY <2>3, <4>1, <4>3, <5>1, <5>2
        <5>3. CASE x # t
          BY <2>3, <4>1, <5>1, <5>3
        <5> QED
          BY <5>2, <5>3
      <4> QED
        BY <4>2, <4>3
    <3> QED
      BY <3>1, <3>2 DEF Settled
  <2> QED
    BY <2>4, <2>6, <2>7 DEF SettleInv
<1>9. ASSUME UNCHANGED <<delivery, settlement, raced>>, Elsewhere({"status", "settle"})
      PROVE  SettleInv'
  BY <1>9, SettleFrame
<1>10. ASSUME NEW k \in Rounds, NEW r \in Drivers, CheckIn(k, r) PROVE SettleInv'
  BY <1>9, <1>10 DEF CheckIn, AtOnce, Elsewhere
<1>11. ASSUME NEW w \in Workers, NEW k \in Rounds, CheckOutRead(w, k) PROVE SettleInv'
  <2> DEFINE X == {d \in Deliveries : /\ delivery[d].status = "DELIVERED"
                                      /\ delivery[d].driver = round[k].driver
                                      /\ delivery[d].at >= round[k].from}
             c == Command("checkout", k, Nothing, X, {k})
  <2>1. Begin(w, c) /\ UNCHANGED <<delivery, settlement, raced>>
    BY <1>11 DEF CheckOutRead, road
  <2>2. c.op = "checkout"
    BY DEF Command
  <2> HIDE DEF c, X
  <2>3. cmd'[w] = c /\ \A v \in Workers : v # w => cmd'[v] = cmd[v]
    BY <1>0, <2>1 DEF Begin
  <2> QED
    BY <1>9, <2>1, <2>2, <2>3 DEF Elsewhere
<1>12. ASSUME NEW w \in Workers, CheckOutCommit(w) PROVE SettleInv'
  <2>1. End(w) /\ UNCHANGED <<delivery, settlement, raced>>
    BY <1>12 DEF CheckOutCommit
  <2>2. Elsewhere({"status", "settle"})
    BY <2>1, EndElsewhere DEF Ends
  <2> QED
    BY <1>9, <2>1, <2>2
<1> QED
  BY <1>1, <1>2, <1>4, <1>5, <1>7, <1>8, <1>10, <1>11, <1>12 DEF DriverStep

LEMMA RoundSteps ==
  ASSUME Shape, LocksApart, SettleInv, RoundInv, DriverStep, DeliveredStays
  PROVE  RoundInv'
<1>0. /\ delivery \in [Deliveries -> DeliveryRows] /\ round \in [Rounds -> RoundRows]
      /\ cmd \in [Workers -> Commands] /\ clock \in Nat
      /\ \A w \in Workers : CheckingOut(w) /\ Sound(cmd[w])
      /\ DeliveryTimes /\ RoundsApart
      /\ \A k \in Rounds : /\ \A d \in round[k].counted \ raced : PaidFor(d, k)
                           /\ round[k].status # "CLOSED" => round[k].counted = {}
  BY DEF Shape, TypeOK, CmdOK, SettleInv, RoundInv
<1>1. \A k \in Rounds : /\ round[k].from \in Nat /\ round[k].counted \subseteq Deliveries
                        /\ round[k].status \in {"none", "ACTIVE", "CLOSED"}
  BY <1>0 DEF RoundRows
<1>2. \A d \in Deliveries : delivery[d].at \in Nat /\ delivery[d].at <= clock
  BY <1>0 DEF DeliveryRows, DeliveryTimes
<1>3. ASSUME NEW k \in Rounds, NEW r \in Drivers, CheckIn(k, r) PROVE RoundInv'
  <2>1. /\ round[k].status = "none" /\ clock' = clock + 1 /\ UNCHANGED <<delivery, raced, cmd>>
        /\ \A other \in Rounds : ~(round[other].status = "ACTIVE" /\ round[other].driver = r)
        /\ round' = [round EXCEPT ![k] =
             [status |-> "ACTIVE", driver |-> r, from |-> clock', counted |-> {}, pay |-> 0]]
    BY <1>3 DEF CheckIn, Tick, AtOnce
  <2>2. /\ round'[k].status = "ACTIVE" /\ round'[k].driver = r /\ round'[k].from = clock + 1
        /\ round'[k].counted = {}
        /\ \A other \in Rounds : other # k => round'[other] = round[other]
    BY <1>0, <2>1
  <2>3. \A x \in Rounds : /\ \A d \in round'[x].counted \ raced' : PaidFor(d, x)'
                          /\ round'[x].status # "CLOSED" => round'[x].counted = {}
    BY <1>0, <2>1, <2>2 DEF PaidFor
  <2>4. RoundsApart'
    <3>1. ASSUME NEW other \in Rounds, other # k, round[other].status # "none",
                 round[other].driver = r
          PROVE  Earlier(other, k)'
      <4>1. round'[other] = round[other] /\ round[other].status = "CLOSED"
        BY <1>1, <2>1, <2>2, <3>1
      <4>2. \A d \in Deliveries : delivery[d].at < clock + 1
        BY <1>0, <1>2
      <4> QED
        BY <1>1, <2>1, <2>2, <4>1, <4>2 DEF Earlier
    <3>2. ASSUME NEW a \in Rounds, NEW b \in Rounds, a # k, b # k, Earlier(a, b)
          PROVE  Earlier(a, b)'
      BY <2>1, <2>2, <3>2 DEF Earlier
    <3> QED
      BY <1>0, <2>2, <3>1, <3>2 DEF RoundsApart
  <2>5. \A w \in Workers : CheckingOut(w)'
    BY <1>0, <2>1, <2>2 DEF CheckingOut, PaidFor, Sound
  <2> QED
    BY <2>3, <2>4, <2>5 DEF RoundInv
<1>4. ASSUME NEW w \in Workers, NEW k \in Rounds, CheckOutRead(w, k) PROVE RoundInv'
  <2> DEFINE X == {d \in Deliveries : /\ delivery[d].status = "DELIVERED"
                                      /\ delivery[d].driver = round[k].driver
                                      /\ delivery[d].at >= round[k].from}
             c == Command("checkout", k, Nothing, X, {k})
  <2>1. round[k].status = "ACTIVE" /\ Begin(w, c) /\ UNCHANGED <<delivery, round, raced>>
    BY <1>4 DEF CheckOutRead, road
  <2>2. c.op = "checkout" /\ c.doc = k /\ c.picked = X /\ c.locked = {k}
    BY DEF Command
  <2>3. \A d \in X : PaidFor(d, k)
    BY <1>1, <1>2 DEF PaidFor
  <2> HIDE DEF c, X
  <2>4. cmd'[w] = c /\ \A v \in Workers : v # w => cmd'[v] = cmd[v]
    BY <1>0, <2>1 DEF Begin
  <2>5. \A v \in Workers : CheckingOut(v)'
    BY <1>0, <2>1, <2>2, <2>3, <2>4 DEF CheckingOut, PaidFor
  <2>6. RoundsApart'
    BY <1>0, <2>1 DEF RoundsApart, Earlier
  <2> QED
    BY <1>0, <2>1, <2>5, <2>6 DEF RoundInv, PaidFor
<1>5. ASSUME NEW w \in Workers, CheckOutCommit(w) PROVE RoundInv'
  <2>0. PICK k : k = cmd[w].doc
    OBVIOUS
  <2>1. /\ cmd[w].op = "checkout" /\ End(w) /\ UNCHANGED <<delivery, raced>>
        /\ \E pay : round' = [round EXCEPT ![k].status = "CLOSED",
                                           ![k].counted = cmd[w].picked,
                                           ![k].pay = pay]
    BY <1>5, <2>0 DEF CheckOutCommit
  <2>2. /\ k \in Rounds /\ k \in cmd[w].locked /\ round[k].status = "ACTIVE"
        /\ cmd[w].picked \subseteq Deliveries
        /\ \A d \in cmd[w].picked \ raced : PaidFor(d, k)
    BY <1>0, <2>0, <2>1 DEF CheckingOut, Sound
  <2>3. /\ round'[k].status = "CLOSED" /\ round'[k].driver = round[k].driver
        /\ round'[k].from = round[k].from /\ round'[k].counted = cmd[w].picked
        /\ \A other \in Rounds : other # k => round'[other] = round[other]
    BY <1>0, <2>1, <2>2 DEF RoundRows
  <2>4. cmd'[w] = NoCommand /\ \A v \in Workers : v # w => cmd'[v] = cmd[v]
    BY <1>0, <2>1 DEF End
  <2>5. \A x \in Rounds : /\ \A d \in round'[x].counted \ raced' : PaidFor(d, x)'
                          /\ round'[x].status # "CLOSED" => round'[x].counted = {}
    BY <1>0, <2>1, <2>2, <2>3 DEF PaidFor
  <2>6. RoundsApart'
    <3>1. ASSUME NEW a \in Rounds, NEW b \in Rounds, Earlier(a, b) PROVE Earlier(a, b)'
      <4>1. a # k
        BY <2>2, <3>1 DEF Earlier
      <4> QED
        BY <2>1, <2>3, <3>1, <4>1 DEF Earlier
    <3> QED
      BY <1>0, <2>2, <2>3, <3>1 DEF RoundsApart
  <2>7. ASSUME NEW v \in Workers PROVE CheckingOut(v)'
    <3>1. CASE v = w
      BY <2>4, <3>1 DEF CheckingOut, NoCommand
    <3>2. CASE v # w
      <4>1. cmd'[v] = cmd[v]
        BY <2>4, <3>2
      <4>2. cmd[v].op = "checkout" => cmd[v].doc # k /\ cmd[v].doc \in Rounds
        BY <1>0, <2>2, <3>2 DEF CheckingOut, Sound, LocksApart
      <4> QED
        BY <1>0, <2>1, <2>3, <4>1, <4>2 DEF CheckingOut, PaidFor
    <3> QED
      BY <3>1, <3>2
  <2> QED
    BY <2>5, <2>6, <2>7 DEF RoundInv
<1>6. ASSUME UNCHANGED round, Elsewhere({"checkout"}) PROVE RoundInv'
  BY <1>6, RoundFrame
<1>7. ASSUME NEW w \in Workers, NEW op, NEW doc, NEW read, NEW picked, NEW locked,
             Begin(w, Command(op, doc, read, picked, locked)), op # "checkout"
      PROVE  Elsewhere({"checkout"})
  <2> DEFINE c == Command(op, doc, read, picked, locked)
  <2>1. c.op = op
    BY DEF Command
  <2> HIDE DEF c
  <2>2. cmd'[w] = c /\ \A v \in Workers : v # w => cmd'[v] = cmd[v]
    BY <1>0, <1>7 DEF Begin, c
  <2> QED
    BY <1>7, <2>1, <2>2 DEF Elsewhere
<1>8. ASSUME NEW w \in Workers,
             \/ \E d \in Deliveries : StatusRead(w, d)
             \/ \E t \in Settlements, r \in Drivers : SettleRead(w, t, r)
      PROVE  RoundInv'
  BY <1>6, <1>7, <1>8 DEF StatusRead, SettleRead, road
<1>9. ASSUME NEW w \in Workers, StatusCommit(w) \/ SettleCommit(w) PROVE RoundInv'
  <2>1. End(w) /\ UNCHANGED round
    BY <1>9 DEF StatusCommit, SettleCommit
  <2>2. Elsewhere({"checkout"})
    BY <2>1, EndElsewhere DEF Ends
  <2> QED
    BY <1>6, <2>1, <2>2
<1>10. ASSUME NEW d \in Deliveries, NEW r \in Drivers, Assign(d, r) PROVE RoundInv'
  BY <1>6, <1>10 DEF Assign, AtOnce, Elsewhere
<1>11. ASSUME NEW t \in Settlements, ReviewSettlement(t) PROVE RoundInv'
  BY <1>6, <1>11 DEF ReviewSettlement, AtOnce, Elsewhere
<1> QED
  BY <1>3, <1>4, <1>5, <1>8, <1>9, <1>10, <1>11 DEF DriverStep

\* No two rounds of a driver have a delivery in common.
LEMMA DeliveredOnce ==
  ASSUME Shape, SettleInv, RoundInv
  PROVE  DeliveryCountsOnce
<1>0. /\ delivery \in [Deliveries -> DeliveryRows] /\ round \in [Rounds -> RoundRows]
      /\ Settled /\ RoundsApart
      /\ \A k \in Rounds : /\ \A d \in round[k].counted \ raced : PaidFor(d, k)
                           /\ round[k].status # "CLOSED" => round[k].counted = {}
  BY DEF Shape, TypeOK, SettleInv, RoundInv
<1>1. ASSUME NEW d \in Deliveries \ raced, NEW k \in Rounds, NEW other \in Rounds, k # other,
             d \in round[k].counted, d \in round[other].counted
      PROVE  FALSE
  <2>1. delivery[d].at \in Nat /\ round[k].from \in Nat /\ round[other].from \in Nat
    BY <1>0 DEF DeliveryRows, RoundRows
  <2>2. PaidFor(d, k) /\ PaidFor(d, other) /\ round[k].status = "CLOSED" /\ round[other].status = "CLOSED"
    BY <1>0, <1>1
  <2>3. Earlier(k, other) \/ Earlier(other, k)
    BY <1>0, <1>1, <2>2 DEF RoundsApart, PaidFor
  <2> QED
    BY <1>1, <2>1, <2>2, <2>3 DEF Earlier, PaidFor
<1> QED
  BY <1>0, <1>1 DEF DeliveryCountsOnce, Settled

-----------------------------------------------------------------------------
(* The day.                                                                 *)

DayOps == {"dayTotal", "dayPending", "dayDrivers", "dayInsert"}

\* What the questions asked so far have found, of what was there when they began.
DayAsked(w) ==
  cmd[w].op \in DayOps =>
    /\ \A s \in Shifts : shift[s].status # "none" /\ shift[s].opened <= cmd[w].since =>
         /\ Over(s)
         /\ shift[s].status = "PENDING_REVIEW" => s \in cmd[w].under
         /\ cmd[w].op # "dayTotal" => s \in cmd[w].picked \cup cmd[w].under
         /\ cmd[w].op \in {"dayDrivers", "dayInsert"} => shift[s].status = "CLOSED"
    /\ \A d \in (CashOnDelivery \cap cmd[w].under) \ raced :
         /\ delivery[d].status = "DELIVERED"
         /\ cmd[w].op = "dayInsert" => delivery[d].settlement # Nothing

DayClosed ==
  /\ day.asked <= clock
  /\ day.status = "closed" =>
       /\ \A s \in Shifts : shift[s].status # "none" /\ shift[s].opened <= day.asked =>
            shift[s].status = "CLOSED" /\ s \in day.counted \cup day.under
       /\ \A d \in (CashOnDelivery \cap day.under) \ raced :
            delivery[d].status = "DELIVERED" /\ delivery[d].settlement # Nothing

DayInv == DayClosed /\ \A w \in Workers : DayAsked(w)

\* A shift goes on to its end, and one that is opened is opened later than now.
ShiftsGoOn ==
  \A s \in Shifts :
    /\ shift[s].status # "none" => shift'[s].opened = shift[s].opened
    /\ shift[s].status = "none" /\ shift'[s].status # "none" => clock < shift'[s].opened
    /\ Over(s) => shift'[s].status \in {shift[s].status, "CLOSED"}

LEMMA ShiftStepsGoOn ==
  ASSUME Shape, ShiftInv, ShiftStep
  PROVE  ShiftsGoOn
<1>0. /\ shift \in [Shifts -> ShiftRows] /\ clock \in Nat
      /\ \A v \in Workers : AtDrawer(v) /\ Sound(cmd[v])
  BY DEF Shape, TypeOK, CmdOK, ShiftInv
<1>1. CASE UNCHANGED shift
  BY <1>1 DEF ShiftsGoOn
<1>2. ASSUME NEW s \in Shifts, NEW c \in Cashiers, OpenShift(s, c) PROVE ShiftsGoOn
  <2>1. /\ shift[s].status = "none" /\ clock' = clock + 1
        /\ shift' = [shift EXCEPT ![s] =
             [status |-> "ACTIVE", cashier |-> c, opened |-> clock', until |-> 0,
              counted |-> {}, variance |-> 0]]
    BY <1>2 DEF OpenShift, Tick
  <2>2. shift'[s].opened = clock + 1 /\ \A other \in Shifts : other # s => shift'[other] = shift[other]
    BY <1>0, <2>1
  <2> QED
    BY <1>0, <2>1, <2>2 DEF ShiftsGoOn, Over
<1>3. ASSUME NEW s \in Shifts, ReviewShift(s) PROVE ShiftsGoOn
  <2>1. shift[s].status = "PENDING_REVIEW" /\ shift' = [shift EXCEPT ![s].status = "CLOSED"]
    BY <1>3 DEF ReviewShift
  <2>2. \A other \in Shifts :
          /\ shift'[other].opened = shift[other].opened
          /\ shift'[other].status = IF other = s THEN "CLOSED" ELSE shift[other].status
    BY <1>0, <2>1 DEF ShiftRows
  <2> QED
    BY <1>0, <2>1, <2>2 DEF ShiftsGoOn, Over
<1>4. ASSUME NEW w \in Workers, CloseCommit(w) PROVE ShiftsGoOn
  <2>1. PICK s : s = cmd[w].doc
    OBVIOUS
  <2>2. \E status \in {"CLOSED", "PENDING_REVIEW"} : \E variance :
          shift' = [shift EXCEPT ![s].status = status, ![s].until = cmd[w].since,
                                 ![s].counted = cmd[w].picked, ![s].variance = variance]
    BY <1>4, <2>1 DEF CloseCommit
  <2>3. s \in Shifts /\ shift[s].status = "ACTIVE"
    BY <1>0, <1>4, <2>1 DEF CloseCommit, AtDrawer, Closing, Sound
  <2>4. /\ shift'[s].opened = shift[s].opened
        /\ \A other \in Shifts : other # s => shift'[other] = shift[other]
    BY <1>0, <2>2, <2>3 DEF ShiftRows
  <2> QED
    BY <1>0, <2>3, <2>4 DEF ShiftsGoOn, Over
<1> QED
  BY <1>1, <1>2, <1>3, <1>4 DEF ShiftStep, CancelSale, EntryRead, EntryCommit, SaleRead,
     SaleCommit, CloseRead, drawer

LEMMA DayFrame ==
  ASSUME Shape, Shape', SincePast, DayInv, UNCHANGED day, ShiftsGoOn, DeliveredStays,
         Elsewhere(DayOps), clock <= clock'
  PROVE  DayInv'
<1>0. /\ clock \in Nat /\ clock' \in Nat /\ day.asked \in Nat
      /\ CashOnDelivery \subseteq Deliveries
      /\ DayClosed
      /\ \A w \in Workers : DayAsked(w) /\ cmd[w].since \in Nat /\ cmd[w].since <= clock
  BY KindsHold DEF Kinds, Shape, TypeOK, CmdOK, Commands, DayInv, SincePast
<1>1. \A s \in Shifts : shift'[s].opened \in Nat
  <2>1. shift' \in [Shifts -> ShiftRows]
    BY DEF Shape, TypeOK
  <2> QED
    BY <2>1 DEF ShiftRows
\* A shift that was there at some moment was there before the step.
<1>2. ASSUME NEW since \in Nat, since <= clock, NEW s \in Shifts,
             shift'[s].status # "none", shift'[s].opened <= since
      PROVE  shift[s].status # "none" /\ shift[s].opened <= since
  <2>1. shift[s].status = "none" => clock < shift'[s].opened
    BY <1>2 DEF ShiftsGoOn
  <2>2. shift[s].status # "none"
    BY <1>0, <1>1, <1>2, <2>1
  <2> QED
    BY <1>2, <2>2 DEF ShiftsGoOn
<1>3. ASSUME NEW w \in Workers PROVE DayAsked(w)'
  <2>1. CASE cmd'[w] = cmd[w]
    <3> SUFFICES ASSUME cmd[w].op \in DayOps
                 PROVE  DayAsked(w)'
      BY <2>1 DEF DayAsked
    <3>1. ASSUME NEW s \in Shifts, shift'[s].status # "none", shift'[s].opened <= cmd[w].since
          PROVE  /\ (Over(s))'
                 /\ shift'[s].status = "PENDING_REVIEW" => s \in cmd[w].under
                 /\ cmd[w].op # "dayTotal" => s \in cmd[w].picked \cup cmd[w].under
                 /\ cmd[w].op \in {"dayDrivers", "dayInsert"} => shift'[s].status = "CLOSED"
      <4>1. shift[s].status # "none" /\ shift[s].opened <= cmd[w].since
        BY <1>0, <1>2, <3>1
      <4>2. /\ Over(s)
            /\ shift[s].status = "PENDING_REVIEW" => s \in cmd[w].under
            /\ cmd[w].op # "dayTotal" => s \in cmd[w].picked \cup cmd[w].under
            /\ cmd[w].op \in {"dayDrivers", "dayInsert"} => shift[s].status = "CLOSED"
        BY <1>0, <4>1 DEF DayAsked
      <4>3. shift'[s].status \in {shift[s].status, "CLOSED"}
        BY <4>2 DEF ShiftsGoOn
      <4> QED
        BY <4>2, <4>3 DEF Over
    <3>2. ASSUME NEW d \in (CashOnDelivery \cap cmd[w].under) \ raced'
          PROVE  /\ delivery'[d].status = "DELIVERED"
                 /\ cmd[w].op = "dayInsert" => delivery'[d].settlement # Nothing
      <4>1. d \in Deliveries /\ d \notin raced
        BY <1>0 DEF DeliveredStays
      <4> QED
        BY <1>0, <4>1 DEF DayAsked, DeliveredStays
    <3> QED
      BY <2>1, <3>1, <3>2 DEF DayAsked
  <2>2. CASE cmd'[w].op \notin DayOps
    BY <2>2 DEF DayAsked
  <2> QED
    BY <2>1, <2>2 DEF Elsewhere
<1>4. DayClosed'
  <2>1. day.asked <= clock'
    BY <1>0 DEF DayClosed
  <2>2. ASSUME day.status = "closed", NEW s \in Shifts,
               shift'[s].status # "none", shift'[s].opened <= day.asked
        PROVE  shift'[s].status = "CLOSED" /\ s \in day.counted \cup day.under
    <3>1. shift[s].status # "none" /\ shift[s].opened <= day.asked
      BY <1>0, <1>2, <2>2 DEF DayClosed
    <3>2. shift[s].status = "CLOSED" /\ s \in day.counted \cup day.under
      BY <1>0, <2>2, <3>1 DEF DayClosed
    <3> QED
      BY <3>2 DEF ShiftsGoOn, Over
  <2>3. ASSUME day.status = "closed", NEW d \in (CashOnDelivery \cap day.under) \ raced'
        PROVE  delivery'[d].status = "DELIVERED" /\ delivery'[d].settlement # Nothing
    <3>1. d \in Deliveries /\ d \notin raced
      BY <1>0, <2>3 DEF DeliveredStays
    <3> QED
      BY <1>0, <2>3, <3>1 DEF DayClosed, DeliveredStays
  <2> QED
    BY <2>1, <2>2, <2>3 DEF DayClosed
<1> QED
  BY <1>3, <1>4 DEF DayInv

\* What the answer to a question adds to the questions before.
Answers(w, to, picked) ==
  /\ cmd[w].op \in DayOps /\ to \in DayOps
  /\ cmd' = [cmd EXCEPT ![w].op = to, ![w].picked = picked]
  /\ UNCHANGED <<clock, drawer, road, day>>
  /\ \A s \in Shifts :
       /\ shift[s].status = "CLOSED" =>
            s \in picked \/ (cmd[w].op # "dayTotal" /\ picked = cmd[w].picked)
       /\ to \in {"dayDrivers", "dayInsert"} =>
            \/ shift[s].status # "PENDING_REVIEW"
            \/ cmd[w].op \in {"dayDrivers", "dayInsert"}
  /\ to = "dayInsert" => OnTheRoad = {}

LEMMA DaySteps ==
  ASSUME Shape, SincePast, DayInv, DayStep
  PROVE  DayInv'
<1>0. /\ shift \in [Shifts -> ShiftRows] /\ cmd \in [Workers -> Commands]
      /\ clock \in Nat /\ day.asked \in Nat
      /\ CashOnDelivery \subseteq Deliveries /\ Shifts \cap Deliveries = {}
      /\ DayClosed
      /\ \A w \in Workers : DayAsked(w) /\ cmd[w].since \in Nat /\ cmd[w].since <= clock
  BY KindsHold, DayAssumption
  DEF Kinds, Shape, TypeOK, CmdOK, Commands, DayInv, SincePast
<1>1. \A s \in Shifts : shift[s].status \in {"none", "ACTIVE", "PENDING_REVIEW", "CLOSED"}
  BY <1>0 DEF ShiftRows
\* A question asked moves one command on.
<1>2. ASSUME NEW w \in Workers, UNCHANGED <<clock, drawer, road, day>>, DayAsked(w)',
             \A v \in Workers : v # w => cmd'[v] = cmd[v]
      PROVE  DayInv'
  <2>1. UNCHANGED <<shift, delivery, raced, clock, day>>
    BY <1>2 DEF drawer, road
  <2>2. DayClosed'
    BY <1>0, <2>1 DEF DayClosed
  <2>3. \A v \in Workers : DayAsked(v)'
    BY <1>0, <1>2, <2>1 DEF DayAsked, Over
  <2> QED
    BY <2>2, <2>3 DEF DayInv
<1>3. ASSUME NEW w \in Workers, DayActive(w) PROVE DayInv'
  <2> DEFINE c == [Command("dayTotal", Day, Nothing, {}, {})
                   EXCEPT !.under = InState("PENDING_REVIEW") \cup OnTheRoad]
  <2>1. InState("ACTIVE") = {} /\ Begin(w, c) /\ UNCHANGED <<clock, drawer, road, day>>
    BY <1>3 DEF DayActive
  <2>2. c.op = "dayTotal" /\ c.under = InState("PENDING_REVIEW") \cup OnTheRoad
    BY DEF Command
  <2> HIDE DEF c
  <2>3. cmd'[w] = c /\ \A v \in Workers : v # w => cmd'[v] = cmd[v]
    BY <1>0, <2>1 DEF Begin
  <2>4. UNCHANGED <<shift, delivery, raced>>
    BY <2>1 DEF drawer, road
  <2>5. ASSUME NEW s \in Shifts, shift[s].status # "none"
        PROVE  Over(s) /\ (shift[s].status = "PENDING_REVIEW" => s \in c.under)
    BY <1>1, <2>1, <2>2, <2>5 DEF InState, Over
  <2>6. \A d \in CashOnDelivery \cap c.under : delivery[d].status = "DELIVERED"
    BY <1>0, <2>2 DEF InState, OnTheRoad
  <2>7. DayAsked(w)'
    BY <2>2, <2>3, <2>4, <2>5, <2>6 DEF DayAsked, Over
  <2> QED
    BY <1>2, <2>1, <2>3, <2>7
<1>4. ASSUME NEW w \in Workers, NEW to, NEW picked, Answers(w, to, picked)
      PROVE  DayInv'
  <2>1. /\ cmd'[w].op = to /\ cmd'[w].picked = picked /\ cmd'[w].since = cmd[w].since
        /\ cmd'[w].under = cmd[w].under
        /\ \A v \in Workers : v # w => cmd'[v] = cmd[v]
    BY <1>0, <1>4 DEF Answers, Commands
  <2>2. UNCHANGED <<shift, delivery, raced>>
    BY <1>4 DEF Answers, drawer, road
  <2>3. ASSUME NEW s \in Shifts, shift[s].status # "none", shift[s].opened <= cmd[w].since
        PROVE  /\ Over(s)
               /\ shift[s].status = "PENDING_REVIEW" => s \in cmd[w].under
               /\ s \in picked \cup cmd[w].under
               /\ to \in {"dayDrivers", "dayInsert"} => shift[s].status = "CLOSED"
    BY <1>0, <1>4, <2>3 DEF Answers, DayAsked, Over
  <2>4. ASSUME NEW d \in (CashOnDelivery \cap cmd[w].under) \ raced
        PROVE  /\ delivery[d].status = "DELIVERED"
               /\ to = "dayInsert" => delivery[d].settlement # Nothing
    BY <1>0, <1>4 DEF Answers, DayAsked, OnTheRoad
  <2>5. DayAsked(w)'
    BY <1>4, <2>1, <2>2, <2>3, <2>4 DEF Answers, DayAsked, Over
  <2> QED
    BY <1>2, <1>4, <2>1, <2>5 DEF Answers
<1>5. ASSUME NEW w \in Workers, DayTotal(w) PROVE DayInv'
  <2>0. PICK closed : closed = InState("CLOSED")
    OBVIOUS
  <2>1. /\ cmd[w].op = "dayTotal" /\ UNCHANGED <<clock, drawer, road, day>>
        /\ cmd' = [cmd EXCEPT ![w].op = "dayPending", ![w].picked = closed]
    BY <1>5, <2>0 DEF DayTotal
  <2>2. \A s \in Shifts : shift[s].status = "CLOSED" => s \in closed
    BY <2>0 DEF InState
  <2>3. Answers(w, "dayPending", closed)
    BY <2>1, <2>2 DEF Answers, DayOps
  <2> QED
    BY <1>4, <2>3
<1>6. ASSUME NEW w \in Workers, NEW from \in DayOps \ {"dayTotal"},
             NEW to \in {"dayDrivers", "dayInsert"}, Asking(w, from, to)
      PROVE  /\ cmd[w].op = from
             /\ cmd' = [cmd EXCEPT ![w].op = to, ![w].picked = cmd[w].picked]
             /\ UNCHANGED <<clock, drawer, road, day>>
  <2>1. cmd[w].op = from /\ cmd' = [cmd EXCEPT ![w].op = to]
    BY <1>6 DEF Asking
  <2>2. cmd' = [cmd EXCEPT ![w].op = to, ![w].picked = cmd[w].picked]
    BY <1>0, <2>1 DEF Commands
  <2> QED
    BY <1>6, <2>1, <2>2 DEF Asking
<1>7. ASSUME NEW w \in Workers, DayPending(w) PROVE DayInv'
  <2>1. InState("PENDING_REVIEW") = {} /\ Asking(w, "dayPending", "dayDrivers")
    BY <1>7 DEF DayPending
  <2>2. \A s \in Shifts : shift[s].status # "PENDING_REVIEW"
    BY <2>1 DEF InState
  <2>3. /\ cmd[w].op = "dayPending" /\ UNCHANGED <<clock, drawer, road, day>>
        /\ cmd' = [cmd EXCEPT ![w].op = "dayDrivers", ![w].picked = cmd[w].picked]
    BY <1>6, <2>1 DEF DayOps
  <2>4. Answers(w, "dayDrivers", cmd[w].picked)
    BY <2>2, <2>3 DEF Answers, DayOps
  <2> QED
    BY <1>4, <2>4
<1>8. ASSUME NEW w \in Workers, DayDrivers(w) PROVE DayInv'
  <2>1. OnTheRoad = {} /\ Asking(w, "dayDrivers", "dayInsert")
    BY <1>8 DEF DayDrivers
  <2>2. /\ cmd[w].op = "dayDrivers" /\ UNCHANGED <<clock, drawer, road, day>>
        /\ cmd' = [cmd EXCEPT ![w].op = "dayInsert", ![w].picked = cmd[w].picked]
    BY <1>6, <2>1 DEF DayOps
  <2>3. Answers(w, "dayInsert", cmd[w].picked)
    BY <2>1, <2>2 DEF Answers, DayOps
  <2> QED
    BY <1>4, <2>3
<1>9. ASSUME NEW w \in Workers, DayInsert(w) PROVE DayInv'
  <2>1. /\ cmd[w].op = "dayInsert" /\ End(w) /\ UNCHANGED <<shift, delivery, raced>>
        /\ day' = [status |-> "closed", asked |-> cmd[w].since, under |-> cmd[w].under,
                   counted |-> cmd[w].picked]
    BY <1>9 DEF DayInsert, drawer, road
  <2>2. /\ day'.asked = cmd[w].since /\ day'.under = cmd[w].under
        /\ day'.counted = cmd[w].picked
    BY <2>1
  <2>3. /\ cmd'[w] = NoCommand /\ clock' = clock
        /\ \A v \in Workers : v # w => cmd'[v] = cmd[v]
    BY <1>0, <2>1 DEF End
  <2>4. DayClosed'
    BY <1>0, <2>1, <2>2, <2>3 DEF DayClosed, DayAsked, DayOps
  <2>5. \A v \in Workers : DayAsked(v)'
    BY <1>0, <2>1, <2>3 DEF DayAsked, DayOps, NoCommand, Over
  <2> QED
    BY <2>4, <2>5 DEF DayInv
<1> QED
  BY <1>3, <1>5, <1>7, <1>8, <1>9 DEF DayStep

-----------------------------------------------------------------------------
(* The journal.                                                             *)

ShiftBooks ==
  \A s \in Shifts : BookedFor(s, IF shift[s].status = "CLOSED" THEN shift[s].variance ELSE 0)

EntryBooks == \A e \in Entries : BookedFor(e, IF movement[e].status = "in" THEN 1 ELSE 0)

SettlementBooks ==
  \A t \in Settlements :
    BookedFor(t, settlement[t].variance) /\ (settlement[t].status = "none" => settlement[t].variance = 0)

RoundBooks ==
  \A k \in Rounds : BookedFor(k, round[k].pay) /\ (round[k].status # "CLOSED" => round[k].pay = 0)

RunBooks ==
  \A p \in Runs :
    IF run[p].status = "CANCELLED"
    THEN run[p].net = 0 \/ journal[p] = [status |-> "REVERSED", amount |-> run[p].net]
    ELSE BookedFor(p, IF run[p].status = "APPROVED" THEN run[p].net ELSE 0)

BookInv == ShiftBooks /\ EntryBooks /\ SettlementBooks /\ RoundBooks /\ RunBooks

\* Nothing but the entry of x is written.
OnlyAt(x) == \A y \in Things : y # x => journal'[y] = journal[y]

LEMMA BookedNow ==
  ASSUME Shape, NEW x \in Things, NEW amount \in Int, BookedFor(x, 0), Book(x, amount)
  PROVE  OnlyAt(x) /\ journal'[x] = IF amount = 0 THEN NoEntry ELSE [status |-> "POSTED", amount |-> amount]
BY DEF Shape, TypeOK, BookedFor, Book, NoEntry, OnlyAt

\* What the entries of a table rest on is its rows, and its part of the journal.
SameIn(X) == \A x \in X : journal'[x] = journal[x]

LEMMA BooksRest ==
  ASSUME BookInv
  PROVE  /\ UNCHANGED shift /\ SameIn(Shifts) => ShiftBooks'
         /\ UNCHANGED movement /\ SameIn(Entries) => EntryBooks'
         /\ UNCHANGED settlement /\ SameIn(Settlements) => SettlementBooks'
         /\ UNCHANGED round /\ SameIn(Rounds) => RoundBooks'
         /\ UNCHANGED run /\ SameIn(Runs) => RunBooks'
BY DEF BookInv, SameIn, ShiftBooks, EntryBooks, SettlementBooks, RoundBooks, RunBooks, BookedFor,
   NoEntry

LEMMA BooksApart ==
  ASSUME NEW x \in Things, OnlyAt(x)
  PROVE  /\ x \notin Shifts => SameIn(Shifts)
         /\ x \notin Entries => SameIn(Entries)
         /\ x \notin Settlements => SameIn(Settlements)
         /\ x \notin Rounds => SameIn(Rounds)
         /\ x \notin Runs => SameIn(Runs)
BY KindsHold DEF Kinds, Movements, OnlyAt, SameIn

LEMMA BooksAsTheyWere ==
  ASSUME UNCHANGED journal
  PROVE  /\ SameIn(Shifts) /\ SameIn(Entries) /\ SameIn(Settlements) /\ SameIn(Rounds)
         /\ SameIn(Runs)
BY DEF SameIn

LEMMA ShiftStepsBook ==
  ASSUME Shape, ShiftInv, BookInv, ShiftStep, UNCHANGED <<road, paper, day>>
  PROVE  BookInv'
<1>0. /\ shift \in [Shifts -> ShiftRows] /\ movement \in [Movements -> MovementRows]
      /\ UNCHANGED <<settlement, round, run>>
      /\ \A v \in Workers : AtDrawer(v) /\ Sound(cmd[v])
      /\ ShiftBooks /\ EntryBooks
      /\ Shifts \subseteq Things /\ Entries \subseteq Things /\ Entries \subseteq Movements
      /\ Entries \cap Sales = {} /\ Sales \subseteq Movements
      /\ Shifts \cap (Entries \cup Settlements \cup Rounds \cup Runs) = {}
      /\ Entries \cap (Settlements \cup Rounds \cup Runs) = {}
  BY KindsHold, ShiftAssumption, DayAssumption
  DEF Kinds, Movements, Shape, TypeOK, CmdOK, ShiftInv, BookInv, road, paper
\* A shift is written, and the others keep theirs.
<1>1. ASSUME NEW s \in Shifts, NEW amount \in Int, shift[s].status # "CLOSED", Book(s, amount),
             UNCHANGED movement, \A other \in Shifts : other # s => shift'[other] = shift[other],
             amount = IF shift'[s].status = "CLOSED" THEN shift'[s].variance ELSE 0
      PROVE  BookInv'
  <2>1. BookedFor(s, 0)
    BY <1>0, <1>1 DEF ShiftBooks
  <2>2. OnlyAt(s) /\ journal'[s] = IF amount = 0 THEN NoEntry ELSE [status |-> "POSTED", amount |-> amount]
    BY <1>0, <1>1, <2>1, BookedNow
  <2>3. ShiftBooks'
    BY <1>0, <1>1, <2>2 DEF ShiftBooks, BookedFor, OnlyAt, NoEntry
  <2>4. SameIn(Entries) /\ SameIn(Settlements) /\ SameIn(Rounds) /\ SameIn(Runs)
    BY <1>0, <2>2, BooksApart
  <2> QED
    BY <1>0, <1>1, <2>3, <2>4, BooksRest DEF BookInv
<1>2. ASSUME NEW s \in Shifts, ReviewShift(s) PROVE BookInv'
  <2>1. /\ shift[s].status = "PENDING_REVIEW" /\ UNCHANGED movement /\ Book(s, shift[s].variance)
        /\ shift' = [shift EXCEPT ![s].status = "CLOSED"]
    BY <1>2 DEF ReviewShift
  <2>2. /\ shift'[s].status = "CLOSED" /\ shift'[s].variance = shift[s].variance
        /\ shift[s].variance \in Int
        /\ \A other \in Shifts : other # s => shift'[other] = shift[other]
    BY <1>0, <2>1 DEF ShiftRows
  <2> QED
    BY <1>1, <2>1, <2>2
<1>3. ASSUME NEW s \in Shifts, NEW c \in Cashiers, OpenShift(s, c) PROVE BookInv'
  <2>1. /\ shift[s].status = "none" /\ UNCHANGED <<journal, movement>>
        /\ shift' = [shift EXCEPT ![s] =
             [status |-> "ACTIVE", cashier |-> c, opened |-> clock', until |-> 0,
              counted |-> {}, variance |-> 0]]
    BY <1>3 DEF OpenShift, AtOnce
  <2>2. /\ shift'[s].status = "ACTIVE"
        /\ \A other \in Shifts : other # s => shift'[other] = shift[other]
    BY <1>0, <2>1
  <2>3. ShiftBooks'
    BY <1>0, <2>1, <2>2 DEF ShiftBooks, BookedFor, NoEntry
  <2> QED
    BY <1>0, <2>1, <2>3, BooksRest, BooksAsTheyWere DEF BookInv
<1>4. ASSUME NEW x \in Sales, CancelSale(x) PROVE BookInv'
  <2>1. /\ UNCHANGED <<journal, shift>> /\ movement' = [movement EXCEPT ![x].status = "cancelled"]
    BY <1>4 DEF CancelSale, AtOnce
  <2>2. \A e \in Entries : movement'[e] = movement[e]
    BY <1>0, <2>1
  <2>3. EntryBooks'
    BY <1>0, <2>1, <2>2 DEF EntryBooks, BookedFor, NoEntry
  <2> QED
    BY <1>0, <2>1, <2>3, BooksRest, BooksAsTheyWere DEF BookInv
<1>5. ASSUME NEW w \in Workers, EntryCommit(w) PROVE BookInv'
  <2>0. PICK e : e = cmd[w].doc
    OBVIOUS
  <2>1. /\ e \in Entries /\ movement[e].status = "none" /\ UNCHANGED shift /\ Book(e, 1)
    BY <1>0, <1>5, <2>0 DEF EntryCommit, AtDrawer, Writing, Sound
  <2>2. \E s, at, late :
          movement' = [movement EXCEPT ![e] =
            [status |-> "in", cashier |-> shift[s].cashier, at |-> at, of |-> s, late |-> late]]
    BY <1>5, <2>0 DEF EntryCommit
  <2>3. /\ movement'[e].status = "in"
        /\ \A other \in Entries : other # e => movement'[other] = movement[other]
    BY <1>0, <2>1, <2>2
  <2>4. BookedFor(e, 0)
    BY <1>0, <2>1 DEF EntryBooks
  <2>5. OnlyAt(e) /\ journal'[e] = [status |-> "POSTED", amount |-> 1]
    BY <1>0, <2>1, <2>4, BookedNow
  <2>6. EntryBooks'
    BY <1>0, <2>3, <2>5 DEF EntryBooks, BookedFor, OnlyAt, NoEntry
  <2>7. SameIn(Shifts) /\ SameIn(Settlements) /\ SameIn(Rounds) /\ SameIn(Runs)
    BY <1>0, <2>1, <2>5, BooksApart
  <2> QED
    BY <1>0, <2>1, <2>6, <2>7, BooksRest DEF BookInv
<1>6. ASSUME NEW w \in Workers, NEW c \in Cashiers, SaleCommit(w, c) PROVE BookInv'
  <2>1. UNCHANGED <<journal, shift>> /\ \A e \in Entries : movement'[e] = movement[e]
    BY <1>0, <1>6 DEF SaleCommit, Sound
  <2>2. EntryBooks'
    BY <1>0, <2>1 DEF EntryBooks, BookedFor, NoEntry
  <2> QED
    BY <1>0, <2>1, <2>2, BooksRest, BooksAsTheyWere DEF BookInv
<1>7. ASSUME NEW w \in Workers, CloseCommit(w) PROVE BookInv'
  <2>0. PICK s : s = cmd[w].doc
    OBVIOUS
  <2>1. /\ s \in Shifts /\ shift[s].status = "ACTIVE" /\ UNCHANGED movement
        /\ cmd[w].picked \subseteq Movements
    BY <1>0, <1>7, <2>0 DEF CloseCommit, AtDrawer, Closing, Sound
  <2>2. Expected(cmd[w].picked) \in Int
    <3>1. /\ Cardinality(cmd[w].picked \cap Sales) \in Nat
          /\ Cardinality(cmd[w].picked \cap Entries) \in Nat
      BY <2>1, Numbers, KindsHold DEF Kinds
    <3> QED
      BY <3>1, Bounds DEF Expected
  <2>3. PICK variance \in Int, fine \in BOOLEAN :
          /\ shift' = [shift EXCEPT ![s].status = IF fine THEN "CLOSED" ELSE "PENDING_REVIEW",
                                    ![s].until = cmd[w].since,
                                    ![s].counted = cmd[w].picked,
                                    ![s].variance = variance]
          /\ Book(s, IF fine THEN variance ELSE 0)
    <3> DEFINE variance(cash) == cash - Expected(cmd[w].picked)
               fine(cash) == Within(variance(cash), Tolerated)
    <3>1. PICK cash \in 0..MaxCash :
            /\ shift' = [shift EXCEPT
                 ![s].status = IF fine(cash) THEN "CLOSED" ELSE "PENDING_REVIEW",
                 ![s].until = cmd[w].since,
                 ![s].counted = cmd[w].picked,
                 ![s].variance = variance(cash)]
            /\ Book(s, IF fine(cash) THEN variance(cash) ELSE 0)
      BY <1>7, <2>0 DEF CloseCommit
    <3>2. variance(cash) \in Int /\ fine(cash) \in BOOLEAN
      BY <2>2, <3>1, Bounds DEF Within
    <3> HIDE DEF variance, fine
    <3> QED
      BY <3>1, <3>2
  <2>4. /\ shift'[s].status = IF fine THEN "CLOSED" ELSE "PENDING_REVIEW"
        /\ shift'[s].variance = variance
        /\ \A other \in Shifts : other # s => shift'[other] = shift[other]
    BY <1>0, <2>1, <2>3 DEF ShiftRows
  <2>5. PICK amount \in Int : amount = IF fine THEN variance ELSE 0
    OBVIOUS
  <2>6. /\ shift[s].status # "CLOSED" /\ Book(s, amount)
        /\ amount = IF shift'[s].status = "CLOSED" THEN shift'[s].variance ELSE 0
    BY <2>1, <2>3, <2>4, <2>5
  <2> QED
    BY <1>1, <2>1, <2>4, <2>6
<1>8. CASE UNCHANGED <<journal, shift, movement>>
  BY <1>0, <1>8, BooksRest, BooksAsTheyWere DEF BookInv
<1> QED
  BY <1>2, <1>3, <1>4, <1>5, <1>6, <1>7, <1>8 DEF ShiftStep, EntryRead, SaleRead, CloseRead,
     Begin, drawer

LEMMA DriverStepsBook ==
  ASSUME Shape, SettleInv, RoundInv, BookInv, DriverStep, UNCHANGED <<drawer, paper, day>>
  PROVE  BookInv'
<1>0. /\ settlement \in [Settlements -> SettlementRows] /\ round \in [Rounds -> RoundRows]
      /\ UNCHANGED <<shift, movement, run>>
      /\ \A v \in Workers : AtRoad(v) /\ CheckingOut(v) /\ Sound(cmd[v])
      /\ SettlementBooks /\ RoundBooks
      /\ Settlements \subseteq Things /\ Rounds \subseteq Things /\ Deliveries \subseteq Things
      /\ (Settlements \cup Rounds) \cap (Shifts \cup Entries \cup Runs) = {}
      /\ Settlements \cap Rounds = {}
  BY KindsHold, DayAssumption
  DEF Kinds, Shape, TypeOK, CmdOK, SettleInv, RoundInv, BookInv, drawer, paper
<1>1. ASSUME NEW t \in Settlements, ReviewSettlement(t) PROVE BookInv'
  <2>1. /\ settlement' = [settlement EXCEPT ![t].status = "REVIEWED"]
        /\ UNCHANGED <<journal, round>>
    BY <1>1 DEF ReviewSettlement, AtOnce
  <2>2. \A x \in Settlements : /\ settlement'[x].variance = settlement[x].variance
                               /\ settlement'[x].status = "none" => settlement[x].status = "none"
    BY <1>0, <2>1 DEF SettlementRows
  <2>3. SettlementBooks'
    BY <1>0, <2>1, <2>2 DEF SettlementBooks, BookedFor, NoEntry
  <2> QED
    BY <1>0, <2>1, <2>3, BooksRest, BooksAsTheyWere DEF BookInv
<1>2. ASSUME NEW k \in Rounds, NEW r \in Drivers, CheckIn(k, r) PROVE BookInv'
  <2>1. /\ round[k].status = "none" /\ UNCHANGED <<journal, settlement>>
        /\ round' = [round EXCEPT ![k] =
             [status |-> "ACTIVE", driver |-> r, from |-> clock', counted |-> {}, pay |-> 0]]
    BY <1>2 DEF CheckIn, AtOnce
  <2>2. round'[k].pay = 0 /\ \A other \in Rounds : other # k => round'[other] = round[other]
    BY <1>0, <2>1
  <2>3. RoundBooks'
    BY <1>0, <2>1, <2>2 DEF RoundBooks, BookedFor, NoEntry
  <2> QED
    BY <1>0, <2>1, <2>3, BooksRest, BooksAsTheyWere DEF BookInv
<1>3. ASSUME NEW w \in Workers, SettleCommit(w) PROVE BookInv'
  <2>0. PICK t : t = cmd[w].doc
    OBVIOUS
  <2>1. /\ t \in Settlements /\ settlement[t].status = "none" /\ UNCHANGED round
        /\ cmd[w].picked \subseteq Deliveries
    BY <1>0, <1>3, <2>0 DEF SettleCommit, AtRoad, Sound
  <2>2. PICK variance \in Int, status \in {"NONE", "PENDING_REVIEW"} :
          /\ settlement' = [settlement EXCEPT ![t] =
               [status |-> status, orders |-> cmd[w].picked, variance |-> variance]]
          /\ Book(t, variance)
    <3> DEFINE variance(handed) == handed - Cardinality(cmd[w].picked \cap CashOnDelivery)
    <3>1. PICK handed \in 0..MaxHanded :
            /\ settlement' = [settlement EXCEPT ![t] =
                 [status |-> IF Within(variance(handed), Accepted) THEN "NONE" ELSE "PENDING_REVIEW",
                  orders |-> cmd[w].picked, variance |-> variance(handed)]]
            /\ Book(t, variance(handed))
      BY <1>3, <2>0 DEF SettleCommit
    <3>2. variance(handed) \in Int
      <4>1. Cardinality(cmd[w].picked \cap CashOnDelivery) \in Nat
        BY <1>0, <2>1, Numbers
      <4> QED
        BY <3>1, <4>1, Bounds
    <3> HIDE DEF variance
    <3> QED
      BY <3>1, <3>2
  <2>3. /\ settlement'[t].status # "none" /\ settlement'[t].variance = variance
        /\ \A x \in Settlements : x # t => settlement'[x] = settlement[x]
    BY <1>0, <2>1, <2>2
  <2>4. BookedFor(t, 0)
    BY <1>0, <2>1 DEF SettlementBooks
  <2>5. OnlyAt(t) /\ journal'[t] = IF variance = 0 THEN NoEntry ELSE [status |-> "POSTED", amount |-> variance]
    BY <1>0, <2>1, <2>2, <2>4, BookedNow
  <2>6. SettlementBooks'
    BY <1>0, <2>3, <2>5 DEF SettlementBooks, BookedFor, OnlyAt, NoEntry
  <2>7. SameIn(Shifts) /\ SameIn(Entries) /\ SameIn(Rounds) /\ SameIn(Runs)
    BY <1>0, <2>1, <2>5, BooksApart
  <2> QED
    BY <1>0, <2>1, <2>6, <2>7, BooksRest DEF BookInv
<1>4. ASSUME NEW w \in Workers, CheckOutCommit(w) PROVE BookInv'
  <2>0. PICK k : k = cmd[w].doc
    OBVIOUS
  <2>1. /\ k \in Rounds /\ round[k].status = "ACTIVE" /\ UNCHANGED settlement
        /\ cmd[w].picked \subseteq Deliveries
    BY <1>0, <1>4, <2>0 DEF CheckOutCommit, CheckingOut, Sound
  <2>2. PICK pay \in Int :
          /\ round' = [round EXCEPT ![k].status = "CLOSED", ![k].counted = cmd[w].picked,
                                    ![k].pay = pay]
          /\ Book(k, pay)
    <3>1. PICK wage \in 0..MaxWage :
            /\ round' = [round EXCEPT ![k].status = "CLOSED",
                                      ![k].counted = cmd[w].picked,
                                      ![k].pay = wage + Cardinality(cmd[w].picked)]
            /\ Book(k, wage + Cardinality(cmd[w].picked))
      BY <1>4, <2>0 DEF CheckOutCommit
    <3>2. Cardinality(cmd[w].picked) \in Nat
      BY <1>0, <2>1, Numbers
    <3>3. wage + Cardinality(cmd[w].picked) \in Int
      BY <3>1, <3>2, Bounds
    <3> QED
      BY <3>1, <3>3
  <2>3. /\ round'[k].status = "CLOSED" /\ round'[k].pay = pay
        /\ \A other \in Rounds : other # k => round'[other] = round[other]
    BY <1>0, <2>1, <2>2 DEF RoundRows
  <2>4. BookedFor(k, 0)
    BY <1>0, <2>1 DEF RoundBooks
  <2>5. OnlyAt(k) /\ journal'[k] = IF pay = 0 THEN NoEntry ELSE [status |-> "POSTED", amount |-> pay]
    BY <1>0, <2>1, <2>2, <2>4, BookedNow
  <2>6. RoundBooks'
    BY <1>0, <2>3, <2>5 DEF RoundBooks, BookedFor, OnlyAt, NoEntry
  <2>7. SameIn(Shifts) /\ SameIn(Entries) /\ SameIn(Settlements) /\ SameIn(Runs)
    BY <1>0, <2>1, <2>5, BooksApart
  <2> QED
    BY <1>0, <2>1, <2>6, <2>7, BooksRest DEF BookInv
<1>5. CASE UNCHANGED <<journal, settlement, round>>
  BY <1>0, <1>5, BooksRest, BooksAsTheyWere DEF BookInv
<1> QED
  BY <1>1, <1>2, <1>3, <1>4, <1>5 DEF DriverStep, Assign, AtOnce, StatusRead, StatusCommit,
     SettleRead, CheckOutRead, Begin, road

LEMMA PayrollStepsBook ==
  ASSUME Shape, PayrollInv, BookInv, PayrollStep, UNCHANGED <<drawer, road, day>>
  PROVE  BookInv'
<1>0. /\ run \in [Runs -> RunRows] /\ UNCHANGED <<shift, movement, settlement, round>>
      /\ \A v \in Workers : Registering(v) /\ Approving(v) /\ Sound(cmd[v])
      /\ RunBooks /\ Runs \subseteq Things
      /\ Runs \cap (Shifts \cup Entries \cup Settlements \cup Rounds) = {}
      /\ journal \in [Things -> JournalRows]
  BY KindsHold, DayAssumption
  DEF Kinds, Shape, TypeOK, CmdOK, PayrollInv, BookInv, drawer, road, JournalRows
\* The entry of a run is written, and the others keep theirs.
<1>1. ASSUME NEW p \in Runs, OnlyAt(p), RunBooks' PROVE BookInv'
  <2>1. SameIn(Shifts) /\ SameIn(Entries) /\ SameIn(Settlements) /\ SameIn(Rounds)
    BY <1>0, <1>1, BooksApart
  <2> QED
    BY <1>0, <1>1, <2>1, BooksRest DEF BookInv
\* A run is written that is worth nothing before and after.
<1>2. ASSUME NEW p \in Runs, UNCHANGED journal,
             run[p].status \notin {"APPROVED", "CANCELLED"},
             run'[p].status \notin {"APPROVED", "CANCELLED"},
             \A q \in Runs : q # p => run'[q] = run[q]
      PROVE  BookInv'
  <2>1. RunBooks'
    BY <1>0, <1>2 DEF RunBooks, BookedFor, NoEntry
  <2> QED
    BY <1>1, <1>2, <2>1 DEF OnlyAt
<1>3. ASSUME NEW p \in Runs, CancelRun(p) PROVE BookInv'
  <2>1. /\ run[p].status = "APPROVED" /\ run' = [run EXCEPT ![p].status = "CANCELLED"]
        /\ Reverse(p)
    BY <1>3 DEF CancelRun
  <2>2. /\ run'[p].status = "CANCELLED" /\ run'[p].net = run[p].net
        /\ \A q \in Runs : q # p => run'[q] = run[q]
    BY <1>0, <2>1 DEF RunRows
  <2>3. BookedFor(p, run[p].net)
    BY <1>0, <2>1 DEF RunBooks
  <2>4. OnlyAt(p)
    BY <1>0, <2>1 DEF Reverse, OnlyAt
  <2>5. run[p].net = 0 \/ journal'[p] = [status |-> "REVERSED", amount |-> run[p].net]
    <3>1. CASE run[p].net # 0
      <4>1. journal[p] = [status |-> "POSTED", amount |-> run[p].net]
        BY <2>3, <3>1 DEF BookedFor
      <4>2. journal' = [journal EXCEPT ![p].status = "REVERSED"]
        BY <2>1, <4>1 DEF Reverse
      <4> QED
        BY <1>0, <4>1, <4>2 DEF JournalRows
    <3> QED
      BY <3>1
  <2>6. RunBooks'
    BY <1>0, <2>2, <2>4, <2>5 DEF RunBooks, BookedFor, OnlyAt, NoEntry
  <2> QED
    BY <1>1, <2>4, <2>6
<1>4. ASSUME NEW p \in Runs, DeleteDraft(p) PROVE BookInv'
  <2>1. /\ run[p].status = "DRAFT" /\ UNCHANGED journal
        /\ run' = [run EXCEPT ![p] = [NoRun EXCEPT !.status = "DELETED"]]
    BY <1>4 DEF DeleteDraft, AtOnce
  <2>2. run'[p].status = "DELETED" /\ \A q \in Runs : q # p => run'[q] = run[q]
    BY <1>0, <2>1 DEF NoRun
  <2> QED
    BY <1>2, <2>1, <2>2
<1>5. ASSUME NEW w \in Workers, RegisterCommit(w) PROVE BookInv'
  <2>0. PICK p : p = cmd[w].doc
    OBVIOUS
  <2>1. p \in Runs /\ run[p].status = "none" /\ UNCHANGED journal
    BY <1>0, <1>5, <2>0 DEF RegisterCommit, Registering, Sound
  <2>2. run'[p].status = "DRAFT" /\ \A q \in Runs : q # p => run'[q] = run[q]
    BY <1>0, <1>5, <2>0, <2>1 DEF RegisterCommit
  <2> QED
    BY <1>2, <2>1, <2>2
<1>6. ASSUME NEW w \in Workers, ApproveCommit(w) PROVE BookInv'
  <2>0. PICK p : p = cmd[w].doc
    OBVIOUS
  <2>1. /\ p \in Runs /\ run[p].status = "DRAFT" /\ Book(p, run[p].net)
        /\ run' = [run EXCEPT ![p].status = "APPROVED"]
    BY <1>0, <1>6, <2>0 DEF ApproveCommit, Approving, Sound
  <2>2. /\ run'[p].status = "APPROVED" /\ run'[p].net = run[p].net /\ run[p].net \in Int
        /\ \A q \in Runs : q # p => run'[q] = run[q]
    BY <1>0, <2>1 DEF RunRows
  <2>3. BookedFor(p, 0)
    BY <1>0, <2>1 DEF RunBooks
  <2>4. /\ OnlyAt(p)
        /\ journal'[p] = IF run[p].net = 0 THEN NoEntry
                         ELSE [status |-> "POSTED", amount |-> run[p].net]
    BY <1>0, <2>1, <2>2, <2>3, BookedNow
  <2>5. RunBooks'
    BY <1>0, <2>2, <2>4 DEF RunBooks, BookedFor, OnlyAt, NoEntry
  <2> QED
    BY <1>1, <2>1, <2>4, <2>5
<1>7. CASE UNCHANGED <<journal, run>>
  BY <1>0, <1>7, BooksRest, BooksAsTheyWere DEF BookInv
<1> QED
  BY <1>3, <1>4, <1>5, <1>6, <1>7 DEF PayrollStep, RegisterAdjustment, CancelAdjustment, AtOnce,
     RegisterRead, ApproveRead, Begin, paper

LEMMA OthersBook ==
  ASSUME BookInv, UNCHANGED <<journal, drawer, road, paper>>
  PROVE  BookInv'
<1>1. UNCHANGED <<shift, movement, settlement, round, run>>
  BY DEF drawer, road, paper
<1> QED
  BY <1>1, BooksRest, BooksAsTheyWere DEF BookInv

-----------------------------------------------------------------------------
(* What a step of one part leaves to the others.                            *)

\* The conditions hold together: types, locks and the clock are everybody's.
IInv ==
  /\ Shape /\ LocksApart /\ SincePast
  /\ PayrollInv /\ ShiftInv /\ SettleInv /\ RoundInv /\ DayInv /\ BookInv

\* A step that is not of the payroll, the shifts, the drivers or the day keeps theirs.
LEMMA MovesElsewhere ==
  ASSUME Shape, NEW begun, NEW ops, begun \cap ops = {}, "idle" \notin ops,
         Begins(begun) \/ Ends \/ UNCHANGED cmd
  PROVE  Elsewhere(ops)
<1>1. UNCHANGED cmd => Elsewhere(ops)
  BY DEF Elsewhere
<1> QED
  BY <1>1, BeginElsewhere, EndElsewhere

LEMMA NothingOnTheRoad ==
  ASSUME Shape, Shape', SettleInv, RoundInv, UNCHANGED road, clock <= clock',
         Elsewhere({"status", "settle"}), Elsewhere({"checkout"})
  PROVE  SettleInv' /\ RoundInv' /\ DeliveredStays
<1>1. UNCHANGED <<delivery, settlement, round, raced>> /\ clock' \in Nat
  BY DEF road, Shape, TypeOK
<1>2. DeliveredStays
  BY <1>1 DEF DeliveredStays
<1> QED
  BY <1>1, <1>2, SettleFrame, RoundFrame

LEMMA StandingShifts ==
  ASSUME UNCHANGED drawer
  PROVE  ShiftsGoOn
BY DEF drawer, ShiftsGoOn

LEMMA InitIInv == Init => IInv
<1> SUFFICES ASSUME Init
             PROVE  IInv
  OBVIOUS
<1>1. Shape
  BY InitShape
<1>2. \A w \in Workers : cmd[w] = NoCommand
  BY DEF Init
<1>3. clock = 0 /\ LocksApart /\ SincePast
  BY <1>2 DEF Init, LocksApart, SincePast, NoCommand
<1>4. PayrollInv
  <2>1. /\ \A a \in Adjustments : adjustment[a] = NoAdjustment
        /\ \A p \in Runs : run[p] = NoRun /\ p # Nothing
    BY KindsHold DEF Init, Kinds
  <2>2. \A p \in Runs : ~InForce(p) /\ ~LookedAt(p)
    BY <1>2, <2>1 DEF InForce, LookedAt, NoRun, NoCommand
  <2> QED
    BY <1>2, <2>1, <2>2 DEF PayrollInv, Registering, Approving, AdjustmentsPaidOnce, NothingLeft,
       NoAdjustment, NoCommand
<1>5. ShiftInv
  <2>1. /\ \A s \in Shifts : shift[s] = NoShift /\ s # Nothing
        /\ \A x \in Movements : movement[x] = NoMovement
        /\ Entries \subseteq Movements
    BY KindsHold DEF Init, Kinds, Movements
  <2>2. ShiftTimes /\ MovementTimes /\ ShiftsApart
    BY <1>3, <2>1 DEF ShiftTimes, MovementTimes, ShiftsApart, NoShift, NoMovement
  <2>3. EntriesOf
    BY <2>1 DEF EntriesOf, NoMovement
  <2> QED
    BY <1>2, <2>2, <2>3 DEF ShiftInv, DrawerInv, WritersApart, AtDrawer, Writing, Entering,
       Closing, NoCommand
<1>6. SettleInv
  <2>1. /\ \A d \in Deliveries : delivery[d] = NoDelivery
        /\ \A t \in Settlements : settlement[t] = NoSettlement /\ t # Nothing
    BY KindsHold DEF Init, Kinds
  <2> QED
    BY <1>2, <1>3, <2>1 DEF SettleInv, AtRoad, SettlersApart, DeliveryTimes, Settled, NoDelivery,
       NoSettlement, NoCommand
<1>7. RoundInv
  <2>1. \A k \in Rounds : round[k] = NoRound
    BY DEF Init
  <2> QED
    BY <1>2, <2>1 DEF RoundInv, RoundsApart, CheckingOut, NoRound, NoCommand
<1>8. DayInv
  BY <1>2, <1>3 DEF Init, DayInv, DayAsked, DayOps, DayClosed, OpenDay, NoCommand
<1>9. BookInv
  BY KindsHold DEF Kinds, Init, BookInv, ShiftBooks, EntryBooks, SettlementBooks, RoundBooks, RunBooks, BookedFor,
     NoShift, NoMovement, NoSettlement, NoRound, NoRun, Movements
<1> QED
  BY <1>1, <1>3, <1>4, <1>5, <1>6, <1>7, <1>8, <1>9 DEF IInv

LEMMA NextIInv == IInv /\ [Next]_vars => IInv'
<1> SUFFICES ASSUME IInv, [Next]_vars
             PROVE  IInv'
  OBVIOUS
<1>0. /\ Shape /\ LocksApart /\ SincePast
      /\ PayrollInv /\ ShiftInv /\ SettleInv /\ RoundInv /\ DayInv /\ BookInv
  BY DEF IInv
<1>1. /\ Shape' /\ LocksApart' /\ SincePast' /\ clock' \in Nat /\ clock <= clock'
  BY <1>0, NextShape, NextApart, NextPast, ClockGoesOn
\* It is enough that the parts keep theirs.
<1>2. ASSUME PayrollInv', ShiftInv', SettleInv', RoundInv', DayInv', BookInv' PROVE IInv'
  BY <1>1, <1>2 DEF IInv
<1>3. CASE ShiftStep /\ UNCHANGED <<road, paper, day>>
  <2>1. Begins({"entry", "sale", "close"}) \/ Ends \/ UNCHANGED cmd
    BY <1>0, <1>3, ShiftMoves
  <2>2. /\ Elsewhere(PayrollOps) /\ Elsewhere(DayOps)
        /\ Elsewhere({"status", "settle"}) /\ Elsewhere({"checkout"})
    BY <1>0, <2>1, MovesElsewhere DEF PayrollOps, DayOps
  <2>3. UNCHANGED <<road, paper, day>> /\ ShiftsGoOn
    BY <1>0, <1>3, ShiftStepsGoOn
  <2>4. SettleInv' /\ RoundInv' /\ DeliveredStays
    BY <1>0, <1>1, <2>2, <2>3, NothingOnTheRoad
  <2>5. PayrollInv' /\ ShiftInv' /\ DayInv'
    BY <1>0, <1>1, <1>3, <2>2, <2>3, <2>4, PayrollFrame, ShiftSteps, DayFrame
  <2>6. BookInv'
    BY <1>0, <1>3, ShiftStepsBook
  <2> QED
    BY <1>2, <2>4, <2>5, <2>6
<1>4. CASE DriverStep /\ UNCHANGED <<drawer, paper, day>>
  <2>1. Begins({"status", "settle", "checkout"}) \/ Ends \/ UNCHANGED cmd
    BY <1>0, <1>4, DriverMoves
  <2>2. Elsewhere(PayrollOps) /\ Elsewhere(DayOps) /\ Elsewhere(ShiftOps)
    BY <1>0, <2>1, MovesElsewhere DEF PayrollOps, DayOps, ShiftOps
  <2>3. UNCHANGED <<drawer, paper, day>> /\ ShiftsGoOn /\ DeliveredStays
    BY <1>0, <1>4, StandingShifts, DriverStays
  <2>4. SettleInv' /\ RoundInv'
    BY <1>0, <1>1, <1>4, <2>3, SettleSteps, RoundSteps
  <2>5. PayrollInv' /\ ShiftInv' /\ DayInv'
    BY <1>0, <1>1, <2>2, <2>3, PayrollFrame, ShiftFrame, DayFrame
  <2>6. BookInv'
    BY <1>0, <1>4, DriverStepsBook
  <2> QED
    BY <1>2, <2>4, <2>5, <2>6
<1>5. CASE PayrollStep /\ UNCHANGED <<drawer, road, day>>
  <2>1. Begins({"register", "approve"}) \/ Ends \/ UNCHANGED cmd
    BY <1>0, <1>5, PayrollMoves
  <2>2. /\ Elsewhere(ShiftOps) /\ Elsewhere(DayOps)
        /\ Elsewhere({"status", "settle"}) /\ Elsewhere({"checkout"})
    BY <1>0, <2>1, MovesElsewhere DEF ShiftOps, DayOps
  <2>3. UNCHANGED <<drawer, road, day>> /\ ShiftsGoOn
    BY <1>5, StandingShifts
  <2>4. SettleInv' /\ RoundInv' /\ DeliveredStays
    BY <1>0, <1>1, <2>2, <2>3, NothingOnTheRoad
  <2>5. PayrollInv' /\ ShiftInv' /\ DayInv'
    BY <1>0, <1>1, <1>5, <2>2, <2>3, <2>4, PayrollSteps, ShiftFrame, DayFrame
  <2>6. BookInv'
    BY <1>0, <1>5, PayrollStepsBook
  <2> QED
    BY <1>2, <2>4, <2>5, <2>6
<1>6. ASSUME UNCHANGED <<drawer, road, paper>>,
             Elsewhere(PayrollOps), Elsewhere(ShiftOps),
             Elsewhere({"status", "settle"}), Elsewhere({"checkout"})
      PROVE  PayrollInv' /\ ShiftInv' /\ SettleInv' /\ RoundInv' /\ ShiftsGoOn /\ DeliveredStays
  <2>1. SettleInv' /\ RoundInv' /\ DeliveredStays
    BY <1>0, <1>1, <1>6, NothingOnTheRoad
  <2> QED
    BY <1>0, <1>1, <1>6, <2>1, PayrollFrame, ShiftFrame, StandingShifts
<1>7. CASE DayStep
  <2>1. Begins({"dayTotal"}) \/ Ends \/ GoesOn
    BY <1>0, <1>7, DayMoves
  <2>2. /\ Elsewhere(PayrollOps) /\ Elsewhere(ShiftOps)
        /\ Elsewhere({"status", "settle"}) /\ Elsewhere({"checkout"})
    BY <1>0, <2>1, BeginElsewhere, EndElsewhere, GoesOnElsewhere DEF PayrollOps, ShiftOps
  <2>3. UNCHANGED <<drawer, road, paper>>
    BY <1>7 DEF DayStep, DayActive, DayTotal, DayPending, DayDrivers, Asking, DayInsert
  <2>4. DayInv'
    BY <1>0, <1>7, DaySteps
  <2>5. BookInv'
    <3>1. UNCHANGED journal
      BY <1>7 DEF DayStep, DayActive, DayTotal, DayPending, DayDrivers, Asking, DayInsert, Begin
    <3> QED
      BY <1>0, <2>3, <3>1, OthersBook
  <2> QED
    BY <1>2, <1>6, <2>2, <2>3, <2>4, <2>5
<1>8. CASE Ends /\ UNCHANGED <<journal, drawer, road, paper, day>>
  <2>1. /\ Elsewhere(PayrollOps) /\ Elsewhere(ShiftOps) /\ Elsewhere(DayOps)
        /\ Elsewhere({"status", "settle"}) /\ Elsewhere({"checkout"})
    BY <1>0, <1>8, EndElsewhere DEF PayrollOps, ShiftOps, DayOps
  <2>2. PayrollInv' /\ ShiftInv' /\ SettleInv' /\ RoundInv' /\ ShiftsGoOn /\ DeliveredStays
    BY <1>6, <1>8, <2>1
  <2>3. DayInv'
    BY <1>0, <1>1, <1>8, <2>1, <2>2, DayFrame
  <2> QED
    BY <1>0, <1>2, <1>8, <2>2, <2>3, OthersBook
<1>9. CASE UNCHANGED vars
  <2>1. UNCHANGED <<journal, cmd, drawer, road, paper, day>>
    BY <1>9 DEF vars
  <2>2. /\ Elsewhere(PayrollOps) /\ Elsewhere(ShiftOps) /\ Elsewhere(DayOps)
        /\ Elsewhere({"status", "settle"}) /\ Elsewhere({"checkout"})
    BY <2>1 DEF Elsewhere
  <2>3. PayrollInv' /\ ShiftInv' /\ SettleInv' /\ RoundInv' /\ ShiftsGoOn /\ DeliveredStays
    BY <1>6, <2>1, <2>2
  <2>4. DayInv'
    BY <1>0, <1>1, <2>1, <2>2, <2>3, DayFrame
  <2> QED
    BY <1>0, <1>2, <2>1, <2>3, <2>4, OthersBook
<1>10. CASE \E w \in Workers : Abandon(w) /\ UNCHANGED <<drawer, road, paper, day>>
  BY <1>8, <1>10 DEF Abandon, Ends
<1> QED
  BY <1>3, <1>4, <1>5, <1>7, <1>9, <1>10 DEF Next

\* The commands, the rows and their history stay consistent, whatever the requests of
\* the shifts, the drivers, the payroll and the day do at the same time.
THEOREM BackOfficeInvariant == Spec => []IInv
<1>1. Init => IInv
  BY InitIInv
<1>2. IInv /\ [Next]_vars => IInv'
  BY NextIInv
<1> QED
  BY <1>1, <1>2, PTL DEF Spec

\* close-shift: a movement is in the cash of one shift, and an entry in that of its own.
THEOREM CashIsCountedOnce == Spec => []MoneyIsCountedOnce
<1>1. IInv => MoneyIsCountedOnce
  BY CountedOnce DEF IInv
<1> QED
  BY <1>1, BackOfficeInvariant, PTL

\* post-shift-variance, post-driver-wage, post-payroll, ...: the journal has what the rows
\* say, once it is decided and not before.
THEOREM JournalFollowsRows == Spec => []BookedAsDecided
<1>1. IInv => BookedAsDecided
  BY DEF IInv, BookInv, ShiftBooks, EntryBooks, SettlementBooks, RoundBooks, RunBooks,
     BookedAsDecided
<1> QED
  BY <1>1, BackOfficeInvariant, PTL

\* register-driver-settlement, check-out-driver: a delivery is settled and paid once.
THEOREM DeliveriesCountOnce == Spec => []DeliveryCountsOnce
<1>1. IInv => DeliveryCountsOnce
  BY DeliveredOnce DEF IInv
<1> QED
  BY <1>1, BackOfficeInvariant, PTL

\* BL-10: an adjustment is applied by the run it names, the one in force, and by no other.
THEOREM PayrollAppliesOnce == Spec => []AdjustmentsPaidOnce
<1>1. IInv => AdjustmentsPaidOnce
  BY DEF IInv, PayrollInv
<1> QED
  BY <1>1, BackOfficeInvariant, PTL

\* BL-10: an approved run has skipped no adjustment that its approval could see.
THEOREM ApprovalSkipsNothing == Spec => []NothingSkipped
<1>1. IInv => NothingSkipped
  BY DEF IInv, PayrollInv, NothingLeft, NothingSkipped, LookedAt
<1> QED
  BY <1>1, BackOfficeInvariant, PTL

\* close-branch-day: a closed day has its shifts closed and its drivers' cash settled.
THEOREM ClosedDayIsComplete == Spec => []DayIsComplete
<1>1. IInv => DayIsComplete
  BY DEF IInv, DayInv, DayClosed, DayIsComplete
<1> QED
  BY <1>1, BackOfficeInvariant, PTL
===============================================================================
