------------------------- MODULE LoyaltyPointsProofs -------------------------
(***************************************************************************)
(* What holds of LoyaltyPoints for any orders, customers, balances, price  *)
(* of a reward and number of workers.                                      *)
(***************************************************************************)
EXTENDS LoyaltyPoints, FiniteSums, TLAPS

\* A command names an order that exists as far as the command needs it.
NamesOrders ==
  \A w \in Workers :
    /\ cmd[w].stage # "idle" => cmd[w].order \in Orders
    /\ At(w, "status", "read") => cmd[w].target \in {"open", "completed"}
    /\ At(w, "resave", "read") => cmd[w].target # "absent"

\* Every command but a placement works on an order that is there.
NamesPlaced ==
  \A w \in Workers :
    cmd[w].op \in {"status", "resave", "cancel"} =>
      cmd[w].order \in Orders /\ order[cmd[w].order] # "absent"

\* One request at a time holds a customer's row.
CustomerExclusive ==
  \A v, w \in Workers, c \in Customers : HoldsCustomer(v, c) /\ HoldsCustomer(w, c) => v = w

\* What a reservation found under the customer's lock is still true.
ReservationStands ==
  \A w \in Workers :
    At(w, "place", "reserved") =>
      /\ cmd[w].fresh <=> <<cmd[w].order, "redeem">> \notin ledger
      /\ cmd[w].fresh => balance[Owner[cmd[w].order]] >= Cost

\* The points spent on the order are back, on their way, or lost.
Compensated(o) == <<o, "refund_redeem">> \in ledger \/ o \in lost \/ SettlingOf(o)

\* A cancellation that a request has read is one that was, or is being, settled.
CancelledIsCompensated ==
  /\ \A o \in Orders : order[o] = "cancelled" => Compensated(o)
  /\ \A w \in Workers :
       At(w, "resave", "read") /\ cmd[w].target = "cancelled" => Compensated(cmd[w].order)

IInv ==
  /\ TypeOK
  /\ NamesOrders
  /\ NamesPlaced
  /\ CustomerExclusive
  /\ ReservationStands
  /\ SpentWithTheOrder
  /\ CancelledIsCompensated

-----------------------------------------------------------------------------
(* Types of the values that steps write.                                    *)

LEMMA UpdateType ==
  ASSUME NEW S, NEW T, NEW f \in [S -> T], NEW x, NEW y \in T
  PROVE  [f EXCEPT ![x] = y] \in [S -> T]
  OBVIOUS

LEMMA UpdateValue ==
  ASSUME NEW S, NEW T, NEW f \in [S -> T], NEW x \in S, NEW y
  PROVE  /\ [f EXCEPT ![x] = y][x] = y
         /\ \A z \in S \ {x} : [f EXCEPT ![x] = y][z] = f[z]
  OBVIOUS

LEMMA IdleType == Idle \in Command
  BY SMT DEF Idle, Command, Statuses, Reversible

LEMMA CommandFields ==
  ASSUME NEW m \in Command
  PROVE  /\ m.op \in {"none", "place", "status", "resave", "cancel"}
         /\ m.order \in Orders \cup {NoOrder}
         /\ m.target \in Statuses
         /\ m.fresh \in BOOLEAN
         /\ m.due \in SUBSET Reversible
  BY SMT DEF Command

LEMMA BegunType ==
  ASSUME NEW op \in {"place", "status", "resave", "cancel"},
         NEW st \in {"prepared", "read", "locked"}, NEW o \in Orders, NEW t \in Statuses
  PROVE  [op |-> op, stage |-> st, order |-> o, target |-> t, fresh |-> FALSE, due |-> {}]
           \in Command
  BY SMT DEF Command

LEMMA AdvancedType ==
  ASSUME NEW m \in Command, NEW st \in {"reserved", "award", "settle", "settling"},
         NEW fresh \in BOOLEAN, NEW due \in SUBSET Reversible
  PROVE  Advanced(m, st, fresh, due) \in Command
  BY CommandFields, SMT DEF Advanced, Command

LEMMA PointsType ==
  ASSUME NEW o \in Orders, NEW k \in Kinds
  PROVE  PointsOf(o, k) \in Int
  <1>1. Earned[o] \in Nat /\ Cost \in Nat
    BY LoyaltyAssumption
  <1> QED BY <1>1, SMT DEF PointsOf, Kinds

\* A movement writes a row of its order and keeps the balances in range.
LEMMA MoveType ==
  ASSUME TypeOK, NEW o \in Orders, NEW k \in Kinds, Move(o, k)
  PROVE  /\ ledger' \subseteq Orders \X Kinds
         /\ ledger' = ledger \cup {<<o, k>>}
         /\ balance' \in [Customers -> Nat]
         /\ \A c \in Customers \ {Owner[o]} : balance'[c] = balance[c]
  <1> DEFINE n == balance[Owner[o]] + PointsOf(o, k)
  <1>1. Owner[o] \in Customers
    BY LoyaltyAssumption
  <1>2. n \in Int
    BY <1>1, PointsType, SMT DEF TypeOK
  <1>3. Floored(n) \in Nat
    <2> HIDE DEF n
    <2> QED BY <1>2, SMT DEF Floored
  <1>4. balance' = [balance EXCEPT ![Owner[o]] = Floored(n)]
    BY DEF Move
  <1>5. balance \in [Customers -> Nat]
    BY DEF TypeOK
  <1> HIDE DEF n
  <1>6. balance' \in [Customers -> Nat]
    BY <1>3, <1>4, <1>5, UpdateType
  <1>7. \A c \in Customers \ {Owner[o]} : balance'[c] = balance[c]
    BY <1>1, <1>4, <1>5, UpdateValue
  <1> QED BY <1>6, <1>7 DEF Move, TypeOK

-----------------------------------------------------------------------------
(* One worker's step.                                                       *)

\* What a command may become.
Sound(w, m) ==
  /\ m.stage # "idle" => m.order \in Orders
  /\ m.op \in {"status", "resave", "cancel"} =>
       m.order \in Orders /\ order[m.order] # "absent"
  /\ m.op = "status" /\ m.stage = "read" => m.target \in {"open", "completed"}
  /\ m.op = "resave" /\ m.stage = "read" =>
       m.target # "absent" /\ (m.target = "cancelled" => Compensated(m.order))
  /\ m.op = "place" /\ m.stage = "reserved" =>
       /\ CustomerFree(Owner[m.order])
       /\ m.fresh <=> <<m.order, "redeem">> \notin ledger
       /\ m.fresh => balance[Owner[m.order]] >= Cost

\* A worker whose settlement the step ends has given the points back, or failed to.
Carries(w, m) ==
  \A o \in Orders :
    /\ cmd[w].order = o
    /\ At(w, "cancel", "settle") \/ (At(w, "cancel", "settling") /\ "redeem" \in cmd[w].due)
    => \/ <<o, "refund_redeem">> \in ledger' \/ o \in lost'
       \/ /\ m.op = "cancel" /\ m.order = o
          /\ m.stage = "settle" \/ (m.stage = "settling" /\ "redeem" \in m.due)

\* The rows and the balance of a customer whom another request holds are kept.
Respects(w) ==
  \A v \in Workers \ {w}, c \in Customers :
    HoldsCustomer(v, c) =>
      /\ balance'[c] = balance[c]
      /\ \A o \in Orders :
           Owner[o] = c => (<<o, "redeem">> \in ledger' <=> <<o, "redeem">> \in ledger)

LEMMA CompensationKept ==
  ASSUME IInv, NEW w \in Workers, NEW m \in Command, Carries(w, m),
         cmd' = [cmd EXCEPT ![w] = m],
         ledger \subseteq ledger', lost \subseteq lost',
         NEW o \in Orders, Compensated(o)
  PROVE  Compensated(o)'
  <1>1. cmd \in [Workers -> Command]
    BY DEF IInv, TypeOK
  <1>2. cmd'[w] = m /\ \A v \in Workers \ {w} : cmd'[v] = cmd[v]
    BY <1>1, UpdateValue
  <1>3. CASE <<o, "refund_redeem">> \in ledger \/ o \in lost
    BY <1>3 DEF Compensated
  <1>4. CASE SettlingOf(o)
    <2>1. PICK v \in Workers :
            /\ cmd[v].order = o
            /\ At(v, "cancel", "settle") \/ (At(v, "cancel", "settling") /\ "redeem" \in cmd[v].due)
      BY <1>4 DEF SettlingOf
    <2>2. CASE v = w
      <3>1. \/ <<o, "refund_redeem">> \in ledger' \/ o \in lost'
            \/ /\ m.op = "cancel" /\ m.order = o
               /\ m.stage = "settle" \/ (m.stage = "settling" /\ "redeem" \in m.due)
        BY <2>1, <2>2 DEF Carries
      <3>2. ASSUME /\ m.op = "cancel" /\ m.order = o
                   /\ m.stage = "settle" \/ (m.stage = "settling" /\ "redeem" \in m.due)
            PROVE  SettlingOf(o)'
        BY <1>2, <3>2 DEF SettlingOf, At
      <3> QED BY <3>1, <3>2 DEF Compensated
    <2>3. CASE v # w
      <3>1. cmd'[v] = cmd[v]
        BY <1>2, <2>3
      <3>2. SettlingOf(o)'
        BY <2>1, <3>1 DEF SettlingOf, At
      <3> QED BY <3>2 DEF Compensated
    <2> QED BY <2>2, <2>3
  <1> QED BY <1>3, <1>4 DEF Compensated

LEMMA StepKeeps ==
  ASSUME IInv, NEW w \in Workers, NEW m \in Command, Sound(w, m), Carries(w, m),
         cmd' = [cmd EXCEPT ![w] = m],
         order' \in [Orders -> Statuses],
         ledger \subseteq ledger', ledger' \subseteq Orders \X Kinds,
         balance' \in [Customers -> Nat],
         lost \subseteq lost', lost' \subseteq Orders,
         SpentWithTheOrder',
         Respects(w),
         m.stage = "reserved" => ledger' = ledger /\ balance' = balance,
         \A o \in Orders : order[o] # "absent" => order'[o] # "absent",
         \A o \in Orders : order'[o] = "cancelled" => order[o] = "cancelled" \/ Compensated(o)
                             \/ (m.op = "cancel" /\ m.stage = "settle" /\ m.order = o)
  PROVE  IInv'
  <1>1. cmd \in [Workers -> Command]
    BY DEF IInv, TypeOK
  <1>2. cmd' \in [Workers -> Command]
    BY <1>1, UpdateType
  <1>3. cmd'[w] = m /\ \A v \in Workers \ {w} : cmd'[v] = cmd[v]
    BY <1>1, UpdateValue
  <1>4. TypeOK'
    BY <1>2 DEF TypeOK
  <1>5. NamesOrders'
    <2>1. ASSUME NEW v \in Workers
          PROVE  /\ cmd'[v].stage # "idle" => cmd'[v].order \in Orders
                 /\ cmd'[v].op = "status" /\ cmd'[v].stage = "read" => cmd'[v].target \in {"open", "completed"}
                 /\ cmd'[v].op = "resave" /\ cmd'[v].stage = "read" => cmd'[v].target # "absent"
      <3>1. CASE v = w
        BY <1>3, <3>1 DEF Sound
      <3>2. CASE v # w
        BY <1>3, <3>2 DEF IInv, NamesOrders, At
      <3> QED BY <3>1, <3>2
    <2> QED BY <2>1 DEF NamesOrders, At
  <1>9. NamesPlaced'
    <2>1. ASSUME NEW v \in Workers, cmd'[v].op \in {"status", "resave", "cancel"}
          PROVE  cmd'[v].order \in Orders /\ order'[cmd'[v].order] # "absent"
      <3>1. CASE v = w
        BY <1>3, <2>1, <3>1 DEF Sound
      <3>2. CASE v # w
        BY <1>3, <2>1, <3>2 DEF IInv, NamesPlaced
      <3> QED BY <3>1, <3>2
    <2> QED BY <2>1 DEF NamesPlaced
  <1>6. CustomerExclusive'
    <2>1. ASSUME NEW v \in Workers, NEW c \in Customers, v # w,
                 HoldsCustomer(v, c)', HoldsCustomer(w, c)'
          PROVE  FALSE
      <3>1. HoldsCustomer(v, c)
        BY <1>3, <2>1 DEF HoldsCustomer, At
      <3>2. CustomerFree(c)
        BY <1>3, <2>1 DEF HoldsCustomer, At, Sound
      <3> QED BY <3>1, <3>2 DEF CustomerFree
    <2>2. ASSUME NEW u \in Workers \ {w}, NEW v \in Workers \ {w}, NEW c \in Customers,
                 HoldsCustomer(u, c)', HoldsCustomer(v, c)'
          PROVE  u = v
      <3>1. HoldsCustomer(u, c) /\ HoldsCustomer(v, c)
        BY <1>3, <2>2 DEF HoldsCustomer, At
      <3> QED BY <3>1 DEF IInv, CustomerExclusive
    <2> QED BY <2>1, <2>2 DEF CustomerExclusive
  <1>7. ReservationStands'
    <2>1. ASSUME NEW v \in Workers, At(v, "place", "reserved")'
          PROVE  /\ cmd'[v].fresh <=> <<cmd'[v].order, "redeem">> \notin ledger'
                 /\ cmd'[v].fresh => balance'[Owner[cmd'[v].order]] >= Cost
      <3>1. CASE v = w
        BY <1>3, <2>1, <3>1 DEF Sound, At
      <3>2. CASE v # w
        <4>1. cmd'[v] = cmd[v] /\ At(v, "place", "reserved")
          BY <1>3, <2>1, <3>2 DEF At
        <4>2. cmd[v].order \in Orders
          BY <4>1 DEF IInv, NamesOrders, At
        <4>3. Owner[cmd[v].order] \in Customers /\ HoldsCustomer(v, Owner[cmd[v].order])
          BY <4>1, <4>2, LoyaltyAssumption DEF HoldsCustomer
        <4>4. /\ balance'[Owner[cmd[v].order]] = balance[Owner[cmd[v].order]]
              /\ <<cmd[v].order, "redeem">> \in ledger' <=> <<cmd[v].order, "redeem">> \in ledger
          BY <3>2, <4>2, <4>3 DEF Respects
        <4> QED BY <4>1, <4>4 DEF IInv, ReservationStands
      <3> QED BY <3>1, <3>2
    <2> QED BY <2>1 DEF ReservationStands
  <1>8. CancelledIsCompensated'
    <2>1. ASSUME NEW o \in Orders, order'[o] = "cancelled"
          PROVE  Compensated(o)'
      <3>1. CASE m.op = "cancel" /\ m.stage = "settle" /\ m.order = o
        <4>1. SettlingOf(o)'
          BY <1>3, <3>1 DEF SettlingOf, At
        <4> QED BY <4>1 DEF Compensated
      <3>2. CASE order[o] = "cancelled" \/ Compensated(o)
        <4>1. Compensated(o)
          BY <3>2 DEF IInv, CancelledIsCompensated
        <4> QED BY <4>1, CompensationKept
      <3> QED BY <2>1, <3>1, <3>2
    <2>2. ASSUME NEW v \in Workers, At(v, "resave", "read")', cmd'[v].target = "cancelled",
                 NEW o \in Orders, o = cmd'[v].order
          PROVE  Compensated(o)'
      <3>1. Compensated(o)
        <4>1. CASE v = w
          BY <1>3, <2>2, <4>1 DEF Sound, At
        <4>2. CASE v # w
          BY <1>3, <2>2, <4>2 DEF IInv, CancelledIsCompensated, At
        <4> QED BY <4>1, <4>2
      <3> QED BY <3>1, CompensationKept
    <2>3. ASSUME NEW v \in Workers, At(v, "resave", "read")'
          PROVE  cmd'[v].order \in Orders
      BY <1>5, <2>3 DEF NamesOrders, At
    <2> QED BY <2>1, <2>2, <2>3 DEF CancelledIsCompensated
  <1> QED BY <1>4, <1>5, <1>6, <1>7, <1>8, <1>9 DEF IInv
\* A step that moves no points and places no order.
LEMMA QuietKeeps ==
  ASSUME IInv, NEW w \in Workers, NEW m \in Command, Sound(w, m), Carries(w, m),
         cmd' = [cmd EXCEPT ![w] = m],
         order' \in [Orders -> Statuses],
         \A o \in Orders : order[o] = "absent" <=> order'[o] = "absent",
         UNCHANGED <<ledger, balance>>,
         lost \subseteq lost', lost' \subseteq Orders,
         \A o \in Orders : order'[o] = "cancelled" => order[o] = "cancelled" \/ Compensated(o)
                             \/ (m.op = "cancel" /\ m.stage = "settle" /\ m.order = o)
  PROVE  IInv'
  <1>1. SpentWithTheOrder'
    BY DEF IInv, SpentWithTheOrder
  <1>2. ledger' \subseteq Orders \X Kinds /\ balance' \in [Customers -> Nat]
    BY DEF IInv, TypeOK
  <1>3. Respects(w)
    BY DEF Respects
  <1> QED BY <1>1, <1>2, <1>3, StepKeeps

\* A step that moves points other than by a redemption, of a customer nobody holds.
LEMMA MoveKeeps ==
  ASSUME IInv, NEW w \in Workers, NEW m \in Command, Carries(w, m), Sound(w, m),
         m.stage # "reserved",
         cmd' = [cmd EXCEPT ![w] = m],
         NEW o \in Orders, NEW k \in Kinds \ {"redeem"}, Move(o, k), CustomerFree(Owner[o]),
         UNCHANGED <<order, lost>>
  PROVE  IInv'
  <1>1. /\ ledger' \subseteq Orders \X Kinds
        /\ ledger' = ledger \cup {<<o, k>>}
        /\ balance' \in [Customers -> Nat]
        /\ \A c \in Customers \ {Owner[o]} : balance'[c] = balance[c]
    BY MoveType DEF IInv
  <1>2. \A p \in Orders : <<p, "redeem">> \in ledger' <=> <<p, "redeem">> \in ledger
    BY <1>1
  <1>3. SpentWithTheOrder'
    BY <1>2 DEF IInv, SpentWithTheOrder
  <1>4. Respects(w)
    BY <1>1, <1>2 DEF CustomerFree, Respects
  <1>5. order' \in [Orders -> Statuses] /\ lost' \subseteq Orders
    BY DEF IInv, TypeOK
  <1> QED BY <1>1, <1>2, <1>3, <1>4, <1>5, StepKeeps

\* A worker may always stop, unless it has a refund to give.
LEMMA IdleSound ==
  ASSUME NEW w \in Workers
  PROVE  Sound(w, Idle)
  BY DEF Sound, Idle

LEMMA CarriesNothing ==
  ASSUME NEW w \in Workers, NEW m, ~Settles(w)
  PROVE  Carries(w, m)
  BY DEF Carries, Settles

-----------------------------------------------------------------------------
(* The actions.                                                             *)

LEMMA RequestKeeps ==
  ASSUME IInv, NEW w \in Workers, Request(w)
  PROVE  IInv'
  <1> DEFINE New(op, st, o, t) ==
               [op |-> op, stage |-> st, order |-> o, target |-> t, fresh |-> FALSE, due |-> {}]
  <1>0. cmd[w].stage = "idle" => ~Settles(w)
    BY DEF Settles, At
  <1>1. ASSUME NEW o \in Orders, NEW op \in {"place", "status", "resave", "cancel"},
               NEW st \in {"prepared", "read", "locked"}, NEW t \in Statuses,
               cmd[w].stage = "idle", Begin(w, op, st, o, t),
               UNCHANGED <<order, ledger, balance, lost>>,
               op = "status" => t \in {"open", "completed"},
               op = "resave" => t = order[o],
               op # "place" => order[o] # "absent"
        PROVE  IInv'
    <2>1. New(op, st, o, t) \in Command
      BY BegunType
    <2>2. Sound(w, New(op, st, o, t))
      BY <1>1 DEF Sound, IInv, CancelledIsCompensated
    <2>3. Carries(w, New(op, st, o, t))
      BY <1>0, <1>1, CarriesNothing
    <2>4. cmd' = [cmd EXCEPT ![w] = New(op, st, o, t)]
      BY <1>1 DEF Begin
    <2>5. order' \in [Orders -> Statuses] /\ lost' \subseteq Orders
      BY <1>1 DEF IInv, TypeOK
    <2> HIDE DEF New
    <2> QED BY <1>1, <2>1, <2>2, <2>3, <2>4, <2>5, QuietKeeps
  <1>2. ASSUME NEW o \in Orders, PlacePrepare(w, o)
        PROVE  IInv'
    BY <1>1, <1>2 DEF PlacePrepare, Statuses
  <1>3. ASSUME NEW o \in Placed, NEW t \in {"open", "completed"}, StatusRead(w, o, t)
        PROVE  IInv'
    <2>1. o \in Orders /\ t \in Statuses /\ order[o] # "absent"
      BY <1>3 DEF Placed, Statuses
    <2> QED BY <1>1, <1>3, <2>1 DEF StatusRead
  <1>4. ASSUME NEW o \in Placed, ResaveRead(w, o)
        PROVE  IInv'
    <2>1. o \in Orders /\ order[o] \in Statuses /\ order[o] # "absent"
      BY <1>4 DEF Placed, IInv, TypeOK
    <2> QED BY <1>1, <1>4, <2>1 DEF ResaveRead
  <1>5. ASSUME NEW o \in Placed, CancelLock(w, o)
        PROVE  IInv'
    <2>1. o \in Orders /\ "cancelled" \in Statuses /\ order[o] # "absent"
      BY <1>5 DEF Placed, Statuses
    <2> QED BY <1>1, <1>5, <2>1 DEF CancelLock
  <1> QED BY <1>2, <1>3, <1>4, <1>5 DEF Request

\* A command that works on an order names one, and has the type of a command.
LEMMA Working ==
  ASSUME IInv, NEW w \in Workers
  PROVE  /\ cmd[w] \in Command
         /\ cmd[w].stage # "idle" => cmd[w].order \in Orders
         /\ order \in [Orders -> Statuses]
         /\ lost \subseteq Orders
  BY DEF IInv, TypeOK, NamesOrders

LEMMA PlaceReserveKeeps ==
  ASSUME IInv, NEW w \in Workers, PlaceReserve(w)
  PROVE  IInv'
  <1> DEFINE o == cmd[w].order
             fresh == <<o, "redeem">> \notin ledger
             m == Advanced(cmd[w], "reserved", fresh, {})
  <1>1. /\ At(w, "place", "prepared") /\ CustomerFree(Owner[o])
        /\ UNCHANGED <<order, ledger, balance, lost>>
        /\ IF fresh /\ balance[Owner[o]] < Cost THEN End(w) ELSE Advance(w, "reserved", fresh, {})
    BY DEF PlaceReserve
  <1>2. o \in Orders /\ Owner[o] \in Customers
    BY <1>1, Working, LoyaltyAssumption DEF At
  <1>3. \A n \in Command : Carries(w, n)
    BY <1>1, CarriesNothing DEF Settles, At
  <1>4. order' \in [Orders -> Statuses] /\ lost' \subseteq Orders
    BY <1>1, Working
  <1>5. CASE fresh /\ balance[Owner[o]] < Cost
    <2>1. cmd' = [cmd EXCEPT ![w] = Idle]
      BY <1>1, <1>5 DEF End
    <2> QED BY <1>1, <1>3, <1>4, <2>1, IdleType, IdleSound, QuietKeeps
  <1>6. CASE ~(fresh /\ balance[Owner[o]] < Cost)
    <2>1. cmd' = [cmd EXCEPT ![w] = m]
      BY <1>1, <1>6 DEF Advance
    <2>2. m \in Command
      BY Working, AdvancedType
    <2>3. balance[Owner[o]] \in Nat /\ Cost \in Nat
      BY <1>2, LoyaltyAssumption DEF IInv, TypeOK
    <2>4. fresh => balance[Owner[o]] >= Cost
      BY <1>6, <2>3
    <2>5. /\ m.op = "place" /\ m.stage = "reserved" /\ m.order = o
          /\ m.fresh <=> <<m.order, "redeem">> \notin ledger
      BY <1>1 DEF Advanced, At
    <2>6. Sound(w, m)
      BY <1>1, <1>2, <2>4, <2>5 DEF Sound
    <2> QED BY <1>1, <1>3, <1>4, <2>1, <2>2, <2>5, <2>6, QuietKeeps
  <1> QED BY <1>5, <1>6

LEMMA PlaceCommitKeeps ==
  ASSUME IInv, NEW w \in Workers, PlaceCommit(w)
  PROVE  IInv'
  <1> DEFINE o == cmd[w].order
  <1>1. /\ At(w, "place", "reserved")
        /\ order' = IF order[o] = "absent" THEN [order EXCEPT ![o] = "open"] ELSE order
        /\ IF cmd[w].fresh THEN Move(o, "redeem") ELSE NoMove
        /\ cmd' = [cmd EXCEPT ![w] = Idle]
        /\ UNCHANGED lost
    BY DEF PlaceCommit, End
  <1>2. o \in Orders /\ Owner[o] \in Customers
    BY <1>1, Working, LoyaltyAssumption DEF At
  <1>3. Carries(w, Idle)
    BY <1>1, CarriesNothing DEF Settles, At
  <1>4. lost' \subseteq Orders
    BY <1>1, Working
  <1>5. /\ cmd[w].fresh <=> <<o, "redeem">> \notin ledger
        /\ <<o, "redeem">> \in ledger <=> order[o] # "absent"
    BY <1>1, <1>2 DEF IInv, ReservationStands, SpentWithTheOrder
  <1>6. HoldsCustomer(w, Owner[o])
    BY <1>1 DEF HoldsCustomer
  <1>7. CASE ~cmd[w].fresh
    <2>1. order' = order /\ UNCHANGED <<ledger, balance>>
      BY <1>1, <1>5, <1>7 DEF NoMove
    <2> QED BY <1>1, <1>3, <1>4, <2>1, IdleType, IdleSound, QuietKeeps, Working
  <1>8. CASE cmd[w].fresh
    <2>1. order[o] = "absent" /\ order' = [order EXCEPT ![o] = "open"] /\ Move(o, "redeem")
      BY <1>1, <1>5, <1>8
    <2>2. /\ ledger' \subseteq Orders \X Kinds
          /\ ledger' = ledger \cup {<<o, "redeem">>}
          /\ balance' \in [Customers -> Nat]
          /\ \A c \in Customers \ {Owner[o]} : balance'[c] = balance[c]
      BY <1>2, <2>1, MoveType DEF IInv, Kinds
    <2>3. order' \in [Orders -> Statuses]
      BY <2>1, Working, UpdateType, "open" \in Statuses DEF Statuses
    <2>4. order'[o] = "open" /\ \A p \in Orders \ {o} : order'[p] = order[p]
      BY <1>2, <2>1, Working, UpdateValue
    <2>5. SpentWithTheOrder'
      BY <2>2, <2>4 DEF IInv, SpentWithTheOrder
    <2>6. Respects(w)
      <3>1. \A v \in Workers \ {w}, c \in Customers : HoldsCustomer(v, c) => c # Owner[o]
        BY <1>2, <1>6 DEF IInv, CustomerExclusive
      <3> QED BY <2>2, <3>1 DEF Respects
    <2>7. \A p \in Orders : order'[p] = "cancelled" => order[p] = "cancelled"
      BY <2>4
    <2>8. Idle.stage = "idle"
      BY DEF Idle
    <2>9. ledger \subseteq ledger'
      BY <2>2
    <2> QED BY <1>1, <1>3, <1>4, <2>2, <2>3, <2>5, <2>6, <2>7, <2>8, <2>9,
               IdleType, IdleSound, StepKeeps
  <1> QED BY <1>7, <1>8

\* Steps that end a command without a trace.
LEMMA StopKeeps ==
  ASSUME IInv, NEW w \in Workers, ~Settles(w), End(w),
         UNCHANGED <<order, ledger, balance>>, lost \subseteq lost', lost' \subseteq Orders
  PROVE  IInv'
  <1>1. Carries(w, Idle)
    BY CarriesNothing
  <1> QED BY <1>1, IdleType, IdleSound, QuietKeeps, Working DEF End

\* A command on an order that is there may go on after its commit.
LEMMA AfterCommitSound ==
  ASSUME IInv, NEW w \in Workers, cmd[w].op \in {"status", "resave", "cancel"},
         NEW st \in {"award", "settle", "settling"}, NEW due
  PROVE  /\ cmd[w].order \in Orders /\ order[cmd[w].order] # "absent"
         /\ Sound(w, Advanced(cmd[w], st, FALSE, due))
  <1> DEFINE m == Advanced(cmd[w], st, FALSE, due)
  <1>1. cmd[w].order \in Orders /\ order[cmd[w].order] # "absent"
    BY DEF IInv, NamesPlaced
  <1>2. m.stage \notin {"read", "reserved"} /\ m.order = cmd[w].order
    BY DEF Advanced
  <1> QED BY <1>1, <1>2 DEF Sound

LEMMA SaveRowKeeps ==
  ASSUME IInv, NEW w \in Workers, SaveRow(w)
  PROVE  IInv'
  <1> DEFINE o == cmd[w].order
             m == IF cmd[w].op = "status" /\ cmd[w].target = "completed"
                  THEN Advanced(cmd[w], "award", FALSE, {}) ELSE Idle
  <1>1. /\ At(w, "status", "read") \/ At(w, "resave", "read")
        /\ order' = [order EXCEPT ![o] = cmd[w].target]
        /\ UNCHANGED <<ledger, balance, lost>>
    BY DEF SaveRow
  <1>2. cmd' = [cmd EXCEPT ![w] = m]
    BY DEF SaveRow, Advance, End
  <1>3. m \in Command
    BY Working, AdvancedType, IdleType
  <1>4. Carries(w, m)
    BY <1>1, CarriesNothing DEF Settles, At
  <1>5. o \in Orders /\ cmd[w].target \in Statuses /\ cmd[w].target # "absent"
    BY <1>1, Working, CommandFields DEF At, IInv, NamesOrders
  <1>6. Sound(w, m)
    BY <1>1, IdleSound, AfterCommitSound DEF At
  <1>7. order[o] # "absent"
    BY <1>1, AfterCommitSound DEF At
  <1>8. order' \in [Orders -> Statuses]
    BY <1>1, <1>5, Working, UpdateType
  <1>9. order'[o] = cmd[w].target /\ \A p \in Orders \ {o} : order'[p] = order[p]
    BY <1>1, <1>5, Working, UpdateValue
  <1>10. cmd[w].target = "cancelled" => Compensated(o)
    BY <1>1 DEF IInv, CancelledIsCompensated, NamesOrders, At
  <1>11. \A p \in Orders : order[p] = "absent" <=> order'[p] = "absent"
    BY <1>5, <1>7, <1>9
  <1>12. \A p \in Orders : order'[p] = "cancelled" => order[p] = "cancelled" \/ Compensated(p)
    BY <1>9, <1>10
  <1>13. lost' \subseteq Orders /\ lost \subseteq lost'
    BY <1>1, Working
  <1> HIDE DEF m, o
  <1> QED BY <1>1, <1>2, <1>3, <1>4, <1>6, <1>8, <1>11, <1>12, <1>13, QuietKeeps

LEMMA AwardEarnKeeps ==
  ASSUME IInv, NEW w \in Workers, AwardEarn(w)
  PROVE  IInv'
  <1> DEFINE o == cmd[w].order
  <1>1. /\ At(w, "status", "award") /\ CustomerFree(Owner[o])
        /\ IF <<o, "earn">> \in ledger THEN NoMove ELSE Move(o, "earn")
        /\ End(w) /\ UNCHANGED <<order, lost>>
    BY DEF AwardEarn
  <1>2. o \in Orders /\ ~Settles(w)
    BY <1>1, Working DEF At, Settles
  <1>3. CASE <<o, "earn">> \in ledger
    BY <1>1, <1>2, <1>3, StopKeeps, Working DEF NoMove
  <1>4. CASE <<o, "earn">> \notin ledger
    <2>1. Move(o, "earn") /\ cmd' = [cmd EXCEPT ![w] = Idle]
      BY <1>1, <1>4 DEF End
    <2>2. Idle.stage # "reserved" /\ "earn" \in Kinds \ {"redeem"}
      BY DEF Idle, Kinds
    <2>3. Carries(w, Idle)
      BY <1>2, CarriesNothing
    <2> QED BY <1>1, <1>2, <2>1, <2>2, <2>3, IdleType, IdleSound, MoveKeeps
  <1> QED BY <1>3, <1>4

LEMMA CancelCommitKeeps ==
  ASSUME IInv, NEW w \in Workers, CancelCommit(w)
  PROVE  IInv'
  <1> DEFINE o == cmd[w].order
             m == Advanced(cmd[w], "settle", FALSE, {})
  <1>1. /\ At(w, "cancel", "locked")
        /\ order' = [order EXCEPT ![o] = "cancelled"]
        /\ cmd' = [cmd EXCEPT ![w] = m]
        /\ UNCHANGED <<ledger, balance, lost>>
    BY DEF CancelCommit, Advance
  <1>2. m \in Command
    BY Working, AdvancedType
  <1>3. Carries(w, m)
    BY <1>1, CarriesNothing DEF Settles, At
  <1>4. o \in Orders /\ "cancelled" \in Statuses
    BY <1>1, Working DEF At, Statuses
  <1>5. m.op = "cancel" /\ m.stage = "settle" /\ m.order = o
    BY <1>1 DEF Advanced, At
  <1>6. Sound(w, m)
    BY <1>1, AfterCommitSound DEF At
  <1>7. order[o] # "absent"
    BY <1>1, AfterCommitSound DEF At
  <1>8. order' \in [Orders -> Statuses]
    BY <1>1, <1>4, Working, UpdateType
  <1>9. order'[o] = "cancelled" /\ \A p \in Orders \ {o} : order'[p] = order[p]
    BY <1>1, <1>4, Working, UpdateValue
  <1>10. \A p \in Orders : order[p] = "absent" <=> order'[p] = "absent"
    BY <1>7, <1>9
  <1>11. \A p \in Orders : order'[p] = "cancelled" =>
           order[p] = "cancelled" \/ (m.op = "cancel" /\ m.stage = "settle" /\ m.order = p)
    BY <1>5, <1>9
  <1>12. lost' \subseteq Orders /\ lost \subseteq lost'
    BY <1>1, Working
  <1> HIDE DEF m, o
  <1> QED BY <1>1, <1>2, <1>3, <1>6, <1>8, <1>10, <1>11, <1>12, QuietKeeps

LEMMA SettleReadKeeps ==
  ASSUME IInv, NEW w \in Workers, SettleRead(w)
  PROVE  IInv'
  <1> DEFINE o == cmd[w].order
             due == Unsettled(o)
             m == IF due = {} THEN Idle ELSE Advanced(cmd[w], "settling", FALSE, due)
  <1>1. /\ At(w, "cancel", "settle")
        /\ cmd' = [cmd EXCEPT ![w] = m]
        /\ UNCHANGED <<order, ledger, balance, lost>>
    BY DEF SettleRead, Advance, End
  <1>2. m \in Command
    BY Working, AdvancedType, IdleType DEF Unsettled
  <1>3. o \in Orders /\ order[o] # "absent"
    BY <1>1, Working DEF At, IInv, NamesPlaced
  <1>4. <<o, "redeem">> \in ledger
    BY <1>3 DEF IInv, SpentWithTheOrder
  <1>5. "redeem" \in due \/ <<o, "refund_redeem">> \in ledger
    BY <1>4 DEF Unsettled, Reversible, Reversal
  <1>6. due # {} => m.op = "cancel" /\ m.stage = "settling" /\ m.order = o /\ m.due = due
    BY <1>1 DEF Advanced, At
  <1>7. Carries(w, m)
    BY <1>1, <1>5, <1>6 DEF Carries
  <1>8. Sound(w, m)
    BY <1>1, IdleSound, AfterCommitSound DEF At
  <1>9. order' \in [Orders -> Statuses] /\ lost' \subseteq Orders /\ lost \subseteq lost'
    BY <1>1, Working
  <1> HIDE DEF m, o, due
  <1> QED BY <1>1, <1>2, <1>7, <1>8, <1>9, QuietKeeps

LEMMA SettleRowKeeps ==
  ASSUME IInv, NEW w \in Workers, SettleRow(w)
  PROVE  IInv'
  <1> DEFINE o == cmd[w].order
  <1>1. At(w, "cancel", "settling") /\ CustomerFree(Owner[o]) /\ UNCHANGED <<order, lost>>
    BY DEF SettleRow
  <1>2. PICK k \in cmd[w].due :
          /\ IF <<o, Reversal[k]>> \in ledger THEN NoMove ELSE Move(o, Reversal[k])
          /\ IF cmd[w].due \ {k} = {} THEN End(w)
             ELSE Advance(w, "settling", FALSE, cmd[w].due \ {k})
    BY DEF SettleRow
  <1> DEFINE rest == cmd[w].due \ {k}
             m == IF rest = {} THEN Idle ELSE Advanced(cmd[w], "settling", FALSE, rest)
  <1>3. cmd' = [cmd EXCEPT ![w] = m]
    BY <1>2 DEF Advance, End
  <1>4. o \in Orders /\ cmd[w].due \subseteq Reversible
    BY <1>1, Working, CommandFields DEF At
  <1>5. m \in Command
    BY <1>4, Working, AdvancedType, IdleType
  <1>6. rest # {} => m.op = "cancel" /\ m.stage = "settling" /\ m.order = o /\ m.due = rest
    BY <1>1 DEF Advanced, At
  <1>7. Sound(w, m) /\ m.stage # "reserved"
    BY <1>1, <1>6, IdleSound, AfterCommitSound DEF At, Idle
  <1>8. /\ k \in Reversible /\ Reversal[k] \in Kinds \ {"redeem"}
        /\ k = "redeem" => Reversal[k] = "refund_redeem"
    BY <1>4 DEF Reversible, Reversal, Kinds
  <1>9. <<o, Reversal[k]>> \in ledger' /\ lost' = lost
    BY <1>1, <1>2 DEF NoMove, Move
  <1>10. Carries(w, m)
    <2>1. "redeem" \in cmd[w].due => "redeem" \in rest \/ <<o, "refund_redeem">> \in ledger'
      BY <1>8, <1>9
    <2> QED BY <1>1, <1>6, <2>1 DEF Carries, At
  <1>11. order' \in [Orders -> Statuses] /\ lost' \subseteq Orders /\ lost \subseteq lost'
    BY <1>1, Working
  <1> HIDE DEF m, o, rest
  <1>12. CASE <<o, Reversal[k]>> \in ledger
    <2>1. UNCHANGED <<ledger, balance>>
      BY <1>2, <1>12 DEF NoMove, o
    <2> QED BY <1>1, <1>3, <1>5, <1>7, <1>10, <1>11, <2>1, QuietKeeps
  <1>13. CASE <<o, Reversal[k]>> \notin ledger
    <2>1. Move(o, Reversal[k])
      BY <1>2, <1>13 DEF o
    <2>2. CustomerFree(Owner[o]) /\ o \in Orders
      BY <1>1, <1>4 DEF o
    <2> QED BY <1>1, <1>3, <1>5, <1>7, <1>8, <1>10, <2>1, <2>2, MoveKeeps
  <1> QED BY <1>12, <1>13

LEMMA FailKeeps ==
  ASSUME IInv, NEW w \in Workers, Fail(w)
  PROVE  IInv'
  <1> DEFINE o == cmd[w].order
  <1>1. /\ cmd[w].stage # "idle" /\ cmd' = [cmd EXCEPT ![w] = Idle]
        /\ lost' = IF Settles(w) THEN lost \cup {o} ELSE lost
        /\ UNCHANGED <<order, ledger, balance>>
    BY DEF Fail, End
  <1>2. o \in Orders /\ lost \subseteq Orders /\ order' \in [Orders -> Statuses]
    BY <1>1, Working
  <1>3. lost \subseteq lost' /\ lost' \subseteq Orders
    BY <1>1, <1>2
  <1>4. Carries(w, Idle)
    BY <1>1 DEF Carries, Settles
  <1> QED BY <1>1, <1>2, <1>3, <1>4, IdleType, IdleSound, QuietKeeps

LEMMA CrashKeeps ==
  ASSUME IInv, Crash
  PROVE  IInv'
  <1>1. /\ lost' = lost \cup {cmd[w].order : w \in {v \in Workers : Settles(v)}}
        /\ cmd' = [w \in Workers |-> Idle]
        /\ UNCHANGED <<order, ledger, balance>>
    BY DEF Crash
  <1>2. \A w \in Workers : cmd'[w] = Idle
    BY <1>1
  <1>3. /\ Idle.stage = "idle" /\ Idle.op = "none"
    BY DEF Idle
  <1>4. lost' \subseteq Orders
    <2>1. \A v \in Workers : Settles(v) => cmd[v].order \in Orders
      BY DEF Settles, At, IInv, NamesOrders
    <2> QED BY <1>1, <2>1 DEF IInv, TypeOK
  <1>5. cmd' \in [Workers -> Command]
    BY <1>1, IdleType
  <1>6. TypeOK'
    BY <1>1, <1>4, <1>5 DEF IInv, TypeOK
  <1>7. /\ NamesOrders' /\ NamesPlaced' /\ CustomerExclusive' /\ ReservationStands'
    BY <1>2, <1>3 DEF NamesOrders, NamesPlaced, CustomerExclusive, ReservationStands,
                      HoldsCustomer, At
  <1>8. SpentWithTheOrder'
    BY <1>1 DEF IInv, SpentWithTheOrder
  <1>9. ASSUME NEW o \in Orders, order'[o] = "cancelled"
        PROVE  Compensated(o)'
    <2>1. Compensated(o)
      BY <1>1, <1>9 DEF IInv, CancelledIsCompensated
    <2>2. CASE SettlingOf(o)
      <3>1. PICK v \in Workers : cmd[v].order = o /\ Settles(v)
        BY <2>2 DEF SettlingOf, Settles
      <3>2. o \in lost'
        BY <1>1, <3>1
      <3> QED BY <3>2 DEF Compensated
    <2> QED BY <1>1, <2>1, <2>2 DEF Compensated
  <1>10. CancelledIsCompensated'
    BY <1>2, <1>3, <1>9 DEF CancelledIsCompensated, At
  <1> QED BY <1>6, <1>7, <1>8, <1>10 DEF IInv

LEMMA InitInv == Init => IInv
  <1> SUFFICES ASSUME Init
               PROVE  IInv
    OBVIOUS
  <1>1. \A w \in Workers : cmd[w] = Idle
    BY DEF Init
  <1>2. Idle.stage = "idle" /\ Idle.op = "none"
    BY DEF Idle
  <1>3. \A o \in Orders : order[o] = "absent"
    BY DEF Init
  <1>4. TypeOK
    BY IdleType, LoyaltyAssumption DEF Init, TypeOK, Statuses
  <1>5. NamesOrders /\ NamesPlaced /\ CustomerExclusive /\ ReservationStands
    BY <1>1, <1>2 DEF NamesOrders, NamesPlaced, CustomerExclusive, ReservationStands,
                      HoldsCustomer, At
  <1>6. SpentWithTheOrder
    BY <1>3 DEF Init, SpentWithTheOrder
  <1>7. CancelledIsCompensated
    BY <1>1, <1>2, <1>3 DEF CancelledIsCompensated, At
  <1> QED BY <1>4, <1>5, <1>6, <1>7 DEF IInv

LEMMA NextInv == IInv /\ [Next]_vars => IInv'
  <1> SUFFICES ASSUME IInv, [Next]_vars
               PROVE  IInv'
    OBVIOUS
  <1>1. ASSUME NEW w \in Workers, Request(w)
        PROVE  IInv'
    BY <1>1, RequestKeeps
  <1>2. ASSUME NEW w \in Workers, Step(w)
        PROVE  IInv'
    <2>1. CASE PlaceFail(w)
      BY <2>1, StopKeeps, Working DEF PlaceFail, Settles, At
    <2> QED BY <1>2, <2>1, PlaceReserveKeeps, PlaceCommitKeeps, SaveRowKeeps, AwardEarnKeeps,
               CancelCommitKeeps, SettleReadKeeps, SettleRowKeeps DEF Step
  <1>3. ASSUME NEW w \in Workers, Fail(w)
        PROVE  IInv'
    BY <1>3, FailKeeps
  <1>4. CASE Crash
    BY <1>4, CrashKeeps
  <1>5. CASE UNCHANGED vars
    BY <1>5 DEF vars, IInv, TypeOK, NamesOrders, NamesPlaced, CustomerExclusive,
                ReservationStands, SpentWithTheOrder, CancelledIsCompensated, Compensated,
                SettlingOf, HoldsCustomer, At
  <1> QED BY <1>1, <1>2, <1>3, <1>4, <1>5 DEF Next

LEMMA InvAlways == Spec => []IInv
  BY InitInv, NextInv, PTL DEF Spec

-----------------------------------------------------------------------------
(* Theorems.                                                                *)

\* Every behaviour of the points commands keeps to the declared state space; in
\* particular no balance is ever negative.
THEOREM TypesHold == Spec => []TypeOK
  <1>1. IInv => TypeOK
    BY DEF IInv
  <1> QED BY <1>1, InvAlways, PTL

\* reserveRedemption, attach and release: points are spent for the orders that
\* were placed and for no others, for any number of requests for one order.
THEOREM PointsAreSpentWithTheOrder == Spec => []SpentWithTheOrder
  <1>1. IInv => SpentWithTheOrder
    BY DEF IInv
  <1> QED BY <1>1, InvAlways, PTL

\* settleCancelledOrder: a cancelled order whose settlement is over, and was not
\* cut off, has its points refunded, however often it is revived and cancelled.
THEOREM CancelledOrdersAreRefunded == Spec => []CancelledIsRefunded
  <1>1. IInv => CancelledIsRefunded
    BY DEF IInv, CancelledIsCompensated, Compensated, CancelledIsRefunded
  <1> QED BY <1>1, InvAlways, PTL

LEMMA RedemptionCovered ==
  ASSUME IInv, Next, NEW o \in Orders, <<o, "redeem">> \in ledger' \ ledger
  PROVE  balance[Owner[o]] >= Cost
  <1>1. PICK w \in Workers : Request(w) \/ Step(w) \/ Fail(w)
    BY DEF Next, Crash
  <1>2. ~Request(w)
    BY DEF Request, PlacePrepare, StatusRead, ResaveRead, CancelLock
  <1>3. ~(PlaceReserve(w) \/ PlaceFail(w) \/ SaveRow(w) \/ CancelCommit(w) \/ SettleRead(w) \/ Fail(w))
    BY DEF PlaceReserve, PlaceFail, SaveRow, CancelCommit, SettleRead, Fail
  <1>4. ~AwardEarn(w)
    BY DEF AwardEarn, Move, NoMove
  <1>5. ~SettleRow(w)
    <2> SUFFICES ASSUME SettleRow(w)
                 PROVE  FALSE
      OBVIOUS
    <2>1. PICK k \in cmd[w].due :
            IF <<cmd[w].order, Reversal[k]>> \in ledger THEN NoMove ELSE Move(cmd[w].order, Reversal[k])
      BY DEF SettleRow
    <2>2. k \in Reversible
      BY <2>1, Working, CommandFields
    <2>3. Reversal[k] # "redeem"
      BY <2>2 DEF Reversible, Reversal
    <2> QED BY <2>1, <2>3 DEF Move, NoMove
  <1>6. PlaceCommit(w)
    BY <1>1, <1>2, <1>3, <1>4, <1>5 DEF Step
  <1>7. At(w, "place", "reserved") /\ cmd[w].fresh /\ cmd[w].order = o
    BY <1>6 DEF PlaceCommit, Move, NoMove
  <1> QED BY <1>7 DEF IInv, ReservationStands

\* InsufficientLoyaltyPointsError: whatever requests race, a redemption finds its
\* whole cost on the balance when it commits, so no point is spent twice.
THEOREM RedemptionsAreCovered == Spec => SpendsWhatIsThere
  <1>1. IInv /\ [Next]_vars =>
          [\A o \in Orders :
             <<o, "redeem">> \in ledger' \ ledger => balance[Owner[o]] >= Cost]_vars
    BY RedemptionCovered
  <1> QED BY <1>1, InvAlways, PTL DEF Spec, SpendsWhatIsThere

-----------------------------------------------------------------------------
(* The balance and the sum of the ledger.                                   *)

SumInv == IsFiniteSet(ledger) /\ BalanceIsLedger

\* A row that is new and whose points the balance can bear moves sum and balance alike.
LEMMA MoveSums ==
  ASSUME IInv, SumInv, NEW o \in Orders, NEW k \in Kinds, Move(o, k),
         <<o, k>> \notin ledger, k = "redeem" => balance[Owner[o]] >= Cost
  PROVE  SumInv'
  <1> DEFINE row == <<o, k>>
  <1>1. ledger' = ledger \cup {row} /\ ledger \subseteq Orders \X Kinds
    BY DEF Move, IInv, TypeOK
  <1>2. IsFiniteSet(ledger')
    BY <1>1, FS_AddElement DEF SumInv
  <1>3. \A r \in Orders \X Kinds : Points[r] \in Int
    BY PointsType DEF Points
  <1>4. row \in Orders \X Kinds /\ row \notin ledger /\ Points[row] = PointsOf(o, k)
    BY DEF Points
  <1> HIDE DEF row
  <1>5. SUFFICES ASSUME NEW c \in Customers,
                        \A p \in Orders : Owner[p] = c => <<p, "reverse_earn">> \notin ledger'
                 PROVE  balance'[c] = Opening[c] + SumFunctionOnSet(Points, RowsOf(c)')
    BY <1>2 DEF SumInv, BalanceIsLedger, Movements, Points
  <1>6. balance[c] = Opening[c] + SumFunctionOnSet(Points, RowsOf(c))
    BY <1>1, <1>5 DEF SumInv, BalanceIsLedger, Movements
  <1>7. CASE Owner[o] # c
    <2>1. RowsOf(c)' = RowsOf(c)
      BY <1>1, <1>7 DEF RowsOf, row
    <2>2. balance'[c] = balance[c]
      BY <1>7, MoveType DEF IInv
    <2> QED BY <1>6, <2>1, <2>2
  <1>8. CASE Owner[o] = c
    <2> DEFINE total == SumFunctionOnSet(Points, RowsOf(c))
               n == balance[c] + PointsOf(o, k)
    <2>1. RowsOf(c)' = RowsOf(c) \cup {row} /\ row \notin RowsOf(c)
      BY <1>1, <1>4, <1>8 DEF RowsOf, row
    <2>2. IsFiniteSet(RowsOf(c)) /\ \A r \in RowsOf(c) : Points[r] \in Int
      BY <1>1, <1>3, FS_Subset DEF SumInv, RowsOf
    <2>3. total \in Int
      BY <2>2, SumInt
    <2>4. SumFunctionOnSet(Points, RowsOf(c)') = total + PointsOf(o, k)
      BY <1>3, <1>4, <2>1, <2>2, SumAdd
    <2>5. balance[c] \in Nat /\ PointsOf(o, k) \in Int
      BY PointsType DEF IInv, TypeOK
    <2>6. n >= 0
      <3>1. k # "reverse_earn"
        BY <1>1, <1>5, <1>8 DEF row
      <3>2. Cost \in Nat /\ Earned[o] \in Nat
        BY LoyaltyAssumption
      <3>3. CASE k = "redeem"
        <4>1. PointsOf(o, k) = 0 - Cost /\ balance[c] >= Cost
          BY <1>8, <3>3 DEF PointsOf
        <4> QED BY <2>5, <3>2, <4>1
      <3>4. CASE k \in {"earn", "refund_redeem"}
        <4>1. PointsOf(o, k) = Earned[o] \/ PointsOf(o, k) = Cost
          BY <3>4 DEF PointsOf
        <4> QED BY <2>5, <3>2, <4>1
      <3> QED BY <3>1, <3>3, <3>4 DEF Kinds
    <2>7. balance'[c] = n
      <3>1. balance' = [balance EXCEPT ![c] = Floored(n)]
        BY <1>8 DEF Move
      <3>2. n \in Int
        BY <2>5
      <3> HIDE DEF n
      <3>3. Floored(n) = n
        BY <2>6, <3>2 DEF Floored
      <3> QED BY <3>1, <3>3 DEF IInv, TypeOK
    <2>8. Opening[c] \in Nat
      BY LoyaltyAssumption
    <2>9. balance[c] = Opening[c] + total
      BY <1>6
    <2> HIDE DEF total
    <2>10. balance'[c] = Opening[c] + (total + PointsOf(o, k))
      BY <2>3, <2>5, <2>7, <2>8, <2>9
    <2> QED BY <2>4, <2>10
  <1> QED BY <1>7, <1>8

\* Every row is written once, and a redemption only where its cost is.
LEMMA StepMoves ==
  ASSUME IInv, Next
  PROVE  \/ UNCHANGED <<ledger, balance>>
         \/ \E o \in Orders, k \in Kinds :
              /\ Move(o, k) /\ <<o, k>> \notin ledger
              /\ k = "redeem" => balance[Owner[o]] >= Cost
  <1>1. CASE Crash
    BY <1>1 DEF Crash
  <1>2. ASSUME NEW w \in Workers, Request(w) \/ Fail(w)
        PROVE  UNCHANGED <<ledger, balance>>
    BY <1>2 DEF Request, PlacePrepare, StatusRead, ResaveRead, CancelLock, Fail
  <1>3. ASSUME NEW w \in Workers,
               \/ PlaceReserve(w) \/ PlaceFail(w) \/ SaveRow(w) \/ CancelCommit(w) \/ SettleRead(w)
        PROVE  UNCHANGED <<ledger, balance>>
    BY <1>3 DEF PlaceReserve, PlaceFail, SaveRow, CancelCommit, SettleRead
  <1>4. ASSUME NEW w \in Workers, PlaceCommit(w)
        PROVE  \/ UNCHANGED <<ledger, balance>>
               \/ /\ cmd[w].order \in Orders /\ Move(cmd[w].order, "redeem")
                  /\ <<cmd[w].order, "redeem">> \notin ledger
                  /\ balance[Owner[cmd[w].order]] >= Cost
    <2>1. At(w, "place", "reserved")
      BY <1>4 DEF PlaceCommit
    <2>2. cmd[w].order \in Orders
      BY <2>1, Working DEF At
    <2> QED BY <1>4, <2>1, <2>2 DEF PlaceCommit, NoMove, IInv, ReservationStands
  <1>5. ASSUME NEW w \in Workers, AwardEarn(w)
        PROVE  \/ UNCHANGED <<ledger, balance>>
               \/ /\ cmd[w].order \in Orders /\ Move(cmd[w].order, "earn")
                  /\ <<cmd[w].order, "earn">> \notin ledger
    BY <1>5, Working DEF AwardEarn, NoMove, At
  <1>6. ASSUME NEW w \in Workers, SettleRow(w)
        PROVE  \/ UNCHANGED <<ledger, balance>>
               \/ \E k \in {"reverse_earn", "refund_redeem"} :
                    /\ cmd[w].order \in Orders /\ Move(cmd[w].order, k)
                    /\ <<cmd[w].order, k>> \notin ledger
    <2>1. PICK k \in cmd[w].due :
            /\ At(w, "cancel", "settling")
            /\ IF <<cmd[w].order, Reversal[k]>> \in ledger THEN NoMove
                                                          ELSE Move(cmd[w].order, Reversal[k])
      BY <1>6 DEF SettleRow
    <2>2. cmd[w].order \in Orders /\ k \in Reversible
      BY <2>1, Working, CommandFields DEF At
    <2>3. Reversal[k] \in {"reverse_earn", "refund_redeem"}
      BY <2>2 DEF Reversible, Reversal
    <2> QED BY <2>1, <2>2, <2>3 DEF NoMove
  <1>7. {"redeem", "earn", "reverse_earn", "refund_redeem"} \subseteq Kinds
    BY DEF Kinds
  <1> QED BY <1>1, <1>2, <1>3, <1>4, <1>5, <1>6, <1>7 DEF Next, Step

LEMMA InitSums == Init => SumInv
  <1> SUFFICES ASSUME Init PROVE SumInv
    OBVIOUS
  <1>1. ledger = {} /\ balance = Opening
    BY DEF Init
  <1>2. \A c \in Customers : Movements(c) = 0
    BY <1>1, SumEmpty DEF Movements, RowsOf
  <1>3. \A c \in Customers : Opening[c] \in Nat
    BY LoyaltyAssumption
  <1> QED BY <1>1, <1>2, <1>3, FS_EmptySet DEF SumInv, BalanceIsLedger

LEMMA NextSums == IInv /\ SumInv /\ [Next]_vars => SumInv'
  <1> SUFFICES ASSUME IInv, SumInv, [Next]_vars PROVE SumInv'
    OBVIOUS
  <1>1. CASE UNCHANGED <<ledger, balance>>
    BY <1>1 DEF SumInv, BalanceIsLedger, Movements, RowsOf, Points
  <1>2. CASE ~UNCHANGED <<ledger, balance>>
    BY <1>2, StepMoves, MoveSums DEF vars
  <1> QED BY <1>1, <1>2

LEMMA SumsAlways == Spec => []SumInv
  BY InitSums, NextSums, InvAlways, PTL DEF Spec

\* The balance of a customer from whom no earned points were taken back is the imported
\* one and the sum of all movements: the floor of addPoints never cuts anything off,
\* for any number of orders, requests and crashes.
THEOREM BalancesAddUp == Spec => []BalanceIsLedger
  <1>1. SumInv => BalanceIsLedger
    BY DEF SumInv
  <1> QED BY <1>1, SumsAlways, PTL
=============================================================================
