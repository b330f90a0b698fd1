-------------------------- MODULE SaleToPaperProofs --------------------------
(***************************************************************************)
(* What is proved of OfflineSales, of PrintQueue and of the two together,  *)
(* for any carts, tabs and number of presses, any jobs, print agents and   *)
(* number of retries.  A sale is kept because every answer that lets it go *)
(* comes from an order that exists; it is one order because only a cart    *)
(* that was given back gets a second id.  Whoever holds a print job may    *)
(* still print it: copies and holders together never exceed what the row   *)
(* of the job and its retries allow.                                       *)
(***************************************************************************)
EXTENDS SaleToPaper, FiniteSetTheorems, TLAPS

-----------------------------------------------------------------------------
(* The inductive invariant.                                                 *)

\* The till has a cart unless it is idle, and an id once it was pressed.
TillHasCart ==
  /\ till.stage # "idle" => till.cart \in Carts
  /\ till.stage \in {"sending", "storing"} => till.press \in 1..MaxPresses

\* What is answered with success, and what a tab removes, has its order.
SuccessIsOrdered ==
  /\ \A m \in requests : m.stage = "committed" => orders[m.id] > 0
  /\ \A t \in Tabs : sync[t].stage = "removing" => orders[sync[t].id] > 0

\* The cart was never given back to the cashier.
NeverBack(c) == c \notin doubted /\ c \notin refused

First(id) == NeverBack(id[1]) => id[2] = 1

\* Such a cart is known under one id, whoever has it.
PressedOnce ==
  /\ \A m \in requests : First(m.id)
  /\ \A id \in store : First(id)
  /\ \A t \in Tabs : sync[t].stage # "idle" => First(sync[t].id)
  /\ \A t \in Tabs : \A id \in sync[t].rest : First(id)
  /\ till.stage = "keyed" /\ NeverBack(till.cart) => till.press = 0
  /\ till.stage \in {"sending", "storing"} /\ NeverBack(till.cart) => till.press = 1

\* An order was accepted, and once.
OrderedOnce ==
  \A id \in Ids : orders[id] <= 1 /\ (orders[id] > 0 => First(id) /\ id[1] \notin refused)

SalesInv ==
  SalesTypeOK /\ TillHasCart /\ SuccessIsOrdered /\ PressedOnce /\ OrderedOnce /\ SaleIsKept

-----------------------------------------------------------------------------

LEMMA SalesInitInv == SalesInit => SalesInv
<1> SUFFICES ASSUME SalesInit PROVE SalesInv
  OBVIOUS
<1> USE SalesAssumption DEF SalesInit
<1>1. SalesTypeOK
  BY DEF SalesTypeOK, TillState, TabState, NoSale, NoSync, Ids
<1>2. TillHasCart /\ SuccessIsOrdered /\ OrderedOnce /\ SaleIsKept
  BY DEF TillHasCart, SuccessIsOrdered, OrderedOnce, SaleIsKept, NoSale, NoSync
<1>3. PressedOnce
  BY DEF PressedOnce, NoSale, NoSync
<1> QED
  BY <1>1, <1>2, <1>3 DEF SalesInv

\* The id under which the till sends or stores.
LEMMA CurrentIsId ==
  ASSUME SalesInv, till.stage \in {"sending", "storing"}
  PROVE  /\ Current \in Ids
         /\ Current \in IdsOf(till.cart)
         /\ First(Current)
<1>1. till.cart \in Carts /\ till.press \in 1..MaxPresses
  BY DEF SalesInv, TillHasCart
<1>2. NeverBack(till.cart) => till.press = 1
  BY DEF SalesInv, PressedOnce
<1> QED
  BY <1>1, <1>2 DEF Current, Ids, IdsOf, First

\* The id that a tab posts or removes.
LEMMA TabHasId ==
  ASSUME SalesInv, NEW t \in Tabs, sync[t].stage # "idle"
  PROVE  sync[t].id \in Ids
BY DEF SalesInv, SalesTypeOK, TabState

LEMMA KeyInKeeps ==
  ASSUME SalesInv, NEW c \in Carts, KeyIn(c)
  PROVE  SalesInv'
<1> USE SalesAssumption DEF KeyIn, TillAt, queue
<1>1. SalesTypeOK'
  BY DEF SalesInv, SalesTypeOK, TillState
<1>2. (TillHasCart /\ SuccessIsOrdered /\ OrderedOnce)'
  BY DEF SalesInv, TillHasCart, SuccessIsOrdered, OrderedOnce, First, NeverBack
<1>3. PressedOnce'
  BY DEF SalesInv, PressedOnce, First, NeverBack
<1>4. SaleIsKept'
  BY DEF SalesInv, SalesTypeOK, SaleIsKept
<1> QED
  BY <1>1, <1>2, <1>3, <1>4 DEF SalesInv

LEMMA PressKeeps ==
  ASSUME SalesInv, Press
  PROVE  SalesInv'
<1> DEFINE c == till.cart
           n == till.press + 1
<1>1. /\ till.stage = "keyed"
      /\ n \in 1..MaxPresses
      /\ c \in Carts
      /\ UNCHANGED <<online, fate, sync, store, createdAt, clock, orders, refused, doubted, aborted>>
  BY SalesAssumption DEF SalesInv, SalesTypeOK, TillState, TillHasCart, Press, queue
<1>2. <<c, n>> \in Ids /\ First(<<c, n>>)
  BY <1>1, SalesAssumption DEF SalesInv, SalesTypeOK, PressedOnce, TillState, Ids, First
<1>3. \/ till' = [stage |-> "sending", cart |-> c, press |-> n]
      \/ till' = [stage |-> "storing", cart |-> c, press |-> n]
  BY DEF Press, TillAt
<1>4. requests' = requests \/ requests' = requests \cup {Request(Till, <<c, n>>, "sent")}
  BY DEF Press, Post
<1> HIDE DEF n
<1>5. SalesTypeOK'
  BY <1>1, <1>2, <1>3, <1>4, SalesAssumption DEF SalesInv, SalesTypeOK, TillState, Request
<1>6. (TillHasCart /\ SuccessIsOrdered /\ OrderedOnce /\ SaleIsKept)'
  BY <1>1, <1>3, <1>4 DEF SalesInv, TillHasCart, SuccessIsOrdered, OrderedOnce, SaleIsKept, Request,
     First, NeverBack
<1>7. PressedOnce'
  <2>1. NeverBack(c) => n = 1
    BY <1>1, <1>2 DEF First
  <2> QED
    BY <1>1, <1>2, <1>3, <1>4, <2>1 DEF SalesInv, PressedOnce, Request, First, NeverBack
<1> QED
  BY <1>5, <1>6, <1>7 DEF SalesInv

LEMMA TillHearsNothingKeeps ==
  ASSUME SalesInv, TillHearsNothing
  PROVE  SalesInv'
<1> USE SalesAssumption DEF TillHearsNothing, TillAt, queue
<1>1. SalesTypeOK'
  BY DEF SalesInv, SalesTypeOK, TillState
<1>2. (TillHasCart /\ SuccessIsOrdered /\ OrderedOnce /\ SaleIsKept)'
  BY DEF SalesInv, TillHasCart, SuccessIsOrdered, OrderedOnce, SaleIsKept, First, NeverBack
<1>3. PressedOnce'
  BY DEF SalesInv, PressedOnce, First, NeverBack
<1> QED
  BY <1>1, <1>2, <1>3 DEF SalesInv

\* The cart is on the screen again, and remembered as given back.
LEMMA GivenBackKeeps ==
  ASSUME SalesInv, GoBack, till.stage \in {"sending", "storing"},
         doubted' = doubted \cup {till.cart},
         UNCHANGED <<online, sync, queue, requests, orders, refused, aborted>>
  PROVE  SalesInv'
<1> USE SalesAssumption DEF GoBack, TillAt, queue
<1>1. SalesTypeOK'
  BY DEF SalesInv, SalesTypeOK, TillState, TillHasCart
<1>2. (TillHasCart /\ SuccessIsOrdered /\ OrderedOnce /\ SaleIsKept)'
  BY DEF SalesInv, TillHasCart, SuccessIsOrdered, OrderedOnce, SaleIsKept, First, NeverBack
<1>3. PressedOnce'
  BY DEF SalesInv, PressedOnce, First, NeverBack
<1> QED
  BY <1>1, <1>2, <1>3 DEF SalesInv

\* The cart leaves the screen, sold only if there is a trace of it; what was put
\* into the store came from the till.
LEMMA LeaveKeeps ==
  ASSUME SalesInv, NEW how \in {"done", "gone"}, Leave(how),
         till.stage # "idle",
         UNCHANGED queue \/ (till.stage = "storing" /\ Put(Current)),
         aborted' = aborted \/ (till.stage = "storing" /\ aborted' = aborted \cup {Current}),
         how = "done" => \E id \in IdsOf(till.cart) : orders[id] > 0 \/ id \in store' \/ id \in aborted',
         requests' \subseteq requests,
         UNCHANGED <<online, sync, orders, refused, doubted>>
  PROVE  SalesInv'
<1>1. till.stage = "storing" => Current \in Ids /\ Current \in IdsOf(till.cart) /\ First(Current)
  BY CurrentIsId
<1>2. till.cart \in Carts
  BY DEF SalesInv, TillHasCart
<1>3. /\ till' = NoSale
      /\ fate' = [fate EXCEPT ![till.cart] = how]
  BY DEF Leave
<1>4. store' = store \/ (till.stage = "storing" /\ store' = store \cup {Current})
  BY DEF Put, queue
<1>5. SalesTypeOK'
  <2>1. createdAt' \in [Ids -> Nat] /\ clock' \in Nat
    BY <1>1 DEF SalesInv, SalesTypeOK, Put, queue
  <2> QED
    BY <1>1, <1>2, <1>3, <1>4, <2>1, SalesAssumption DEF SalesInv, SalesTypeOK, TillState, NoSale
<1>6. (TillHasCart /\ SuccessIsOrdered /\ OrderedOnce)'
  BY <1>3 DEF SalesInv, TillHasCart, SuccessIsOrdered, OrderedOnce, First, NeverBack, NoSale
<1>7. PressedOnce'
  BY <1>1, <1>3, <1>4 DEF SalesInv, PressedOnce, First, NeverBack, NoSale
<1>8. SaleIsKept'
  <2> SUFFICES ASSUME NEW c \in Carts, fate'[c] = "done"
               PROVE  \E id \in IdsOf(c) : orders[id] > 0 \/ id \in store' \/ id \in aborted'
    BY DEF SaleIsKept
  <2>1. CASE c = till.cart
    <3>1. how = "done"
      BY <1>2, <1>3, <2>1 DEF SalesInv, SalesTypeOK
    <3> QED
      BY <2>1, <3>1
  <2>2. CASE c # till.cart
    <3>1. fate[c] = "done"
      BY <1>2, <1>3, <2>2 DEF SalesInv, SalesTypeOK
    <3> QED
      BY <1>4, <3>1 DEF SalesInv, SaleIsKept
  <2> QED
    BY <2>1, <2>2
<1> QED
  BY <1>5, <1>6, <1>7, <1>8 DEF SalesInv

LEMMA StoreSaleKeeps ==
  ASSUME SalesInv, StoreSale
  PROVE  SalesInv'
<1>1. till.stage = "storing" /\ Leave("done")
  BY DEF StoreSale
<1>2. Current \in IdsOf(till.cart)
  BY <1>1, CurrentIsId
<1>3. Current \in store' \/ Current \in aborted'
  BY DEF StoreSale, Put
<1>4. UNCHANGED queue \/ Put(Current)
  BY DEF StoreSale
<1>5. aborted' = aborted \/ aborted' = aborted \cup {Current}
  BY DEF StoreSale
<1>6. UNCHANGED <<online, sync, requests, orders, refused, doubted>>
  BY DEF StoreSale
<1> QED
  BY <1>1, <1>2, <1>3, <1>4, <1>5, <1>6, LeaveKeeps

LEMMA GiveUpKeeps ==
  ASSUME SalesInv, GiveUp
  PROVE  SalesInv'
<1>1. till.stage # "idle" /\ Leave("gone")
  BY DEF GiveUp
<1>2. UNCHANGED queue \/ (till.stage = "storing" /\ Put(Current))
  BY DEF GiveUp
<1>3. UNCHANGED <<online, sync, requests, orders, refused, doubted, aborted>>
  BY DEF GiveUp
<1> QED
  BY <1>1, <1>2, <1>3, LeaveKeeps

\* A tab takes on an id of its list, or none.
LEMMA SyncMovesKeep ==
  ASSUME SalesInv, NEW t \in Tabs,
         NEW next \in TabState, sync' = [sync EXCEPT ![t] = next],
         next.stage = "idle" <=> next.id = NoId,
         next.stage # "idle" => First(next.id),
         \A id \in next.rest : First(id),
         next.stage = "removing" => orders[next.id] > 0,
         NEW R \in SUBSET [from : Tabs \cup {Till}, id : Ids, stage : {"sent"}],
         \A m \in R : First(m.id),
         requests' \subseteq requests \cup R,
         store' \subseteq store,
         \A id \in store \ store' : orders[id] > 0,
         UNCHANGED <<online, till, fate, createdAt, clock, orders, refused, doubted, aborted>>
  PROVE  SalesInv'
<1>1. SalesTypeOK'
  BY SalesAssumption DEF SalesInv, SalesTypeOK
<1>2. (TillHasCart /\ SuccessIsOrdered /\ OrderedOnce)'
  BY DEF SalesInv, SalesTypeOK, TillHasCart, SuccessIsOrdered, OrderedOnce, First, NeverBack
<1>3. PressedOnce'
  BY DEF SalesInv, SalesTypeOK, PressedOnce, First, NeverBack
<1>4. SaleIsKept'
  BY DEF SalesInv, SaleIsKept
<1> QED
  BY <1>1, <1>2, <1>3, <1>4 DEF SalesInv

LEMMA SyncStartKeeps ==
  ASSUME SalesInv, NEW t \in Tabs, SyncStart(t)
  PROVE  SalesInv'
<1>1. PICK id \in store : Sync(t, "posting", id, store \ {id}) /\ Post(t, id)
  BY DEF SyncStart
<1> DEFINE next == [stage |-> "posting", id |-> id, rest |-> store \ {id}]
           R == {Request(t, id, "sent")}
<1>2. id \in Ids /\ store \subseteq Ids
  BY DEF SalesInv, SalesTypeOK
<1>3. next \in TabState /\ id # NoId
  BY <1>2, SalesAssumption DEF TabState
<1>4. \A i \in store : First(i)
  BY DEF SalesInv, PressedOnce
<1>5. R \in SUBSET [from : Tabs \cup {Till}, id : Ids, stage : {"sent"}] /\ \A m \in R : First(m.id)
  BY <1>2, <1>4 DEF Request
<1>6. sync' = [sync EXCEPT ![t] = next] /\ requests' = requests \cup R
  BY <1>1 DEF Sync, Post
<1>7. UNCHANGED <<online, till, fate, store, createdAt, clock, orders, refused, doubted, aborted>>
  BY DEF SyncStart, queue
<1>8. /\ next.stage = "idle" <=> next.id = NoId
      /\ next.stage # "idle" => First(next.id)
      /\ \A i \in next.rest : First(i)
      /\ next.stage = "removing" => orders[next.id] > 0
  BY <1>3, <1>4
<1> HIDE DEF next, R
<1> QED
  BY <1>3, <1>5, <1>6, <1>7, <1>8, SyncMovesKeep

LEMMA SyncRemoveKeeps ==
  ASSUME SalesInv, NEW t \in Tabs, SyncRemove(t)
  PROVE  SalesInv'
<1>1. /\ sync[t].stage = "removing"
      /\ store' = store \ {sync[t].id}
      /\ UNCHANGED <<online, till, fate, createdAt, clock, orders, refused, doubted, aborted>>
  BY DEF SyncRemove
<1>2. \A id \in store \ store' : orders[id] > 0
  BY <1>1 DEF SalesInv, SuccessIsOrdered
<1>3. store' \subseteq store
  BY <1>1
<1>4. sync[t].rest \subseteq Ids /\ \A i \in sync[t].rest : First(i)
  BY DEF SalesInv, SalesTypeOK, TabState, PressedOnce
<1>5. CASE sync[t].rest = {} /\ Sync(t, "idle", NoId, {}) /\ UNCHANGED requests
  <2> DEFINE next == [stage |-> "idle", id |-> NoId, rest |-> {}]
             R == {}
  <2>1. next \in TabState
    BY DEF TabState
  <2>2. sync' = [sync EXCEPT ![t] = next] /\ requests' \subseteq requests \cup R
    BY <1>5 DEF Sync
  <2>3. /\ next.stage = "idle" <=> next.id = NoId
        /\ next.stage # "idle" => First(next.id)
        /\ \A i \in next.rest : First(i)
        /\ next.stage = "removing" => orders[next.id] > 0
    OBVIOUS
  <2>4. /\ R \in SUBSET [from : Tabs \cup {Till}, id : Ids, stage : {"sent"}]
        /\ \A m \in R : First(m.id)
    OBVIOUS
  <2> HIDE DEF next, R
  <2> QED
    BY <1>1, <1>2, <1>3, <2>1, <2>2, <2>3, <2>4, SyncMovesKeep
<1>6. CASE \E id \in sync[t].rest : Sync(t, "posting", id, sync[t].rest \ {id}) /\ Post(t, id)
  <2>1. PICK id \in sync[t].rest : Sync(t, "posting", id, sync[t].rest \ {id}) /\ Post(t, id)
    BY <1>6
  <2> DEFINE next == [stage |-> "posting", id |-> id, rest |-> sync[t].rest \ {id}]
             R == {Request(t, id, "sent")}
  <2>2. next \in TabState /\ id # NoId
    BY <1>4, SalesAssumption DEF TabState
  <2>3. R \in SUBSET [from : Tabs \cup {Till}, id : Ids, stage : {"sent"}] /\ \A m \in R : First(m.id)
    BY <1>4 DEF Request
  <2>4. sync' = [sync EXCEPT ![t] = next] /\ requests' = requests \cup R
    BY <2>1 DEF Sync, Post
  <2>5. /\ next.stage = "idle" <=> next.id = NoId
        /\ next.stage # "idle" => First(next.id)
        /\ \A i \in next.rest : First(i)
        /\ next.stage = "removing" => orders[next.id] > 0
    BY <1>4, <2>2
  <2> HIDE DEF next, R
  <2> QED
    BY <1>1, <1>2, <1>3, <2>2, <2>3, <2>4, <2>5, SyncMovesKeep
<1> QED
  BY <1>5, <1>6 DEF SyncRemove

LEMMA SyncBreaksKeeps ==
  ASSUME SalesInv, NEW t \in Tabs, SyncBreaks(t)
  PROVE  SalesInv'
<1> DEFINE next == [stage |-> "idle", id |-> NoId, rest |-> {}]
           R == {}
<1>1. next \in TabState
  BY DEF TabState
<1>2. sync' = [sync EXCEPT ![t] = next] /\ requests' \subseteq requests \cup R
  BY DEF SyncBreaks, Sync
<1>3. /\ next.stage = "idle" <=> next.id = NoId
      /\ next.stage # "idle" => First(next.id)
      /\ \A i \in next.rest : First(i)
      /\ next.stage = "removing" => orders[next.id] > 0
  OBVIOUS
<1>4. UNCHANGED <<online, till, fate, store, createdAt, clock, orders, refused, doubted, aborted>>
  BY DEF SyncBreaks, queue
<1>5. store' = store
  BY <1>4
<1>6. /\ R \in SUBSET [from : Tabs \cup {Till}, id : Ids, stage : {"sent"}]
      /\ \A m \in R : First(m.id)
  OBVIOUS
<1> HIDE DEF next, R
<1> QED
  BY <1>1, <1>2, <1>3, <1>4, <1>5, <1>6, SyncMovesKeep

LEMMA RegisterKeeps ==
  ASSUME SalesInv, NEW m \in requests, Register(m)
  PROVE  SalesInv'
<1>1. /\ m.from \in Tabs \cup {Till} /\ m.id \in Ids
      /\ orders[m.id] \in Nat /\ ~(orders[m.id] > 0) /\ m.id[1] \notin refused
      /\ First(m.id)
  BY DEF SalesInv, SalesTypeOK, PressedOnce, Register, Known
<1>0. orders[m.id] + 1 = 1
  BY <1>1
<1>2. /\ orders' = [orders EXCEPT ![m.id] = 1]
      /\ requests' = (requests \ {m}) \cup {Request(m.from, m.id, "committed")}
      /\ UNCHANGED <<online, till, fate, sync, store, createdAt, clock, refused, doubted, aborted>>
  BY <1>0 DEF Register, browser, queue
<1>3. SalesTypeOK'
  BY <1>1, <1>2, SalesAssumption DEF SalesInv, SalesTypeOK, Request
<1>4. \A id \in Ids : orders'[id] >= orders[id]
  BY <1>1, <1>2 DEF SalesInv, SalesTypeOK
<1>5. TillHasCart'
  BY <1>2 DEF SalesInv, TillHasCart
<1>6. SuccessIsOrdered'
  <2>1. \A n \in requests' : n.stage = "committed" => orders'[n.id] > 0
    <3> SUFFICES ASSUME NEW n \in requests', n.stage = "committed" PROVE orders'[n.id] > 0
      OBVIOUS
    <3>1. CASE n \in requests
      <4>1. n.id \in Ids /\ orders[n.id] > 0
        BY <3>1 DEF SalesInv, SalesTypeOK, SuccessIsOrdered
      <4> QED
        BY <1>2, <4>1 DEF SalesInv, SalesTypeOK
    <3>2. CASE n = Request(m.from, m.id, "committed")
      BY <1>1, <1>2, <3>2 DEF SalesInv, SalesTypeOK, Request
    <3> QED
      BY <1>2, <3>1, <3>2
  <2>2. \A t \in Tabs : sync'[t].stage = "removing" => orders'[sync'[t].id] > 0
    <3> SUFFICES ASSUME NEW t \in Tabs, sync[t].stage = "removing" PROVE orders'[sync[t].id] > 0
      BY <1>2
    <3>1. sync[t].id \in Ids /\ orders[sync[t].id] > 0
      BY TabHasId DEF SalesInv, SuccessIsOrdered
    <3> QED
      BY <1>2, <3>1 DEF SalesInv, SalesTypeOK
  <2> QED
    BY <2>1, <2>2 DEF SuccessIsOrdered
<1>7. PressedOnce'
  BY <1>1, <1>2 DEF SalesInv, PressedOnce, First, NeverBack, Request
<1>8. OrderedOnce'
  BY <1>1, <1>2 DEF SalesInv, SalesTypeOK, OrderedOnce, First, NeverBack
<1>9. SaleIsKept'
  <2> SUFFICES ASSUME NEW c \in Carts, fate[c] = "done"
               PROVE  \E id \in IdsOf(c) : orders'[id] > 0 \/ id \in store \/ id \in aborted
    BY <1>2 DEF SaleIsKept
  <2>1. PICK id \in IdsOf(c) : orders[id] > 0 \/ id \in store \/ id \in aborted
    BY DEF SalesInv, SaleIsKept
  <2>2. orders[id] > 0 => orders'[id] > 0
    BY <1>2, <2>1 DEF SalesInv, SalesTypeOK, IdsOf
  <2> QED
    BY <2>1, <2>2
<1> QED
  BY <1>3, <1>5, <1>6, <1>7, <1>8, <1>9 DEF SalesInv

\* What an answer does: nothing, unless it is waited for.
LEMMA AnswerKeeps ==
  ASSUME SalesInv, NEW m \in requests, NEW ok \in BOOLEAN, NEW arrives \in BOOLEAN,
         Answer(m, ok, arrives),
         ok => orders[m.id] > 0,
         ~ok => m.id[1] \in refused,
         requests' = requests \ {m},
         UNCHANGED <<online, queue, orders, refused, doubted, aborted>>
  PROVE  SalesInv'
<1>1. m.from \in Tabs \cup {Till} /\ m.id \in Ids
  BY DEF SalesInv, SalesTypeOK
<1>2. UNCHANGED <<online, store, createdAt, clock, orders, refused, doubted, aborted>>
  BY DEF queue
<1>3. requests' \subseteq requests
  OBVIOUS
<1>4. CASE UNCHANGED browser
  <2>1. UNCHANGED <<till, fate, sync>>
    BY <1>4 DEF browser
  <2>2. SalesTypeOK'
    BY <1>2, <1>3, <2>1 DEF SalesInv, SalesTypeOK
  <2>3. (TillHasCart /\ SuccessIsOrdered /\ OrderedOnce /\ SaleIsKept)'
    BY <1>2, <1>3, <2>1 DEF SalesInv, TillHasCart, SuccessIsOrdered, OrderedOnce, SaleIsKept, First, NeverBack
  <2>4. PressedOnce'
    BY <1>2, <1>3, <2>1 DEF SalesInv, PressedOnce, First, NeverBack
  <2> QED
    BY <2>2, <2>3, <2>4 DEF SalesInv
<1>5. CASE m.from = Till /\ Waits(m.from, m.id) /\ TillHears(ok) /\ UNCHANGED sync
  <2>1. till.stage = "sending" /\ Current = m.id
    BY <1>5 DEF Waits
  <2>2. m.id \in IdsOf(till.cart) /\ till.cart = m.id[1]
    BY <2>1, CurrentIsId DEF Current
  <2>3. CASE ok /\ Leave("done")
    <3>1. \E id \in IdsOf(till.cart) : orders[id] > 0 \/ id \in store' \/ id \in aborted'
      BY <2>2, <2>3
    <3> QED
      BY <1>2, <1>3, <1>5, <2>1, <2>3, <3>1, LeaveKeeps
  <2>4. CASE ~ok /\ GoBack
    <3>1. till' = [stage |-> "keyed", cart |-> till.cart, press |-> till.press] /\ UNCHANGED <<fate, sync>>
      BY <1>5, <2>4 DEF GoBack, TillAt
    <3>2. till.cart \in Carts /\ till.press \in 1..MaxPresses /\ ~NeverBack(till.cart)
      BY <2>1, <2>2, <2>4 DEF SalesInv, TillHasCart, NeverBack
    <3>3. SalesTypeOK'
      BY <1>2, <1>3, <3>1, <3>2, SalesAssumption DEF SalesInv, SalesTypeOK, TillState
    <3>4. (TillHasCart /\ SuccessIsOrdered /\ OrderedOnce /\ SaleIsKept)'
      BY <1>2, <1>3, <3>1, <3>2 DEF SalesInv, TillHasCart, SuccessIsOrdered, OrderedOnce, SaleIsKept,
         First, NeverBack
    <3>5. PressedOnce'
      BY <1>2, <1>3, <3>1, <3>2 DEF SalesInv, PressedOnce, First, NeverBack
    <3> QED
      BY <3>3, <3>4, <3>5 DEF SalesInv
  <2> QED
    BY <1>5, <2>3, <2>4 DEF TillHears
<1>6. CASE m.from # Till /\ Waits(m.from, m.id) /\ TabHears(m.from, ok) /\ UNCHANGED <<till, fate>>
  <2> DEFINE t == m.from
             next == IF ok THEN [stage |-> "removing", id |-> sync[t].id, rest |-> sync[t].rest]
                     ELSE [stage |-> "idle", id |-> NoId, rest |-> {}]
             R == {}
  <2>1. t \in Tabs /\ sync[t].stage = "posting" /\ sync[t].id = m.id
    BY <1>1, <1>6 DEF Waits
  <2>2. sync' = [sync EXCEPT ![t] = next]
    BY <1>6 DEF TabHears, Sync
  <2>3. next \in TabState
    BY <2>1 DEF SalesInv, SalesTypeOK, TabState
  <2>4. /\ next.stage = "idle" <=> next.id = NoId
        /\ next.stage # "idle" => First(next.id)
        /\ \A id \in next.rest : First(id)
        /\ next.stage = "removing" => orders[next.id] > 0
    BY <1>1, <2>1, SalesAssumption DEF SalesInv, PressedOnce
  <2>5. /\ R \in SUBSET [from : Tabs \cup {Till}, id : Ids, stage : {"sent"}]
        /\ \A n \in R : First(n.id)
        /\ requests' \subseteq requests \cup R
        /\ store' = store
    BY <1>2
  <2> HIDE DEF next, R, t
  <2> QED
    BY <1>2, <1>6, <2>1, <2>2, <2>3, <2>4, <2>5, SyncMovesKeep
<1> QED
  BY <1>4, <1>5, <1>6 DEF Answer

LEMMA ReceiveKeeps ==
  ASSUME SalesInv, NEW m \in requests, NEW arrives \in BOOLEAN, Receive(m, arrives)
  PROVE  SalesInv'
<1>1. Known(m.id) \in BOOLEAN
  BY DEF Known
<1>2. Answer(m, Known(m.id), arrives)
  BY DEF Receive
<1>3. /\ Known(m.id) => orders[m.id] > 0
      /\ ~Known(m.id) => m.id[1] \in refused
  BY DEF Receive, Known
<1>4. requests' = requests \ {m} /\ UNCHANGED <<online, queue, orders, refused, doubted, aborted>>
  BY DEF Receive
<1> QED
  BY <1>1, <1>2, <1>3, <1>4, AnswerKeeps

LEMMA PublishKeeps ==
  ASSUME SalesInv, NEW m \in requests, NEW arrives \in BOOLEAN, Publish(m, arrives)
  PROVE  SalesInv'
<1>1. orders[m.id] > 0
  BY DEF Publish, SalesInv, SuccessIsOrdered
<1>2. Answer(m, TRUE, arrives)
  BY DEF Publish
<1>3. requests' = requests \ {m} /\ UNCHANGED <<online, queue, orders, refused, doubted, aborted>>
  BY DEF Publish
<1> QED
  BY <1>1, <1>2, <1>3, AnswerKeeps

\* The network, or nothing at all.
LEMMA NetKeeps ==
  ASSUME SalesInv, requests' \subseteq requests, online' \in BOOLEAN,
         UNCHANGED <<browser, queue, orders, refused, doubted, aborted>>
  PROVE  SalesInv'
<1>1. UNCHANGED <<till, fate, sync, store, createdAt, clock, orders, refused, doubted, aborted>>
  BY DEF browser, queue
<1>2. SalesTypeOK'
  BY <1>1 DEF SalesInv, SalesTypeOK
<1>3. (TillHasCart /\ SuccessIsOrdered /\ OrderedOnce /\ SaleIsKept)'
  BY <1>1 DEF SalesInv, TillHasCart, SuccessIsOrdered, OrderedOnce, SaleIsKept, First, NeverBack
<1>4. PressedOnce'
  BY <1>1 DEF SalesInv, PressedOnce, First, NeverBack
<1> QED
  BY <1>2, <1>3, <1>4 DEF SalesInv

LEMMA SalesNextInv == SalesInv /\ [SalesNext]_salesVars => SalesInv'
<1> SUFFICES ASSUME SalesInv, [SalesNext]_salesVars PROVE SalesInv'
  OBVIOUS
<1>1. CASE TillStep
  <2>1. CASE TillHearsProxy
    BY <2>1, GivenBackKeeps DEF TillHearsProxy
  <2>2. CASE StoreFails
    BY <2>2, GivenBackKeeps DEF StoreFails
  <2> QED
    BY <1>1, <2>1, <2>2, KeyInKeeps, PressKeeps, TillHearsNothingKeeps, StoreSaleKeeps, GiveUpKeeps
    DEF TillStep
<1>2. CASE TabStep
  BY <1>2, SyncStartKeeps, SyncRemoveKeeps, SyncBreaksKeeps DEF TabStep
<1>3. CASE Serve
  BY <1>3, RegisterKeeps, ReceiveKeeps DEF Serve
<1>4. CASE Net
  <2>1. online \in BOOLEAN
    BY DEF SalesInv, SalesTypeOK
  <2>2. CASE Connect
    BY <2>1, <2>2, NetKeeps DEF Connect
  <2>3. CASE \E m \in requests : Lose(m)
    BY <2>1, <2>3, NetKeeps DEF Lose
  <2> QED
    BY <1>4, <2>2, <2>3 DEF Net
<1>5. CASE \E m \in requests, arrives \in BOOLEAN : Publish(m, arrives)
  BY <1>5, PublishKeeps
<1>6. CASE UNCHANGED salesVars
  <2>1. online \in BOOLEAN
    BY DEF SalesInv, SalesTypeOK
  <2> QED
    BY <1>6, <2>1, NetKeeps DEF salesVars
<1> QED
  BY <1>1, <1>2, <1>3, <1>4, <1>5, <1>6 DEF SalesNext

-----------------------------------------------------------------------------

\* The inductive invariant of the till, its queue and the server.
THEOREM SalesInvariant == SalesSpec => []SalesInv
<1> QED
  BY SalesInitInv, SalesNextInv, PTL DEF SalesSpec

\* Every variable keeps its type, for any carts, tabs and number of presses.
THEOREM SalesTypeCorrect == SalesSpec => []SalesTypeOK
<1>1. SalesInv => SalesTypeOK
  BY DEF SalesInv
<1> QED
  BY <1>1, SalesInvariant, PTL

\* db.ts: a sale that left the till as sold is registered or still in the queue.
THEOREM SalesAreKept == SalesSpec => []SaleIsKept
<1>1. SalesInv => SaleIsKept
  BY DEF SalesInv
<1> QED
  BY <1>1, SalesInvariant, PTL

\* useCreateOrder: one sale is one order, however often it is posted.
THEOREM EverySaleIsOneOrder == SalesSpec => []OneOrderPerSale
<1>1. SalesInv => OneOrderPerSale
  <2> SUFFICES ASSUME SalesInv, NEW c \in Carts
               PROVE  /\ \A id \in IdsOf(c) : orders[id] <= 1
                      /\ c \notin doubted =>
                           \A i, j \in IdsOf(c) : orders[i] > 0 /\ orders[j] > 0 => i = j
    BY DEF OneOrderPerSale
  <2>1. \A id \in IdsOf(c) : orders[id] <= 1
    BY DEF SalesInv, OrderedOnce, IdsOf
  <2>2. ASSUME c \notin doubted, NEW i \in IdsOf(c), NEW j \in IdsOf(c), orders[i] > 0, orders[j] > 0
        PROVE  i = j
    <3>1. i \in Ids /\ j \in Ids /\ i[1] = c /\ j[1] = c
      BY DEF IdsOf
    <3>2. i[2] = 1 /\ j[2] = 1
      BY <2>2, <3>1 DEF SalesInv, OrderedOnce, First, NeverBack
    <3> QED
      BY <3>1, <3>2 DEF Ids
  <2> QED
    BY <2>1, <2>2
<1> QED
  BY <1>1, SalesInvariant, PTL

-----------------------------------------------------------------------------

Holders(k) == {a \in Agents : agent[a].stage = "holding" /\ agent[a].job = k}

\* The copies that may have been begun: a queued job is nobody's yet.
Allowed(k) == IF job[k] \in {"none", "PENDING"} THEN retried[k] ELSE retried[k] + 1

CopiesBounded ==
  \A k \in Jobs : paper[k] + Cardinality(Holders(k)) <= Allowed(k)

PrintInv == PrintTypeOK /\ CopiesBounded

-----------------------------------------------------------------------------

LEMMA HoldersFinite ==
  ASSUME NEW k
  PROVE  IsFiniteSet(Holders(k)) /\ Cardinality(Holders(k)) \in Nat
BY PrintAssumption, FS_Subset, FS_CardinalityType DEF Holders

LEMMA PrintInitInv == PrintInit => PrintInv
<1> SUFFICES ASSUME PrintInit PROVE PrintInv
  OBVIOUS
<1>1. PrintTypeOK
  BY PrintAssumption DEF PrintInit, PrintTypeOK, JobStatuses, Hands, Resting
<1>2. CopiesBounded
  <2> SUFFICES ASSUME NEW k \in Jobs PROVE paper[k] + Cardinality(Holders(k)) <= Allowed(k)
    BY DEF CopiesBounded
  <2>1. Cardinality(Holders(k)) = 0
    <3>1. Holders(k) = {}
      BY DEF PrintInit, Holders, Resting
    <3> QED
      BY <3>1, FS_EmptySet
  <2> QED
    BY <2>1 DEF PrintInit, Allowed
<1> QED
  BY <1>1, <1>2 DEF PrintInv

\* No agent takes a job on, and no copy comes out.
LEMMA QuietCopies ==
  ASSUME PrintInv, PrintTypeOK', NEW k \in Jobs,
         Holders(k)' \subseteq Holders(k), paper'[k] = paper[k],
         Allowed(k)' >= Allowed(k)
  PROVE  (paper[k] + Cardinality(Holders(k)) <= Allowed(k))'
<1>1. IsFiniteSet(Holders(k)) /\ Cardinality(Holders(k)) \in Nat
  BY HoldersFinite
<1>2. Cardinality(Holders(k)') <= Cardinality(Holders(k)) /\ Cardinality(Holders(k)') \in Nat
  BY <1>1, FS_Subset, FS_CardinalityType
<1>3. paper[k] + Cardinality(Holders(k)) <= Allowed(k)
  BY DEF PrintInv, CopiesBounded
<1>4. paper[k] \in Nat /\ Allowed(k) \in Nat /\ Allowed(k)' \in Nat
  BY DEF PrintInv, PrintTypeOK, Allowed
<1> QED
  BY <1>1, <1>2, <1>3, <1>4

LEMMA QueueCopies ==
  ASSUME PrintInv, NEW K \in SUBSET Jobs, Queue(K)
  PROVE  PrintInv'
<1>1. PICK status \in [K -> {"PENDING", "FAILED"}] :
        job' = [k \in Jobs |-> IF k \in K THEN Queued(k, status[k]) ELSE job[k]]
  BY DEF Queue
<1>2. UNCHANGED <<retried, paper, orphaned, agent>>
  BY DEF Queue
<1>3. PrintTypeOK'
  BY <1>1, <1>2 DEF PrintInv, PrintTypeOK, JobStatuses, Queued
<1>4. CopiesBounded'
  <2> SUFFICES ASSUME NEW k \in Jobs PROVE (paper[k] + Cardinality(Holders(k)) <= Allowed(k))'
    BY DEF CopiesBounded
  <2>1. Holders(k)' = Holders(k)
    BY <1>2 DEF Holders
  <2>2. Allowed(k)' >= Allowed(k)
    BY <1>1, <1>2 DEF PrintInv, PrintTypeOK, Allowed, Queued
  <2> QED
    BY <1>2, <1>3, <2>1, <2>2, QuietCopies
<1> QED
  BY <1>3, <1>4 DEF PrintInv

LEMMA RetryCopies ==
  ASSUME PrintInv, NEW k \in Jobs, Retry(k)
  PROVE  PrintInv'
<1>1. /\ job[k] = "FAILED"
      /\ job' = [job EXCEPT ![k] = "PENDING"]
      /\ retried' = [retried EXCEPT ![k] = @ + 1]
      /\ UNCHANGED <<paper, orphaned, agent>>
  BY DEF Retry, Became
<1>2. PrintTypeOK'
  BY <1>1 DEF PrintInv, PrintTypeOK, JobStatuses
<1>3. CopiesBounded'
  <2> SUFFICES ASSUME NEW l \in Jobs PROVE (paper[l] + Cardinality(Holders(l)) <= Allowed(l))'
    BY DEF CopiesBounded
  <2>1. Holders(l)' = Holders(l)
    BY <1>1 DEF Holders
  <2>2. Allowed(l)' >= Allowed(l)
    BY <1>1 DEF PrintInv, PrintTypeOK, Allowed
  <2> QED
    BY <1>1, <1>2, <2>1, <2>2, QuietCopies
<1> QED
  BY <1>2, <1>3 DEF PrintInv

LEMMA ClaimCopies ==
  ASSUME PrintInv, NEW a \in Agents, NEW k \in Jobs, NEW answered \in BOOLEAN, Claim(a, k, answered)
  PROVE  PrintInv'
<1>1. /\ agent[a].stage = "idle"
      /\ job[k] = "PENDING"
      /\ job' = [job EXCEPT ![k] = "PRINTING"]
      /\ UNCHANGED <<retried, paper>>
      /\ agent' = agent \/ agent' = [agent EXCEPT ![a] = [stage |-> "holding", job |-> k]]
      /\ orphaned' = orphaned \/ orphaned' = orphaned \cup {k}
  BY DEF Claim, Claimable, Became, Occupied
<1>2. PrintTypeOK'
  BY <1>1, PrintAssumption DEF PrintInv, PrintTypeOK, JobStatuses, Hands
<1>3. CopiesBounded'
  <2> SUFFICES ASSUME NEW l \in Jobs PROVE (paper[l] + Cardinality(Holders(l)) <= Allowed(l))'
    BY DEF CopiesBounded
  <2>1. CASE l # k
    <3>1. Holders(l)' \subseteq Holders(l)
      BY <1>1, <2>1 DEF Holders, PrintInv, PrintTypeOK
    <3>2. Allowed(l)' = Allowed(l)
      BY <1>1, <2>1 DEF PrintInv, PrintTypeOK, Allowed
    <3>3. Allowed(l) \in Nat
      BY DEF PrintInv, PrintTypeOK, Allowed
    <3> QED
      BY <1>1, <1>2, <3>1, <3>2, <3>3, QuietCopies
  <2>2. CASE l = k
    <3>1. Holders(k)' \subseteq Holders(k) \cup {a}
      BY <1>1 DEF Holders, PrintInv, PrintTypeOK
    <3>2. IsFiniteSet(Holders(k)) /\ Cardinality(Holders(k)) \in Nat
      BY HoldersFinite
    <3> DEFINE S == Holders(k)
    <3>9. /\ IsFiniteSet(S \cup {a})
          /\ Cardinality(S \cup {a}) = IF a \in S THEN Cardinality(S) ELSE Cardinality(S) + 1
      BY <3>2, FS_AddElement
    <3>3. /\ IsFiniteSet(Holders(k) \cup {a})
          /\ Cardinality(Holders(k) \cup {a}) \in Nat
          /\ Cardinality(Holders(k) \cup {a}) <= Cardinality(Holders(k)) + 1
      BY <3>2, <3>9
    <3>4. Cardinality(Holders(k)') <= Cardinality(Holders(k) \cup {a}) /\ Cardinality(Holders(k)') \in Nat
      BY <3>1, <3>3, FS_Subset, FS_CardinalityType
    <3>5. paper[k] + Cardinality(Holders(k)) <= retried[k]
      BY <1>1 DEF PrintInv, CopiesBounded, Allowed
    <3>6. Allowed(k)' = retried[k] + 1 /\ paper'[k] = paper[k]
      BY <1>1 DEF PrintInv, PrintTypeOK, Allowed
    <3>7. paper[k] \in Nat /\ retried[k] \in Nat
      BY DEF PrintInv, PrintTypeOK
    <3>8. paper'[k] + Cardinality(Holders(k)') <= Allowed(k)'
      BY <3>2, <3>3, <3>4, <3>5, <3>6, <3>7
    <3> QED
      BY <2>2, <3>8
  <2> QED
    BY <2>1, <2>2
<1> QED
  BY <1>2, <1>3 DEF PrintInv

\* A holder lets go of the job, with at most one copy.
LEMMA PaperCopies ==
  ASSUME PrintInv, NEW a \in Agents, ComesOut(a) \/ Jam(a)
  PROVE  PrintInv'
<1>0. PICK k \in Jobs : agent[a].job = k
  BY DEF PrintInv, PrintTypeOK, Hands, ComesOut, Jam
<1>1. /\ agent[a].stage = "holding"
      /\ UNCHANGED <<job, retried, orphaned>>
      /\ \E out \in {0, 1} : paper' = [paper EXCEPT ![k] = @ + out]
      /\ \E stage \in {"printed", "jammed"} : agent' = [agent EXCEPT ![a] = [stage |-> stage, job |-> k]]
  BY <1>0 DEF ComesOut, Jam, Occupied
<1>2. PrintTypeOK'
  BY <1>1, PrintAssumption DEF PrintInv, PrintTypeOK, Hands
<1>3. CopiesBounded'
  <2> SUFFICES ASSUME NEW l \in Jobs PROVE (paper[l] + Cardinality(Holders(l)) <= Allowed(l))'
    BY DEF CopiesBounded
  <2>1. Allowed(l)' = Allowed(l) /\ Allowed(l) \in Nat
    BY <1>1 DEF PrintInv, PrintTypeOK, Allowed
  <2>2. CASE l # k
    <3>1. Holders(l)' \subseteq Holders(l)
      BY <1>1, <2>2 DEF Holders, PrintInv, PrintTypeOK
    <3>2. paper'[l] = paper[l]
      BY <1>1, <2>2 DEF PrintInv, PrintTypeOK
    <3> QED
      BY <1>2, <2>1, <3>1, <3>2, QuietCopies
  <2>3. CASE l = k
    <3>1. a \in Holders(k) /\ Holders(k)' = Holders(k) \ {a}
      BY <1>0, <1>1 DEF Holders, PrintInv, PrintTypeOK
    <3>2. IsFiniteSet(Holders(k)) /\ Cardinality(Holders(k)) \in Nat
      BY HoldersFinite
    <3>3. Cardinality(Holders(k)') = Cardinality(Holders(k)) - 1
      BY <3>1, <3>2, FS_RemoveElement
    <3>4. paper'[k] <= paper[k] + 1 /\ paper[k] \in Nat /\ paper'[k] \in Nat
      BY <1>1 DEF PrintInv, PrintTypeOK
    <3>5. paper[k] + Cardinality(Holders(k)) <= Allowed(k)
      BY DEF PrintInv, CopiesBounded
    <3>6. paper'[k] + Cardinality(Holders(k)') <= Allowed(k)
      BY <2>1, <2>3, <3>2, <3>3, <3>4, <3>5
    <3>7. paper'[k] + Cardinality(Holders(k)') <= Allowed(k)'
      BY <2>1, <2>3, <3>6
    <3> QED
      BY <2>3, <3>7
  <2> QED
    BY <2>2, <2>3
<1> QED
  BY <1>2, <1>3 DEF PrintInv

\* An agent reports, or dies.
LEMMA LetGoCopies ==
  ASSUME PrintInv, NEW a \in Agents,
         AgentDies(a) \/ (\E answered \in BOOLEAN : Report(a, answered))
  PROVE  PrintInv'
<1> DEFINE k == agent[a].job
<1>1. /\ agent[a].stage # "idle"
      /\ UNCHANGED <<retried, paper>>
      /\ agent' = agent \/ agent' = [agent EXCEPT ![a] = Resting]
      /\ orphaned' = orphaned \/ orphaned' = orphaned \cup {k}
  BY DEF AgentDies, Report, Rest
<1>2. \/ job' = job
      \/ job[k] = "PRINTING" /\ \E status \in {"PRINTED", "FAILED"} : job' = [job EXCEPT ![k] = status]
  BY DEF AgentDies, Report, Became
<1>3. k \in Jobs
  BY <1>1 DEF PrintInv, PrintTypeOK, Hands
<1>4. PrintTypeOK'
  BY <1>1, <1>2, <1>3, PrintAssumption DEF PrintInv, PrintTypeOK, Hands, Resting, JobStatuses
<1>5. CopiesBounded'
  <2> SUFFICES ASSUME NEW l \in Jobs PROVE (paper[l] + Cardinality(Holders(l)) <= Allowed(l))'
    BY DEF CopiesBounded
  <2>1. Holders(l)' \subseteq Holders(l)
    BY <1>1 DEF Holders, Resting, PrintInv, PrintTypeOK
  <2>2. Allowed(l)' = Allowed(l) /\ Allowed(l) \in Nat
    BY <1>1, <1>2, <1>3 DEF PrintInv, PrintTypeOK, Allowed
  <2> QED
    BY <1>1, <1>4, <2>1, <2>2, QuietCopies
<1> QED
  BY <1>4, <1>5 DEF PrintInv

LEMMA PrintNextInv == PrintInv /\ [PrintNext]_printVars => PrintInv'
<1> SUFFICES ASSUME PrintInv, [PrintNext]_printVars PROVE PrintInv'
  OBVIOUS
<1>1. CASE UNCHANGED printVars
  BY <1>1 DEF printVars, PrintInv, PrintTypeOK, CopiesBounded, Holders, Allowed
<1>2. CASE AgentStep
  BY <1>2, ClaimCopies, PaperCopies, LetGoCopies DEF AgentStep
<1> QED
  BY <1>1, <1>2, QueueCopies, RetryCopies DEF PrintNext

\* The inductive invariant of the print jobs.
THEOREM PrintInvariant == PrintSpec => []PrintInv
<1> QED
  BY PrintInitInv, PrintNextInv, PTL DEF PrintSpec

LEMMA BoundedIsOncePerTry ==
  ASSUME PrintInv
  PROVE  PrintedOncePerTry
<1> SUFFICES ASSUME NEW k \in Jobs PROVE paper[k] <= 1 + retried[k]
  BY DEF PrintedOncePerTry
<1>1. Cardinality(Holders(k)) \in Nat
  BY HoldersFinite
<1>2. paper[k] + Cardinality(Holders(k)) <= Allowed(k)
  BY DEF PrintInv, CopiesBounded
<1>3. paper[k] \in Nat /\ retried[k] \in Nat
  BY DEF PrintInv, PrintTypeOK
<1>4. Allowed(k) <= retried[k] + 1 /\ Allowed(k) \in Nat
  BY <1>3 DEF Allowed
<1> QED
  BY <1>1, <1>2, <1>3, <1>4

-----------------------------------------------------------------------------
(* The composition.                                                         *)

LEMMA ComposedStep ==
  SalesInv /\ [Next]_vars => [SalesNext]_salesVars /\ [PrintNext]_printVars
<1> SUFFICES ASSUME SalesInv, [Next]_vars PROVE [SalesNext]_salesVars /\ [PrintNext]_printVars
  OBVIOUS
<1>1. CASE Selling
  BY <1>1 DEF Selling, SalesNext
<1>2. CASE Printing
  BY <1>2 DEF Printing, PrintNext
<1>3. CASE Ask
  <2>1. PICK id \in Ids, type \in OnDemand : Queue({<<id, type>>}) /\ UNCHANGED salesVars
    BY <1>3 DEF Ask
  <2>2. {<<id, type>>} \in SUBSET Jobs
    BY ComposedAssumption
  <2> QED
    BY <2>1, <2>2 DEF PrintNext
<1>4. CASE \E m \in requests, arrives \in BOOLEAN : Announce(m, arrives) \/ AnnounceFails(m, arrives)
  <2>1. PICK m \in requests, arrives \in BOOLEAN : Announce(m, arrives) \/ AnnounceFails(m, arrives)
    BY <1>4
  <2>2. Publish(m, arrives)
    BY <2>1 DEF Announce, AnnounceFails
  <2>3. \E K \in SUBSET Tickets(m.id) : Queue(K)
    BY <2>1 DEF Announce, AnnounceFails
  <2>4. m.id \in Ids
    BY <2>1 DEF SalesInv, SalesTypeOK
  <2>5. Tickets(m.id) \subseteq Jobs
    BY <2>4, ComposedAssumption DEF Tickets
  <2> QED
    BY <2>2, <2>3, <2>5 DEF SalesNext, PrintNext
<1>5. CASE UNCHANGED vars
  BY <1>5 DEF vars
<1> QED
  BY <1>1, <1>2, <1>3, <1>4, <1>5 DEF Next

LEMMA InitParts == Init => SalesInit /\ PrintInit
BY DEF Init

\* The composition is, step for step, the till and the server of OfflineSales.
THEOREM SalesInside == Spec => SalesSpec
<1>1. Spec => []SalesInv
  <2>1. Init => SalesInv
    BY SalesInitInv, InitParts
  <2>2. SalesInv /\ [Next]_vars => SalesInv'
    BY SalesNextInv, ComposedStep
  <2> QED
    BY <2>1, <2>2, PTL DEF Spec
<1>2. SalesInv /\ [Next]_vars => [SalesNext]_salesVars
  BY ComposedStep
<1> QED
  BY <1>1, <1>2, InitParts, PTL DEF Spec, SalesSpec

\* And it is the queue of PrintQueue.
THEOREM PrintsInside == Spec => PrintSpec
<1>1. Spec => []SalesInv
  BY SalesInside, SalesInvariant, PTL
<1>2. SalesInv /\ [Next]_vars => [PrintNext]_printVars
  BY ComposedStep
<1> QED
  BY <1>1, <1>2, InitParts, PTL DEF Spec, PrintSpec

\* Every variable of the composition keeps its type.
THEOREM TypeCorrect == Spec => []TypeOK
<1>1. Spec => [](SalesInv /\ PrintInv)
  BY SalesInside, PrintsInside, SalesInvariant, PrintInvariant, PTL
<1>2. Init => unprinted \subseteq Jobs
  BY DEF Init
<1>3. SalesInv /\ unprinted \subseteq Jobs /\ [Next]_vars => (unprinted \subseteq Jobs)'
  <2> SUFFICES ASSUME SalesInv, unprinted \subseteq Jobs, [Next]_vars PROVE unprinted' \subseteq Jobs
    OBVIOUS
  <2>1. CASE \E m \in requests, arrives \in BOOLEAN : AnnounceFails(m, arrives)
    <3>1. PICK m \in requests, arrives \in BOOLEAN : AnnounceFails(m, arrives)
      BY <2>1
    <3>2. unprinted' \subseteq unprinted \cup Tickets(m.id)
      BY <3>1 DEF AnnounceFails
    <3>3. Tickets(m.id) \subseteq Jobs
      BY ComposedAssumption DEF SalesInv, SalesTypeOK, Tickets
    <3> QED
      BY <3>2, <3>3
  <2>2. CASE UNCHANGED unprinted
    BY <2>2
  <2> QED
    BY <2>1, <2>2 DEF Next, vars, Selling, Ask, Printing, Announce
<1>4. SalesInv /\ PrintInv /\ unprinted \subseteq Jobs => TypeOK
  BY DEF TypeOK, SalesInv, PrintInv
<1> QED
  BY <1>1, <1>2, <1>3, <1>4, PTL DEF Spec

\* print-job.aggregate.ts: a job comes out at most once for each time it was asked
\* for, whatever the agents, the till and the network do.
THEOREM OneCopyPerTry == Spec => []PrintedOncePerTry
<1>1. PrintInv => PrintedOncePerTry
  BY BoundedIsOncePerTry
<1> QED
  BY <1>1, PrintsInside, PrintInvariant, PTL
===============================================================================
