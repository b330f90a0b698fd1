----------------------------- MODULE OfflineSales -----------------------------
(***************************************************************************)
(* The till in the browser and the server behind an unreliable network.    *)
(* A press of the button gives the sale a clientRequestId and posts it; a  *)
(* sale that cannot be posted is put into a store of IndexedDB, which each *)
(* open tab posts in order, removing what the server has accepted.         *)
(*                                                                         *)
(* Registration is one step here: OrderLifecycle shows that it is atomic   *)
(* and that the key's advisory lock orders the requests of one key.        *)
(***************************************************************************)
EXTENDS Integers, FiniteSets

CONSTANTS Carts,       \* what customers want to buy, one after the other
          Tabs,        \* open tabs, each with its useOfflineSync
          Till,        \* the page where the cashier sells
          Doubtful,    \* carts that the server may not accept
          NoCart,
          NoId,
          MaxPresses,  \* bound: presses of the button for one cart
          MaxUnderway  \* bound: posts of the till that are still under way

\* clientRequestId: a new one at every press.
Ids == Carts \X (1..MaxPresses)

ASSUME SalesAssumption ==
  /\ Till \notin Tabs
  /\ Doubtful \subseteq Carts
  /\ NoCart \notin Carts
  /\ NoId \notin Ids
  /\ MaxPresses \in Nat
  /\ MaxUnderway \in Nat

VARIABLES
  online,    \* navigator.onLine
  till,      \* the cart on the screen and what useCreateOrder does with it
  fate,      \* what became of each cart
  store,     \* the store pending-orders
  createdAt, \* of the sales that were ever stored
  clock,     \* Date.now(), which moves between one put and the next
  sync,      \* useOfflineSync of each tab
  requests,  \* posted and not yet answered, for all the server knows
  orders,    \* how many orders have this client_request_id
  refused,   \* the carts that the server does not accept
  doubted,   \* carts given back to the cashier although they were posted (history)
  aborted    \* sales whose write was undone after it had succeeded (history)

browser == <<till, fate, sync>>

queue == <<store, createdAt, clock>>

salesVars == <<online, browser, queue, requests, orders, refused, doubted, aborted>>

IdsOf(c) == {id \in Ids : id[1] = c}

TillState == [stage : {"idle", "keyed", "sending", "storing"},
              cart : Carts \cup {NoCart}, press : 0..MaxPresses]

\* The entry in hand and the rest of the list that syncNow read.
TabState == [stage : {"idle", "posting", "removing"}, id : Ids \cup {NoId}, rest : SUBSET Ids]

SalesTypeOK ==
  /\ online \in BOOLEAN
  /\ till \in TillState
  /\ fate \in [Carts -> {"ahead", "keyed", "done", "gone"}]
  /\ store \subseteq Ids
  /\ createdAt \in [Ids -> Nat]
  /\ clock \in Nat
  /\ sync \in [Tabs -> TabState]
  /\ requests \subseteq [from : Tabs \cup {Till}, id : Ids, stage : {"sent", "committed"}]
  /\ orders \in [Ids -> Nat]
  /\ refused \subseteq Doubtful
  /\ doubted \subseteq Carts
  /\ aborted \subseteq Ids
  /\ \A t \in Tabs : sync[t].stage = "idle" <=> sync[t].id = NoId

NoSale == [stage |-> "idle", cart |-> NoCart, press |-> 0]

NoSync == [stage |-> "idle", id |-> NoId, rest |-> {}]

SalesInit ==
  /\ online \in BOOLEAN
  /\ till = NoSale
  /\ fate = [c \in Carts |-> "ahead"]
  /\ store = {}
  /\ createdAt = [id \in Ids |-> 0]
  /\ clock = 0
  /\ sync = [t \in Tabs |-> NoSync]
  /\ requests = {}
  /\ orders = [id \in Ids |-> 0]
  /\ refused \in SUBSET Doubtful
  /\ doubted = {} /\ aborted = {}

Request(s, id, stage) == [from |-> s, id |-> id, stage |-> stage]

Post(s, id) == requests' = requests \cup {Request(s, id, "sent")}

-----------------------------------------------------------------------------
(* The till: OrdersPage and useCreateOrder.                                 *)

Current == <<till.cart, till.press>>

TillAt(stage, c, n) == till' = [stage |-> stage, cart |-> c, press |-> n]

\* The cart leaves the screen, sold (onCreated) or not.
Leave(how) ==
  /\ till' = NoSale
  /\ fate' = [fate EXCEPT ![till.cart] = how]

GoBack == TillAt("keyed", till.cart, till.press) /\ UNCHANGED fate

KeyIn(c) ==
  /\ till.stage = "idle"
  /\ fate[c] = "ahead"
  /\ TillAt("keyed", c, 0)
  /\ fate' = [fate EXCEPT ![c] = "keyed"]
  /\ UNCHANGED <<online, sync, queue, requests, orders, refused, doubted, aborted>>

Press ==
  LET c == till.cart
      n == till.press + 1 IN
  /\ till.stage = "keyed"
  /\ n <= MaxPresses
  /\ Cardinality({m \in requests : m.from = Till}) < MaxUnderway
  /\ IF online
     THEN TillAt("sending", c, n) /\ Post(Till, <<c, n>>)
     ELSE TillAt("storing", c, n) /\ UNCHANGED requests
  /\ UNCHANGED <<online, fate, sync, queue, orders, refused, doubted, aborted>>

\* Mutant of TillHearsNothing: the cashier is asked to try again.
TillHearsError ==
  /\ till.stage = "sending"
  /\ GoBack
  /\ UNCHANGED <<online, sync, queue, requests, orders, refused, doubted, aborted>>

\* fetch rejects: the sale is queued under the same id.
TillHearsNothing ==
  /\ till.stage = "sending"
  /\ TillAt("storing", till.cart, till.press)
  /\ UNCHANGED <<online, fate, sync, queue, requests, orders, refused, doubted, aborted>>

\* ApiError from the proxy while the service restarts: the cart stays.
TillHearsProxy ==
  /\ till.stage = "sending"
  /\ GoBack
  /\ doubted' = doubted \cup {till.cart}
  /\ UNCHANGED <<online, sync, queue, requests, orders, refused, aborted>>

\* enqueueOrder: the entry is put with the time of day.
Put(id) ==
  /\ store' = store \cup {id}
  /\ clock' = clock + 1
  /\ createdAt' = [createdAt EXCEPT ![id] = clock + 1]

\* enqueueOrder resolves when the request succeeds, before its transaction
\* commits; external: IndexedDB may still abort it.
StoreSale ==
  /\ till.stage = "storing"
  /\ \/ Put(Current) /\ UNCHANGED aborted
     \/ aborted' = aborted \cup {Current} /\ UNCHANGED queue
  /\ Leave("done")
  /\ UNCHANGED <<online, sync, requests, orders, refused, doubted>>

\* External: the store cannot be written; enqueueOrder rejects and the cart stays.
StoreFails ==
  /\ till.stage = "storing"
  /\ GoBack
  /\ doubted' = doubted \cup {till.cart}
  /\ UNCHANGED <<online, sync, queue, requests, orders, refused, aborted>>

\* The cashier empties the cart, or the page is reloaded and the cart with it,
\* while the put may still go through.
GiveUp ==
  /\ till.stage # "idle"
  /\ Leave("gone")
  /\ \/ UNCHANGED queue
     \/ till.stage = "storing" /\ Put(Current)
  /\ UNCHANGED <<online, sync, requests, orders, refused, doubted, aborted>>

-----------------------------------------------------------------------------
(* useOfflineSync: syncNow, by the timer, the online event or the button.   *)

Oldest(id, entries) ==
  id \in entries /\ \A i \in entries : createdAt[id] <= createdAt[i]

Sync(t, stage, id, rest) ==
  sync' = [sync EXCEPT ![t] = [stage |-> stage, id |-> id, rest |-> rest]]

SyncStart(t) ==
  /\ sync[t].stage = "idle"
  /\ online
  /\ \E id \in store :
       /\ Oldest(id, store)
       /\ Sync(t, "posting", id, store \ {id})
       /\ Post(t, id)
  /\ UNCHANGED <<online, till, fate, queue, orders, refused, doubted, aborted>>

\* removeQueuedOrder, and on to the next entry of the list.
SyncRemove(t) ==
  /\ sync[t].stage = "removing"
  /\ store' = store \ {sync[t].id}
  /\ \/ /\ sync[t].rest = {}
        /\ Sync(t, "idle", NoId, {})
        /\ UNCHANGED requests
     \/ \E id \in sync[t].rest :
          /\ Oldest(id, sync[t].rest)
          /\ Sync(t, "posting", id, sync[t].rest \ {id})
          /\ Post(t, id)
  /\ UNCHANGED <<online, till, fate, createdAt, clock, orders, refused, doubted, aborted>>

\* Mutant of SyncBreaks: syncingRef is not cleared after an error.
SyncBreaksForGood(t) == sync[t].stage # "idle" /\ UNCHANGED salesVars

\* The loop breaks: no answer, or one from the proxy; or the tab is reloaded.
SyncBreaks(t) ==
  /\ sync[t].stage # "idle"
  /\ Sync(t, "idle", NoId, {})
  /\ UNCHANGED <<online, till, fate, queue, requests, orders, refused, doubted, aborted>>

-----------------------------------------------------------------------------
(* The server.                                                              *)

Waits(s, id) ==
  IF s = Till THEN till.stage = "sending" /\ Current = id
  ELSE sync[s].stage = "posting" /\ sync[s].id = id

\* Mutant of TabHears: the entry that the server refused is dropped.
TabDrops(t, ok) == Sync(t, "removing", sync[t].id, sync[t].rest)

\* A tab removes what the server accepted and stops at what it refused.
TabHears(t, ok) ==
  IF ok THEN Sync(t, "removing", sync[t].id, sync[t].rest) ELSE Sync(t, "idle", NoId, {})

TillHears(ok) == IF ok THEN Leave("done") ELSE GoBack

\* What the answer does, if it arrives where it is still waited for.
Answer(m, ok, arrives) ==
  IF arrives /\ Waits(m.from, m.id)
  THEN IF m.from = Till
       THEN TillHears(ok) /\ UNCHANGED sync
       ELSE TabHears(m.from, ok) /\ UNCHANGED <<till, fate>>
  ELSE UNCHANGED browser

Known(id) == orders[id] > 0

\* An order that exists is answered, as is one that is not accepted.
Receive(m, arrives) ==
  /\ m.stage = "sent"
  /\ Known(m.id) \/ m.id[1] \in refused
  /\ requests' = requests \ {m}
  /\ Answer(m, Known(m.id), arrives)
  /\ UNCHANGED <<online, queue, orders, refused, doubted, aborted>>

\* RegisterOrderHandler commits.
Register(m) ==
  /\ m.stage = "sent"
  /\ ~Known(m.id) /\ m.id[1] \notin refused
  /\ orders' = [orders EXCEPT ![m.id] = orders[m.id] + 1]
  /\ requests' = (requests \ {m}) \cup {Request(m.from, m.id, "committed")}
  /\ UNCHANGED <<online, browser, queue, refused, doubted, aborted>>

\* The subscribers of OrderRegistered have run, or failed, and the answer goes
\* out; or the server stops before it does.
Publish(m, arrives) ==
  /\ m.stage = "committed"
  /\ requests' = requests \ {m}
  /\ Answer(m, TRUE, arrives)
  /\ UNCHANGED <<online, queue, orders, refused, doubted, aborted>>

-----------------------------------------------------------------------------
(* The network.                                                             *)

Lose(m) ==
  /\ m.stage = "sent"
  /\ requests' = requests \ {m}
  /\ UNCHANGED <<online, browser, queue, orders, refused, doubted, aborted>>

Connect ==
  /\ online' = ~online
  /\ UNCHANGED <<browser, queue, requests, orders, refused, doubted, aborted>>

TillStep ==
  \/ \E c \in Carts : KeyIn(c)
  \/ Press \/ TillHearsNothing \/ TillHearsProxy \/ StoreSale \/ StoreFails \/ GiveUp

TabStep == \E t \in Tabs : SyncStart(t) \/ SyncRemove(t) \/ SyncBreaks(t)

\* What the server does besides publishing.
Serve == \E m \in requests : Register(m) \/ \E arrives \in BOOLEAN : Receive(m, arrives)

Net == Connect \/ \E m \in requests : Lose(m)

SalesNext ==
  \/ TillStep \/ TabStep \/ Serve \/ Net
  \/ \E m \in requests, arrives \in BOOLEAN : Publish(m, arrives)

SalesSpec == SalesInit /\ [][SalesNext]_salesVars

-----------------------------------------------------------------------------
(* Fairness: the timer and the event loop of a tab; and of the world, that  *)
(* a connection comes back and that a post which is repeated for ever is    *)
(* answered in the end.                                                     *)

Answered(t) ==
  \E m \in requests :
    /\ m.from = t /\ Waits(t, m.id)
    /\ Register(m) \/ Receive(m, TRUE) \/ Publish(m, TRUE)

SalesFairness ==
  /\ WF_salesVars(Connect /\ online')
  /\ \A t \in Tabs :
       /\ SF_salesVars(SyncStart(t))
       /\ SF_salesVars(Answered(t))
       /\ SF_salesVars(SyncRemove(t))
       /\ WF_salesVars(SyncBreaks(t))

FairSalesSpec == SalesSpec /\ SalesFairness

-----------------------------------------------------------------------------
(* Properties.                                                              *)

\* db.ts: a sale that left the till as sold is registered, or still waits in the
\* queue, whatever is lost, repeated or refused and whenever a tab is closed.
\* Except for a write that IndexedDB undid after it had reported success.
SaleIsKept ==
  \A c \in Carts :
    fate[c] = "done" =>
      \E id \in IdsOf(c) : orders[id] > 0 \/ id \in store \/ id \in aborted

\* useCreateOrder: one sale is one order, although it is posted again from the
\* queue, after an answer that did not arrive or while the first post is still on
\* its way.  Except for a cart that the cashier got back with an error after it
\* had been posted, and pressed again.
OneOrderPerSale ==
  \A c \in Carts :
    /\ \A id \in IdsOf(c) : orders[id] <= 1
    /\ c \notin doubted =>
         \A i, j \in IdsOf(c) : orders[i] > 0 /\ orders[j] > 0 => i = j

\* A queued sale that is refused, or behind one that is.
Blocked(id) ==
  \E i \in store : createdAt[i] <= createdAt[id] /\ i[1] \in refused

\* useOfflineSync: a sale made without a connection reaches the server in the end
\* unless a refused one is in front of it.
QueuedSaleArrives ==
  \A id \in Ids : id \in store ~> (orders[id] > 0 \/ Blocked(id))

=============================================================================
