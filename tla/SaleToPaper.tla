------------------------------ MODULE SaleToPaper ------------------------------
(***************************************************************************)
(* From the cart to the ticket: the till, its queue and the server of      *)
(* OfflineSales, with the print jobs of PrintQueue.  They meet where the   *)
(* server has published OrderRegistered: QueueOrderCreationPrintJobs is    *)
(* one of its subscribers after the commit.                                *)
(***************************************************************************)
EXTENDS OfflineSales, PrintQueue

CONSTANTS Automatic,  \* print types queued with the order (takeaway, delivery)
          OnDemand    \* print types that somebody asks for (bill, handover)

ASSUME ComposedAssumption ==
  /\ Automatic \cap OnDemand = {}
  /\ Jobs = Ids \X (Automatic \cup OnDemand)

VARIABLES unprinted  \* jobs that nobody queued (history)

vars == <<salesVars, printVars, unprinted>>

TypeOK == SalesTypeOK /\ PrintTypeOK /\ unprinted \subseteq Jobs

Init == SalesInit /\ PrintInit /\ unprinted = {}

\* queue-order-creation-print-jobs.handler.ts: what an order prints at once.
Tickets(id) == {id} \X Automatic

Announce(m, arrives) ==
  /\ Publish(m, arrives)
  /\ Queue(Tickets(m.id))
  /\ UNCHANGED unprinted

\* The subscriber fails on its way, which is logged and no more, or the server
\* stops: each job is an insert of its own.
AnnounceFails(m, arrives) ==
  \E K \in SUBSET Tickets(m.id) :
    /\ Publish(m, arrives)
    /\ Queue(K)
    /\ unprinted' = unprinted \cup (Tickets(m.id) \ K)

\* queue-dinein-bill, queue-delivery-handover: asked for, again and again if need be.
Ask ==
  \E id \in Ids, type \in OnDemand :
    /\ orders[id] > 0
    /\ Queue({<<id, type>>})
    /\ UNCHANGED <<salesVars, unprinted>>

Printing == ((\E k \in Jobs : Retry(k)) \/ AgentStep) /\ UNCHANGED <<salesVars, unprinted>>

Selling == (TillStep \/ TabStep \/ Serve \/ Net) /\ UNCHANGED <<printVars, unprinted>>

Next ==
  \/ Selling \/ Ask \/ Printing
  \/ \E m \in requests, arrives \in BOOLEAN : Announce(m, arrives) \/ AnnounceFails(m, arrives)

Spec == Init /\ [][Next]_vars

\* The server goes on with what it has committed; an agent takes jobs, finishes
\* them and is answered.
Fairness ==
  /\ WF_vars(\E m \in requests : Announce(m, TRUE))
  /\ \A a \in Agents :
       /\ SF_vars((\E k \in Jobs : Claim(a, k, TRUE)) /\ UNCHANGED <<salesVars, unprinted>>)
       /\ WF_vars((ComesOut(a) \/ Jam(a) \/ Report(a, TRUE)) /\ UNCHANGED <<salesVars, unprinted>>)

FairSpec == Spec /\ Fairness

-----------------------------------------------------------------------------
(* Properties.                                                              *)

\* From the registration to the kitchen: the tickets of an order come out, or show
\* FAILED on the printing page, unless the server stopped before it queued the
\* job or an agent died with it.
TicketComesOut ==
  \A id \in Ids : \A k \in Tickets(id) :
    orders[id] > 0
      ~> (paper[k] > 0 \/ job[k] = "FAILED" \/ k \in unprinted \/ k \in orphaned)

=============================================================================
