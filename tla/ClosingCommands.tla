--------------------------- MODULE ClosingCommands ---------------------------
(***************************************************************************)
(* What closes a shift, a round, a settlement, a payroll month or a day    *)
(* works in one pattern: a request reads what has happened so far, under a *)
(* row lock or without one, adds it up, writes the outcome and books the   *)
(* difference or the pay in the journal.  Here are the requests, their     *)
(* locks, the clock their rows are stamped with, and the journal.          *)
(***************************************************************************)
EXTENDS Integers, FiniteSets

CONSTANTS Workers,   \* requests served at the same time
          Things,    \* rows: shifts, movements, deliveries, adjustments, ...
          Nothing,
          Scenarios, \* bound: things that are worked on together
          MaxClock   \* bound: moments told apart

ASSUME ClosingAssumption ==
  /\ IsFiniteSet(Things) /\ Nothing \notin Things
  /\ Scenarios \subseteq SUBSET Things
  /\ MaxClock \in Nat

VARIABLES
  live,    \* the things of this behaviour
  clock,   \* new Date(), as far as the order of two stamps matters
  journal, \* the entry of a shift, settlement, round or payroll run
  cmd      \* the transaction of each worker

Moments == 0..MaxClock

NoEntry == [status |-> "none", amount |-> 0]

\* What a transaction has read: since when, the rows it will write over, the
\* things it adds up, and those it has to remember; and what it has locked.
Command(op, doc, read, picked, locked) ==
  [op |-> op, doc |-> doc, since |-> clock, read |-> read, picked |-> picked,
   under |-> {}, locked |-> locked]

NoCommand ==
  [op |-> "idle", doc |-> Nothing, since |-> 0, read |-> Nothing, picked |-> {},
   under |-> {}, locked |-> {}]

Unlocked(X) == \A w \in Workers : cmd[w].locked \cap X = {}

\* A new row has an id of its own.
Unclaimed(x) == x \in live /\ \A w \in Workers : cmd[w].doc # x

Begin(w, command) ==
  /\ cmd[w].op = "idle"
  /\ Unlocked(command.locked)
  /\ cmd' = [cmd EXCEPT ![w] = command]
  /\ UNCHANGED <<live, journal>>

End(w) == cmd' = [cmd EXCEPT ![w] = NoCommand] /\ UNCHANGED <<live, clock>>

\* The request fails, or the server stops.
Abandon(w) == cmd[w].op # "idle" /\ End(w) /\ UNCHANGED journal

\* Everything stamped before has an earlier stamp, everything after a later one.
Tick == clock < MaxClock /\ clock' = clock + 1

\* A step that is a whole request.
AtOnce == UNCHANGED <<live, journal, cmd>>

\* postOnce: one entry for a source, and none for nothing.
Book(x, amount) ==
  IF amount = 0 \/ journal[x].status # "none" THEN UNCHANGED journal
  ELSE journal' = [journal EXCEPT ![x] = [status |-> "POSTED", amount |-> amount]]

\* reverseBySource.
Reverse(x) ==
  IF journal[x].status # "POSTED" THEN UNCHANGED journal
  ELSE journal' = [journal EXCEPT ![x].status = "REVERSED"]

\* What the journal should hold for something that is worth an amount.
BookedFor(x, amount) ==
  journal[x] = IF amount = 0 THEN NoEntry ELSE [status |-> "POSTED", amount |-> amount]

Within(n, limit) == -limit <= n /\ n <= limit

=============================================================================
