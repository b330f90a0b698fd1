------------------------------ MODULE PayrollRuns ------------------------------
(***************************************************************************)
(* The payroll of a month: adjustments of the employees (advances,         *)
(* penalties, bonuses), and the runs that apply them, are approved by      *)
(* somebody else and posted, and cancelled or deleted again.               *)
(***************************************************************************)
EXTENDS ClosingCommands

CONSTANTS Adjustments,
          Runs,
          Month,     \* the advisory lock payroll-run:<year>-<month>
          Employees,
          Users,     \* of hr-payroll
          EmployeeOf,
          MaxNet     \* bound: net pay of a run

ASSUME PayrollAssumption ==
  /\ Adjustments \subseteq Things /\ Runs \subseteq Things /\ Month \in Things
  /\ Month \notin Adjustments \cup Runs /\ Adjustments \cap Runs = {}
  /\ EmployeeOf \in [Adjustments -> Employees]
  /\ MaxNet \in Nat

VARIABLES
  adjustment, \* payroll_adjustments
  run,        \* payroll_runs
  unseen      \* adjustments that came when an approval had looked (history)

NoAdjustment == [status |-> "none", run |-> Nothing]

\* applied: the adjustments its lines were added up from.
NoRun == [status |-> "none", staff |-> {}, applied |-> {}, net |-> 0, by |-> Nothing]

paper == <<adjustment, run, unseen>>

InForce(p) == run[p].status \in {"DRAFT", "APPROVED"}

\* Approved, or about to be: the look at the adjustments is over.
LookedAt(p) ==
  run[p].status = "APPROVED" \/ \E w \in Workers : cmd[w].op = "approve" /\ cmd[w].doc = p

\* register-payroll-adjustment: a row, and nothing else is looked at.
RegisterAdjustment(a) ==
  /\ a \in live /\ adjustment[a].status = "none"
  /\ adjustment' = [adjustment EXCEPT ![a].status = "ACTIVE"]
  /\ unseen' = IF \E p \in Runs : LookedAt(p) THEN unseen \cup {a} ELSE unseen
  /\ AtOnce /\ UNCHANGED <<clock, run>>

\* Mutant of CancelAdjustment: whether a run has it is not asked.
CancelAdjustmentAny(a) ==
  /\ Unlocked({a})
  /\ adjustment[a].status = "ACTIVE"
  /\ adjustment' = [adjustment EXCEPT ![a].status = "CANCELLED"]
  /\ AtOnce /\ UNCHANGED <<clock, run, unseen>>

\* cancel-payroll-adjustment, under the lock of the row: not when a run has it.
CancelAdjustment(a) ==
  /\ Unlocked({a})
  /\ adjustment[a].status = "ACTIVE" /\ adjustment[a].run = Nothing
  /\ adjustment' = [adjustment EXCEPT ![a].status = "CANCELLED"]
  /\ AtOnce /\ UNCHANGED <<clock, run, unseen>>

\* listUnlinkedActiveForMonth ... FOR UPDATE.
Eligible(staff) ==
  {a \in Adjustments : /\ adjustment[a].status = "ACTIVE"
                       /\ adjustment[a].run = Nothing
                       /\ EmployeeOf[a] \in staff}

\* register-payroll-run: one run of the month in force, by the advisory lock, the check
\* and the unique index.
RegisterRead(w, p, staff) ==
  /\ Unclaimed(p) /\ run[p].status = "none"
  /\ \A other \in Runs : ~InForce(other)
  /\ Begin(w, [Command("register", p, Nothing, Eligible(staff), Eligible(staff) \cup {Month})
               EXCEPT !.under = staff])
  /\ UNCHANGED <<clock, paper>>

\* What the request says of an employee may differ from the adjustments, if it is
\* acknowledged: the net pay is any.
RegisterCommit(w) ==
  LET p == cmd[w].doc IN
  /\ cmd[w].op = "register"
  /\ \E net \in 0..MaxNet, u \in Users :
       run' = [run EXCEPT ![p] =
         [status |-> "DRAFT", staff |-> cmd[w].under, applied |-> cmd[w].picked,
          net |-> net, by |-> u]]
  /\ adjustment' = [a \in Adjustments |->
       IF a \in cmd[w].picked THEN [adjustment[a] EXCEPT !.run = p] ELSE adjustment[a]]
  /\ unseen' = unseen \ cmd[w].picked
  /\ End(w)
  /\ UNCHANGED journal

\* Mutant of ApproveRead: nobody looks for what the draft has missed.
ApproveBlind(w, p, u) ==
  /\ run[p].status = "DRAFT" /\ run[p].by # u
  /\ Begin(w, Command("approve", p, Nothing, {}, {p}))
  /\ UNCHANGED <<clock, paper>>

\* approve-payroll-run: BL-04, one at a time; BL-05, by another user; BL-10, with no
\* adjustment of its employees left over.
ApproveRead(w, p, u) ==
  /\ run[p].status = "DRAFT" /\ run[p].by # u
  /\ Eligible(run[p].staff) = {}
  /\ Begin(w, Command("approve", p, Nothing, {}, {p}))
  /\ UNCHANGED <<clock, paper>>

ApproveCommit(w) ==
  LET p == cmd[w].doc IN
  /\ cmd[w].op = "approve"
  /\ run' = [run EXCEPT ![p].status = "APPROVED"]
  /\ Book(p, run[p].net)
  /\ End(w)
  /\ UNCHANGED <<adjustment, unseen>>

\* unlinkFromRun.
Unlinked(p) ==
  [a \in Adjustments |->
     IF adjustment[a].run = p THEN [adjustment[a] EXCEPT !.run = Nothing] ELSE adjustment[a]]

\* cancel-payroll-run.
CancelRun(p) ==
  /\ Unlocked({p})
  /\ run[p].status = "APPROVED"
  /\ run' = [run EXCEPT ![p].status = "CANCELLED"]
  /\ adjustment' = Unlinked(p)
  /\ Reverse(p)
  /\ UNCHANGED <<live, clock, cmd, unseen>>

\* delete-draft-payroll-run.
DeleteDraft(p) ==
  /\ Unlocked({p})
  /\ run[p].status = "DRAFT"
  /\ run' = [run EXCEPT ![p] = [NoRun EXCEPT !.status = "DELETED"]]
  /\ adjustment' = Unlinked(p)
  /\ AtOnce /\ UNCHANGED <<clock, unseen>>

PayrollStep ==
  \/ \E a \in Adjustments : RegisterAdjustment(a) \/ CancelAdjustment(a)
  \/ \E p \in Runs : CancelRun(p) \/ DeleteDraft(p)
  \/ \E w \in Workers :
       \/ \E p \in Runs, staff \in SUBSET Employees : RegisterRead(w, p, staff)
       \/ RegisterCommit(w)
       \/ \E p \in Runs, u \in Users : ApproveRead(w, p, u)
       \/ ApproveCommit(w)

=============================================================================
