------------------------------ MODULE PrintQueue ------------------------------
(***************************************************************************)
(* The print jobs of a branch.  A job is queued under an idempotency key,  *)
(* claimed by one of the local print agents, reported printed or failed,   *)
(* and after a failure queued again by a manager.  Every change is one     *)
(* conditional UPDATE.  The agents are not part of the repository: they    *)
(* are any client of PrintJobsController that claims a job, prints it and  *)
(* reports until it is answered.                                           *)
(***************************************************************************)
EXTENDS Integers, FiniteSets

CONSTANTS Jobs,        \* idempotency keys: an order and a print type
          Agents,
          NoJob,
          MaxRetries   \* bound: retries of a job

ASSUME PrintAssumption ==
  /\ NoJob \notin Jobs
  /\ IsFiniteSet(Agents)
  /\ MaxRetries \in Nat

VARIABLES
  job,       \* print_jobs.status; attempts is only shown
  retried,   \* how often a manager queued the job again (history)
  paper,     \* how many copies came out of a printer (history)
  orphaned,  \* jobs that were PRINTING with no agent that knows (history)
  agent      \* what each agent is about

printVars == <<job, retried, paper, orphaned, agent>>

\* print_jobs.status; CANCELLED is never written.
JobStatuses == {"none", "PENDING", "PRINTING", "PRINTED", "FAILED"}

Resting == [stage |-> "idle", job |-> NoJob]

Hands == [stage : {"idle", "holding", "printed", "jammed"}, job : Jobs \cup {NoJob}]

PrintTypeOK ==
  /\ job \in [Jobs -> JobStatuses]
  /\ retried \in [Jobs -> Nat]
  /\ paper \in [Jobs -> Nat]
  /\ orphaned \subseteq Jobs
  /\ agent \in [Agents -> Hands]
  /\ \A a \in Agents : agent[a].stage = "idle" <=> agent[a].job = NoJob

PrintInit ==
  /\ job = [k \in Jobs |-> "none"]
  /\ retried = [k \in Jobs |-> 0]
  /\ paper = [k \in Jobs |-> 0]
  /\ orphaned = {}
  /\ agent = [a \in Agents |-> Resting]

Occupied(a, stage, k) == agent' = [agent EXCEPT ![a] = [stage |-> stage, job |-> k]]

Rest(a) == agent' = [agent EXCEPT ![a] = Resting]

Became(k, status) == job' = [job EXCEPT ![k] = status]

-----------------------------------------------------------------------------

\* INSERT .. ON CONFLICT (idempotency_key) DO NOTHING.
Queued(k, status) == IF job[k] = "none" THEN status ELSE job[k]

\* PrintJobQueuer: a job for which there is no printer is FAILED from the start.
Queue(K) ==
  /\ \E status \in [K -> {"PENDING", "FAILED"}] :
       job' = [k \in Jobs |-> IF k \in K THEN Queued(k, status[k]) ELSE job[k]]
  /\ UNCHANGED <<retried, paper, orphaned, agent>>

\* Mutant of Claimable: the job is looked at before, not in the UPDATE.
ClaimableTwice(k) == job[k] \in {"PENDING", "PRINTING"}

Claimable(k) == job[k] = "PENDING"

\* The agent does not know of its claim when the answer does not arrive.
Claim(a, k, answered) ==
  /\ agent[a].stage = "idle"
  /\ Claimable(k)
  /\ Became(k, "PRINTING")
  /\ IF answered
     THEN Occupied(a, "holding", k) /\ UNCHANGED orphaned
     ELSE orphaned' = orphaned \cup {k} /\ UNCHANGED agent
  /\ UNCHANGED <<retried, paper>>

\* External: the paper comes out.
ComesOut(a) ==
  LET k == agent[a].job IN
  /\ agent[a].stage = "holding"
  /\ paper' = [paper EXCEPT ![k] = @ + 1]
  /\ Occupied(a, "printed", k)
  /\ UNCHANGED <<job, retried, orphaned>>

\* External: the printer reports an error, with the paper out or not.
Jam(a) ==
  LET k == agent[a].job IN
  /\ agent[a].stage = "holding"
  /\ \E out \in {0, 1} : paper' = [paper EXCEPT ![k] = @ + out]
  /\ Occupied(a, "jammed", k)
  /\ UNCHANGED <<job, retried, orphaned>>

\* Mutant of Report: a failure is only taken for a job that is still queued.
ReportUnlessFailed(a, answered) ==
  LET k == agent[a].job IN
  /\ agent[a].stage \in {"printed", "jammed"}
  /\ IF job[k] = "PRINTING" /\ agent[a].stage = "printed"
     THEN Became(k, "PRINTED")
     ELSE UNCHANGED job
  /\ IF answered THEN Rest(a) ELSE UNCHANGED agent
  /\ UNCHANGED <<retried, paper, orphaned>>

\* markPrinted and markFailed: from PRINTING only.  An agent that gets no answer
\* reports again.
Report(a, answered) ==
  LET k == agent[a].job IN
  /\ agent[a].stage \in {"printed", "jammed"}
  /\ IF job[k] = "PRINTING"
     THEN Became(k, IF agent[a].stage = "printed" THEN "PRINTED" ELSE "FAILED")
     ELSE UNCHANGED job
  /\ IF answered THEN Rest(a) ELSE UNCHANGED agent
  /\ UNCHANGED <<retried, paper, orphaned>>

\* External: the agent's process ends.
AgentDies(a) ==
  /\ agent[a].stage # "idle"
  /\ Rest(a)
  /\ orphaned' = orphaned \cup {agent[a].job}
  /\ UNCHANGED <<job, retried, paper>>

\* By hand, from the printing page.
Retry(k) ==
  /\ job[k] = "FAILED"
  /\ retried[k] < MaxRetries
  /\ Became(k, "PENDING")
  /\ retried' = [retried EXCEPT ![k] = @ + 1]
  /\ UNCHANGED <<paper, orphaned, agent>>

AgentStep ==
  \E a \in Agents :
    \/ \E k \in Jobs, answered \in BOOLEAN : Claim(a, k, answered)
    \/ ComesOut(a) \/ Jam(a)
    \/ \E answered \in BOOLEAN : Report(a, answered)
    \/ AgentDies(a)

PrintNext == (\E K \in SUBSET Jobs : Queue(K)) \/ (\E k \in Jobs : Retry(k)) \/ AgentStep

PrintSpec == PrintInit /\ [][PrintNext]_printVars

-----------------------------------------------------------------------------

\* print-job.aggregate.ts: however many agents reach for a job and however often
\* it is queued, it comes out at most once, and once more for each time that a
\* manager asked for it after a failure.
PrintedOncePerTry == \A k \in Jobs : paper[k] <= 1 + retried[k]

=============================================================================
