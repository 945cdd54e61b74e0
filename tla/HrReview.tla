------------------------------- MODULE HrReview -------------------------------
(***************************************************************************)
(* The HR reviews: which sessions are queued for review, the loop that     *)
(* hands the waiting jobs to the HR agent, and what of its answer is       *)
(* accepted.  The foreground service starts the loop in the background of  *)
(* every cycle; the commands run it once.  All of them hold the writer     *)
(* lock (WriterLock), and nothing else keeps two loops apart.              *)
(***************************************************************************)
EXTENDS ControlCommands, SequencesExt

CONSTANTS Loops,        \* activations of runPending
          Sessions,     \* the snapshots: [id, agent, session, kind]
          HrLimit,      \* how many jobs one loop takes (20)
          FindingLimit, \* how many findings a report may hold (100)
          AgentOutputs  \* what a run of the HR agent may end in

VARIABLES
    hrJobs,    \* the rows of hr_jobs, in created_at order: [review, status, result]
    writer,    \* the process that holds the writer lock
    loops      \* what a running loop holds

hVars == <<hrJobs, writer, loops>>

HrInit ==
    /\ hrJobs = <<>>
    /\ writer = None
    /\ loops = [l \in Loops |-> None]

\* A process takes the lock, for the life of the service or of one command,
AcquireWriter(p) ==
    /\ writer = None /\ Take("review")
    /\ writer' = p
    /\ UNCHANGED <<hrJobs, loops>>

\* and ends or dies: the database is closed, so that its loops write nothing any more.
WriterEnds(p) ==
    /\ writer = p
    /\ writer' = None
    /\ loops' = [l \in Loops |-> IF loops[l] # None /\ loops[l].by = p THEN None ELSE loops[l]]
    /\ UNCHANGED <<budget, hrJobs>>

-----------------------------------------------------------------------------
(* Queueing *)

candidates ==
    {s \in Sessions : s.agent # "hr-agent" /\ s.session # None /\ s.kind \notin {"RESTORE", "REVERT"}}
reviewKeys == {hrJobs[j].review : j \in DOMAIN hrJobs}

queueHrJob(key) == hrJobs' = Append(hrJobs, [review |-> key, status |-> "PENDING", result |-> None])

\* Mutant of queueReview: the jobs there are already are not looked at.
QueueReviewAgain(p) ==
    /\ writer = p /\ Take("review")
    /\ \E s \in candidates : queueHrJob(s.id)
    /\ UNCHANGED <<writer, loops>>

\* One job for every session; one that cannot be described ends the loop over the rest,
\* so that any part of the sessions may be queued.
queueReview(p) ==
    /\ writer = p /\ Take("review")
    /\ \E s \in candidates : s.id \notin reviewKeys /\ queueHrJob(s.id)
    /\ UNCHANGED <<writer, loops>>

-----------------------------------------------------------------------------
(* What of an answer of the agent is accepted *)

\* An output is [exit, envelope, error, findings]: envelope says whether there is a payload
\* envelope around a JSON report, error whether a payload reports an error, a finding is
\* [complete, category, severity].
Categories == {"UNAUTHORIZED_ACTION", "UNCLEAR_BOUNDARY", "SPECULATIVE_OR_VAGUE"}
Severities == {"INFO", "LOW", "MEDIUM", "HIGH", "CRITICAL"}
ValidFinding(finding) ==
    finding.complete /\ finding.category \in Categories /\ finding.severity \in Severities
parseHrAgentOutput(output) ==
    IF /\ output.exit = 0 /\ output.envelope /\ ~output.error
       /\ Len(output.findings) <= FindingLimit
       /\ \A i \in DOMAIN output.findings : ValidFinding(output.findings[i])
    THEN output.findings ELSE None

-----------------------------------------------------------------------------
(* Reviewing *)

\* The newest jobs that wait or have failed, by row.
listHrJobs ==
    LET open == {j \in DOMAIN hrJobs : hrJobs[j].status \in {"PENDING", "FAILED"}}
    IN {j \in open : Cardinality({i \in open : i > j}) < HrLimit}

Start(p, l) ==
    /\ loops[l] = None
    /\ loops' = [loops EXCEPT ![l] = [by |-> p, jobs |-> listHrJobs, reviewing |-> FALSE]]

\* Mutant of runPending: a cycle of the service starts its loop although one is running.
RunPendingAgain(p) ==
    /\ writer = p /\ Take("review")
    /\ \E l \in Loops : Start(p, l)
    /\ UNCHANGED <<hrJobs, writer>>

runPending(p) ==
    /\ writer = p /\ Take("review")
    /\ \A l \in Loops : loops[l] # None => loops[l].by # p
    /\ \E l \in Loops : Start(p, l)
    /\ UNCHANGED <<hrJobs, writer>>

\* A loop takes its jobs from the newest to the oldest.
NextJob(l) == Max(loops[l].jobs)

\* What a patch does not name stays as it is.
updateHrJob(j, status, result) ==
    hrJobs' = [hrJobs EXCEPT ![j].status = status, ![j].result = result]

\* The next job becomes RUNNING, whatever has become of it since the list was read.
StartReview(l) ==
    /\ loops[l] # None /\ ~loops[l].reviewing /\ loops[l].jobs # {}
    /\ updateHrJob(NextJob(l), "RUNNING", hrJobs[NextJob(l)].result)
    /\ loops' = [loops EXCEPT ![l].reviewing = TRUE]
    /\ UNCHANGED <<budget, writer>>

FinishReview(l) ==
    /\ loops[l] # None /\ loops[l].reviewing
    /\ \E output \in AgentOutputs :
          LET report == parseHrAgentOutput(output) IN
          IF report = None THEN updateHrJob(NextJob(l), "FAILED", hrJobs[NextJob(l)].result)
          ELSE updateHrJob(NextJob(l), "SUCCEEDED", report)
    /\ loops' = [loops EXCEPT ![l].reviewing = FALSE, ![l].jobs = @ \ {NextJob(l)}]
    /\ UNCHANGED <<budget, writer>>

EndLoop(l) ==
    /\ loops[l] # None /\ loops[l].jobs = {}
    /\ loops' = [loops EXCEPT ![l] = None]
    /\ UNCHANGED <<budget, hrJobs, writer>>

-----------------------------------------------------------------------------
HrTypeOK ==
    /\ \A i, j \in DOMAIN hrJobs : hrJobs[i].review = hrJobs[j].review => i = j
    /\ \A j \in DOMAIN hrJobs :
          /\ hrJobs[j].review \in {s.id : s \in candidates}
          /\ hrJobs[j].status \in {"PENDING", "RUNNING", "SUCCEEDED", "FAILED"}
          /\ hrJobs[j].status = "SUCCEEDED" <=> hrJobs[j].result # None
          /\ hrJobs[j].result # None => \A i \in DOMAIN hrJobs[j].result : ValidFinding(hrJobs[j].result[i])
    /\ writer \in Clients \union {None}

\* ReviewsAreFinal: a review that has succeeded (runPending) is never started or decided
\* again and keeps its report, over any number of loops, failures, stops and crashes.
ReviewsAreFinal ==
    [][\A j \in DOMAIN hrJobs : hrJobs[j].status = "SUCCEEDED" =>
        hrJobs'[j].status = "SUCCEEDED" /\ hrJobs'[j].result = hrJobs[j].result]_hrJobs
=============================================================================
