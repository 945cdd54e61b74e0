--------------------------- MODULE TaskExecution ---------------------------
(***************************************************************************)
(* executeTask of the orchestrator service over the execution leases of    *)
(* the Control Kernel.  One `slot' of Execution stands for one invocation  *)
(* of executeTask at a time, together with the row of the executions table *)
(* that the invocation inserts; a slot is used again, under a fresh        *)
(* execution id, once its row is no longer active.                         *)
(*                                                                         *)
(* Every step is one SQL statement or transaction of the kernel with the   *)
(* code up to the next await, so a crash, the passing of time or a reaper  *)
(* can come between any two of them.  All kernel writers share the         *)
(* orchestrator writer lock (module WriterLock), which is why a step that  *)
(* begins a command needs NoCallLive.                                      *)
(***************************************************************************)
EXTENDS Integers

CONSTANTS
    Task,                 \* the tasks of a run
    Execution,            \* slots for invocations and their execution rows
    LeaseSeconds,         \* scheduleSeconds of the lease, in clock ticks
    MaxAttempts,          \* max_attempts of a new task
    RetryBatch,           \* attempts added by an approved retry batch
    MaxJsonRegenerations, \* MAX_JSON_REGENERATIONS
    AttemptBound          \* bound on the attempts humans may ask for

ASSUME ExecutionAssumption ==
    /\ LeaseSeconds \in Nat \ {0}
    /\ MaxAttempts \in Nat \ {0}
    /\ RetryBatch \in Nat \ {0}
    /\ MaxJsonRegenerations \in Nat
    /\ AttemptBound \in Nat

VARIABLES
    tasks,      \* the tasks table
    executions, \* the executions table: the latest row of every slot
    pc,         \* where the invocation of a slot stands
    seen,       \* the task as the invocation read it, with its local counter
    outcome,    \* what the invocation is about to commit
    disturbed   \* history: the tasks whose call was hit by one of the faults below

vars == <<tasks, executions, pc, seen, outcome, disturbed>>

TaskState    == {"READY", "RUNNING", "SUCCEEDED", "FAILED", "WAITING_HUMAN", "CANCELLED"}
ActiveState  == {"LEASED", "RUNNING"}
FinalState   == {"NONE", "SUCCEEDED", "FAILED", "LEASE_EXPIRED"}
Outcome      == {"NONE", "ACCEPTED", "REPORTED_FAILURE", "ERROR"}
Step == {"idle", "ticked", "prepared", "retrying", "exhausted", "leased", "started",
         "agent", "result", "asserted", "committed", "abandon", "abandoning"}

\* lease_expires_at - now, saturated one tick below zero.
Remaining == -1 .. LeaseSeconds

Regenerations == 0 .. MaxJsonRegenerations

TaskRow == [state : TaskState, attempt : Nat \ {0}, maxAttempts : Nat \ {0},
            regenerations : Regenerations]

ExecutionRow == [state : ActiveState \cup FinalState, task : Task,
                 attempt : Nat \ {0}, remaining : Remaining]

SeenRow == [task : Task, attempt : Nat \ {0}, maxAttempts : Nat \ {0},
            regenerations : Regenerations]

TypeOK ==
    /\ tasks \in [Task -> TaskRow]
    /\ executions \in [Execution -> ExecutionRow]
    /\ pc \in [Execution -> Step]
    /\ seen \in [Execution -> SeenRow]
    /\ outcome \in [Execution -> Outcome]
    /\ disturbed \subseteq Task

-----------------------------------------------------------------------------
(* The executions table. *)

Active(e)  == executions[e].state \in ActiveState
Expired(e) == Active(e) /\ executions[e].remaining < 0
Held(e)    == Active(e) /\ executions[e].remaining >= 0

ActiveOn(t) == {e \in Execution : Active(e) /\ executions[e].task = t}

\* lease.heartbeat: the row as a successful renewal leaves it.
Renewed(e) == [executions EXCEPT ![e].state = "RUNNING", ![e].remaining = LeaseSeconds]

\* lease.releaseLease: a no-op on a row that is no longer active.
Released(e, s) ==
    IF Active(e) THEN [executions EXCEPT ![e].state = s, ![e].remaining = 0] ELSE executions

\* Mutant of ReapExpiredLeases: the row is closed and the task forgotten.
ReapRowsOnly ==
    /\ executions' = [e \in Execution |->
          IF Expired(e) THEN [executions[e] EXCEPT !.state = "LEASE_EXPIRED"]
                        ELSE executions[e]]
    /\ UNCHANGED tasks

\* lease.reapExpiredLeases: one transaction over every expired row, which fails
\* the task of each row if it is RUNNING, without looking at its attempt.
ReapExpiredLeases ==
    /\ executions' = [e \in Execution |->
          IF Expired(e) THEN [executions[e] EXCEPT !.state = "LEASE_EXPIRED"]
                        ELSE executions[e]]
    /\ tasks' = [t \in Task |->
          IF tasks[t].state = "RUNNING" /\ \E e \in ActiveOn(t) : Expired(e)
          THEN [tasks[t] EXCEPT !.state = "FAILED"] ELSE tasks[t]]

\* The condition of updateTaskForExecution.
OwnsAttempt(e) ==
    LET t == seen[e].task IN
    /\ tasks[t].state = "RUNNING"
    /\ tasks[t].attempt = seen[e].attempt
    /\ Held(e)
    /\ executions[e].task = t
    /\ executions[e].attempt = seen[e].attempt

-----------------------------------------------------------------------------
(* The invocation. *)

Live(e)    == pc[e] # "idle"
NoCallLive == \A e \in Execution : ~Live(e)

Goto(e, s) == pc' = [pc EXCEPT ![e] = s]

\* tick: every tick begins with the reaper.
Tick(e, t) ==
    /\ NoCallLive
    /\ ~Active(e)
    /\ ReapExpiredLeases
    /\ seen' = [seen EXCEPT ![e].task = t]
    /\ outcome' = [outcome EXCEPT ![e] = "NONE"]
    /\ Goto(e, "ticked")
    /\ UNCHANGED disturbed

\* taskForStep and the dispatch of executeTask on the state it read.
TaskForStep(e) ==
    /\ pc[e] = "ticked"
    /\ LET stored == tasks[seen[e].task] IN
       /\ seen' = [seen EXCEPT ![e].attempt = stored.attempt,
                               ![e].maxAttempts = stored.maxAttempts,
                               ![e].regenerations = stored.regenerations]
       /\ Goto(e, CASE stored.state = "READY" -> "prepared"
                    [] stored.state = "FAILED" /\ stored.attempt < stored.maxAttempts -> "retrying"
                    [] stored.state = "FAILED" /\ stored.attempt >= stored.maxAttempts -> "exhausted"
                    [] OTHER -> "idle")
    /\ UNCHANGED <<tasks, executions, outcome, disturbed>>

\* The next automatic attempt, written over whatever the row holds by now.
RetryReady(e) ==
    /\ pc[e] = "retrying"
    /\ tasks' = [tasks EXCEPT ![seen[e].task].state = "READY",
                              ![seen[e].task].attempt = seen[e].attempt + 1,
                              ![seen[e].task].regenerations = 0]
    /\ Goto(e, "idle")
    /\ UNCHANGED <<executions, seen, outcome, disturbed>>

\* createApproval(TASK_RETRY_EXHAUSTED), one transaction bound to the attempt it
\* was asked for; a stale binding is rejected.
CreateRetryExhaustedApproval(e) ==
    /\ pc[e] = "exhausted"
    /\ LET t == seen[e].task
           bound == /\ tasks[t].state = "FAILED"
                    /\ tasks[t].attempt = seen[e].attempt
                    /\ tasks[t].maxAttempts = seen[e].maxAttempts
       IN tasks' = [tasks EXCEPT ![t].state = IF bound THEN "WAITING_HUMAN" ELSE @]
    /\ Goto(e, "idle")
    /\ UNCHANGED <<executions, seen, outcome, disturbed>>

\* Mutant of AcquireLease: the unique index is missing.
AcquireWithoutIndex(e) ==
    /\ pc[e] = "prepared"
    /\ executions' = [executions EXCEPT
          ![e] = [state |-> "LEASED", task |-> seen[e].task,
                  attempt |-> seen[e].attempt, remaining |-> LeaseSeconds]]
    /\ Goto(e, "leased")
    /\ UNCHANGED <<tasks, seen, outcome, disturbed>>

\* INSERT OR IGNORE under the partial unique index: LEASE_HELD ends the call.
AcquireLease(e) ==
    /\ pc[e] = "prepared"
    /\ \/ /\ ActiveOn(seen[e].task) = {}
          /\ executions' = [executions EXCEPT
                ![e] = [state |-> "LEASED", task |-> seen[e].task,
                        attempt |-> seen[e].attempt, remaining |-> LeaseSeconds]]
          /\ Goto(e, "leased")
       \/ /\ ActiveOn(seen[e].task) # {}
          /\ Goto(e, "idle")
          /\ UNCHANGED executions
    /\ UNCHANGED <<tasks, seen, outcome, disturbed>>

\* updateTask(RUNNING): not conditional on the lease just taken.
StartTask(e) ==
    /\ pc[e] = "leased"
    /\ tasks' = [tasks EXCEPT ![seen[e].task].state = "RUNNING"]
    /\ Goto(e, "started")
    /\ UNCHANGED <<executions, seen, outcome, disturbed>>

\* A heartbeat that must find the lease held, or the call is abandoned.
HeartbeatThen(e, next) ==
    \/ Held(e)  /\ executions' = Renewed(e) /\ Goto(e, next)
    \/ ~Held(e) /\ UNCHANGED executions /\ Goto(e, "abandon")

\* assertExecutionLease('DISPATCHING'), after which the agent process runs.
Dispatch(e) ==
    /\ pc[e] = "started"
    /\ HeartbeatThen(e, "agent")
    /\ UNCHANGED <<tasks, seen, outcome, disturbed>>

\* The TEST sandbox cannot be staged: a BLOCKED result without running the agent.
StagingFails(e) ==
    /\ pc[e] = "started"
    /\ outcome' = [outcome EXCEPT ![e] = "REPORTED_FAILURE"]
    /\ Goto(e, "result")
    /\ UNCHANGED <<tasks, executions, seen, disturbed>>

\* The heartbeat timer of runWithLeaseHeartbeat.
RenewHeartbeat(e) ==
    /\ pc[e] = "agent"
    /\ HeartbeatThen(e, "agent")
    /\ UNCHANGED <<tasks, seen, outcome, disturbed>>

\* The agent exits with an error, or its output cannot be accepted.
AgentFails(e) ==
    /\ pc[e] = "agent"
    /\ outcome' = [outcome EXCEPT ![e] = "ERROR"]
    /\ Goto(e, "result")
    /\ UNCHANGED <<tasks, executions, seen, disturbed>>

\* Mutant of RegenerateJson: the budget is compared with <=.
RegenerateOnceMore(e) ==
    /\ pc[e] = "agent"
    /\ seen[e].regenerations <= MaxJsonRegenerations
    /\ OwnsAttempt(e)
    /\ seen' = [seen EXCEPT ![e].regenerations = @ + 1]
    /\ tasks' = [tasks EXCEPT ![seen[e].task].regenerations = seen[e].regenerations + 1]
    /\ executions' = Renewed(e)
    /\ UNCHANGED <<pc, outcome, disturbed>>

\* Invalid JSON with repairs left: the lease is asserted, the counter recorded
\* through the compare-and-swap, and the same session asked again.
RegenerateJson(e) ==
    /\ pc[e] = "agent"
    /\ seen[e].regenerations < MaxJsonRegenerations
    /\ \/ /\ OwnsAttempt(e)
          /\ seen' = [seen EXCEPT ![e].regenerations = @ + 1]
          /\ tasks' = [tasks EXCEPT ![seen[e].task].regenerations = seen[e].regenerations + 1]
          /\ executions' = Renewed(e)
          /\ UNCHANGED pc
       \/ /\ ~OwnsAttempt(e)
          /\ Goto(e, "abandon")
          /\ executions' = IF Held(e) THEN Renewed(e) ELSE executions
          /\ UNCHANGED <<tasks, seen>>
    /\ UNCHANGED <<outcome, disturbed>>

\* A valid result, accepted only with the final heartbeat.
AgentResult(e) ==
    /\ pc[e] = "agent"
    /\ \E r \in {"ACCEPTED", "REPORTED_FAILURE"} : outcome' = [outcome EXCEPT ![e] = r]
    /\ HeartbeatThen(e, "result")
    /\ UNCHANGED <<tasks, seen, disturbed>>

\* The snapshot of the result throws: the catch branch commits a failure.
SnapshotFails(e) ==
    /\ pc[e] = "result"
    /\ outcome[e] # "ERROR"
    /\ outcome' = [outcome EXCEPT ![e] = "ERROR"]
    /\ UNCHANGED <<tasks, executions, pc, seen, disturbed>>

\* assertExecutionLease('TASK_RESULT_COMMIT') or ('TASK_FAILURE_COMMIT').
AssertExecutionLease(e) ==
    /\ pc[e] = "result"
    /\ HeartbeatThen(e, "asserted")
    /\ UNCHANGED <<tasks, seen, outcome, disturbed>>

\* Mutant of CommitResult: updateTask in place of updateTaskForExecution.
CommitUnconditionally(e) ==
    /\ pc[e] = "asserted"
    /\ tasks' = [tasks EXCEPT ![seen[e].task].state =
                    IF outcome[e] = "ACCEPTED" THEN "SUCCEEDED" ELSE "FAILED"]
    /\ Goto(e, "committed")
    /\ UNCHANGED <<executions, seen, outcome, disturbed>>

\* executionMutation: the compare-and-swap that decides the attempt.
CommitResult(e) ==
    /\ pc[e] = "asserted"
    /\ \/ /\ OwnsAttempt(e)
          /\ tasks' = [tasks EXCEPT ![seen[e].task].state =
                          IF outcome[e] = "ACCEPTED" THEN "SUCCEEDED" ELSE "FAILED"]
          /\ Goto(e, "committed")
       \/ /\ ~OwnsAttempt(e)
          /\ Goto(e, "abandon")
          /\ UNCHANGED tasks
    /\ UNCHANGED <<executions, seen, outcome, disturbed>>

\* releaseLease after the commit; the success branch abandons the call when the
\* row has been reaped meanwhile, the failure branch ignores it.
ReleaseLease(e) ==
    /\ pc[e] = "committed"
    /\ executions' = Released(e, IF outcome[e] = "ACCEPTED" THEN "SUCCEEDED" ELSE "FAILED")
    /\ Goto(e, IF Active(e) \/ outcome[e] = "ERROR" THEN "idle" ELSE "abandon")
    /\ UNCHANGED <<tasks, seen, outcome, disturbed>>

\* Mutant of AbandonReap: the call releases its row without reaping first.
AbandonWithoutReap(e) ==
    /\ pc[e] = "abandon"
    /\ Goto(e, "abandoning")
    /\ UNCHANGED <<tasks, executions, seen, outcome, disturbed>>

\* abandonExecution: reap, then release as FAILED; the task is not written.
AbandonReap(e) ==
    /\ pc[e] = "abandon"
    /\ ReapExpiredLeases
    /\ Goto(e, "abandoning")
    /\ UNCHANGED <<seen, outcome, disturbed>>

AbandonRelease(e) ==
    /\ pc[e] = "abandoning"
    /\ executions' = Released(e, "FAILED")
    /\ Goto(e, "idle")
    /\ UNCHANGED <<tasks, seen, outcome, disturbed>>

\* The orchestrator process dies; its row stays as it is.
Crash(e) ==
    /\ Live(e)
    /\ Goto(e, "idle")
    /\ UNCHANGED <<tasks, executions, seen, outcome, disturbed>>

-----------------------------------------------------------------------------
(* Faults.  The first two end a call whose lease is still held; the third needs *)
(* a second kernel client, let in by a breach of the writer lock.               *)

\* The heartbeat timer's statement throws: reported as EXECUTION_LEASE_LOST.
HeartbeatError(e) ==
    /\ pc[e] = "agent"
    /\ Goto(e, "abandon")
    /\ disturbed' = disturbed \cup {seen[e].task}
    /\ UNCHANGED <<tasks, executions, seen, outcome>>

\* A shutdown found between two JSON repairs: also reported as a lost lease.
AbortRegeneration(e) ==
    /\ pc[e] = "agent"
    /\ MaxJsonRegenerations > 0
    /\ Goto(e, "abandon")
    /\ disturbed' = disturbed \cup {seen[e].task}
    /\ UNCHANGED <<tasks, executions, seen, outcome>>

\* reapExpiredLeases called by a concurrent client.
ConcurrentReap ==
    /\ \E e \in Execution : Expired(e)
    /\ ReapExpiredLeases
    /\ disturbed' = disturbed \cup {t \in Task : \E e \in ActiveOn(t) : Expired(e)}
    /\ UNCHANGED <<pc, seen, outcome>>

-----------------------------------------------------------------------------
(* Other clients of the kernel. *)

\* resolveRetryExhaustedApproval with RETRY_SAME_AGENT or REWORK.
GrantRetryBatch(t) ==
    /\ NoCallLive
    /\ tasks[t].state = "WAITING_HUMAN"
    /\ tasks[t].attempt < AttemptBound
    /\ tasks' = [tasks EXCEPT ![t] = [state |-> "READY", attempt |-> @.attempt + 1,
                                      maxAttempts |-> @.maxAttempts + RetryBatch,
                                      regenerations |-> 0]]
    /\ UNCHANGED <<executions, pc, seen, outcome, disturbed>>

\* The same with ABORT.
DeclineRetryBatch(t) ==
    /\ NoCallLive
    /\ tasks[t].state = "WAITING_HUMAN"
    /\ tasks' = [tasks EXCEPT ![t].state = "CANCELLED"]
    /\ UNCHANGED <<executions, pc, seen, outcome, disturbed>>

\* resolveDecision on an approval of a finished task with REWORK or REVISE, or on
\* the agent's own question: a new attempt, the budget left alone.
ReworkTask(t) ==
    /\ NoCallLive
    /\ tasks[t].state = "SUCCEEDED"
    /\ tasks[t].attempt < AttemptBound
    /\ tasks' = [tasks EXCEPT ![t].state = "READY", ![t].attempt = @ + 1, ![t].regenerations = 0]
    /\ UNCHANGED <<executions, pc, seen, outcome, disturbed>>

\* One tick of the clock, for every deadline at once.
ClockTick ==
    /\ \E e \in Execution : Held(e)
    /\ executions' = [e \in Execution |->
          IF Held(e) THEN [executions[e] EXCEPT !.remaining = @ - 1] ELSE executions[e]]
    /\ UNCHANGED <<tasks, pc, seen, outcome, disturbed>>

-----------------------------------------------------------------------------
Init ==
    /\ tasks = [t \in Task |-> [state |-> "READY", attempt |-> 1,
                                maxAttempts |-> MaxAttempts, regenerations |-> 0]]
    /\ pc = [e \in Execution |-> "idle"]
    /\ outcome = [e \in Execution |-> "NONE"]
    /\ disturbed = {}
    /\ \E t \in Task :
       /\ executions = [e \in Execution |->
             [state |-> "NONE", task |-> t, attempt |-> 1, remaining |-> 0]]
       /\ seen = [e \in Execution |->
             [task |-> t, attempt |-> 1, maxAttempts |-> MaxAttempts, regenerations |-> 0]]

CallStep(e) ==
    \/ TaskForStep(e) \/ RetryReady(e) \/ CreateRetryExhaustedApproval(e)
    \/ AcquireLease(e) \/ StartTask(e) \/ Dispatch(e)
    \/ AgentFails(e) \/ AgentResult(e) \/ AssertExecutionLease(e)
    \/ CommitResult(e) \/ ReleaseLease(e) \/ AbandonReap(e) \/ AbandonRelease(e)

Environment(e) ==
    \/ RenewHeartbeat(e) \/ RegenerateJson(e) \/ StagingFails(e) \/ SnapshotFails(e)
    \/ HeartbeatError(e) \/ AbortRegeneration(e) \/ Crash(e)

Human(t) == GrantRetryBatch(t) \/ DeclineRetryBatch(t) \/ ReworkTask(t)

Next ==
    \/ \E e \in Execution, t \in Task : Tick(e, t)
    \/ \E e \in Execution : CallStep(e) \/ Environment(e)
    \/ \E t \in Task : Human(t)
    \/ ConcurrentReap
    \/ ClockTick

Spec == Init /\ [][Next]_vars

\* The service loop keeps ticking, a call that does not crash proceeds (the agent
\* runner has a timeout), and time passes.
FairSpec ==
    /\ Spec
    /\ \A e \in Execution : WF_vars(CallStep(e))
    /\ WF_vars(\E e \in Execution, t \in Task : Tick(e, t))
    /\ WF_vars(ClockTick)

-----------------------------------------------------------------------------
(* Correctness. *)

Recoverable(t) ==
    tasks[t].state = "RUNNING" =>
        \E e \in ActiveOn(t) : executions[e].attempt = tasks[t].attempt

\* A RUNNING task that no fault has hit is never orphaned: some active row of the
\* executions table carries its attempt, so that the reaper, or the call that
\* holds the row, will decide it.  abandonExecution depends on this: it reaps and
\* releases the row but never writes the task.
RunningIsRecoverable == \A t \in Task \ disturbed : Recoverable(t)

\* The same with the faults counted in, as the documents promise it.
NeverOrphaned == \A t \in Task : Recoverable(t)

\* The reaper fails a RUNNING task without comparing attempts; this is why it can:
\* no row left behind by an older attempt is active while a newer one runs.
ReaperHitsItsOwnAttempt ==
    \A e \in Execution :
        (Active(e) /\ tasks[executions[e].task].state = "RUNNING")
            => executions[e].attempt = tasks[executions[e].task].attempt

Lifecycle == INSTANCE TaskLifecycle WITH
    InitialAttempts <- MaxAttempts,
    tasks <- [t \in Task |-> [state |-> tasks[t].state, attempt |-> tasks[t].attempt,
                               maxAttempts |-> tasks[t].maxAttempts]]

\* Whatever the interleaving of calls, reapers, crashes, faults and expiring
\* leases, the tasks table moves as the life cycle allows: an attempt is started
\* once and decided at most once, and its successor is the next number.
ImplementsLifecycle == Lifecycle!Spec

\* Progress: no crash, lost lease or failed repair leaves a task RUNNING for ever.
\* There is always a slot for the next call as long as Execution has one more element
\* than Task, since a task has one active row at most.
RunningIsDecided ==
    \A t \in Task : (tasks[t].state = "RUNNING" /\ t \notin disturbed)
                       ~> (tasks[t].state # "RUNNING" \/ t \in disturbed)

\* An approved retry batch gives the task RetryBatch attempts before it is
\* exhausted again.
GrantGivesFullBatch ==
    [][\A t \in Task : GrantRetryBatch(t) =>
          tasks'[t].maxAttempts - tasks'[t].attempt + 1 >= RetryBatch]_vars
=============================================================================
