----------------------- MODULE TaskExecution_proofs -----------------------
(***************************************************************************)
(* Theorems about TaskExecution for any sets of tasks and calls and any    *)
(* values of the other constants: type correctness, the two safety         *)
(* invariants of the run, by way of the inductive invariant IInv, and the  *)
(* refinement of the task life cycle.                                      *)
(***************************************************************************)
EXTENDS TaskExecution, TLAPS

Before == {"ticked", "prepared", "retrying", "exhausted"}
During == {"leased", "started", "agent", "result", "asserted", "committed"}
Ending == {"abandon", "abandoning"}

OneCall == \A e, f \in Execution : Live(e) /\ Live(f) => e = f

OneActiveRow ==
    \A e, f \in Execution :
        Active(e) /\ Active(f) /\ executions[e].task = executions[f].task => e = f

SeenAttempt(e) == tasks[seen[e].task].attempt = seen[e].attempt

SeenFailed(e) ==
    /\ tasks[seen[e].task].state = "FAILED"
    /\ SeenAttempt(e)
    /\ tasks[seen[e].task].maxAttempts = seen[e].maxAttempts

OwnRow(e) ==
    /\ executions[e].task = seen[e].task
    /\ executions[e].attempt = seen[e].attempt

\* What a call may rely on at each of its steps.
BeforeLease(e) ==
    /\ pc[e] \in Before => ~Active(e)
    /\ pc[e] = "prepared" => tasks[seen[e].task].state = "READY" /\ SeenAttempt(e)
    /\ pc[e] = "retrying" => SeenFailed(e) /\ seen[e].attempt < seen[e].maxAttempts
    /\ pc[e] = "exhausted" => SeenFailed(e) /\ seen[e].attempt >= seen[e].maxAttempts

WithLease(e) ==
    /\ pc[e] \in During \cup Ending => OwnRow(e)
    /\ pc[e] \in During => SeenAttempt(e)
    /\ pc[e] = "leased" =>
          /\ tasks[seen[e].task].state = "READY"
          /\ ActiveOn(seen[e].task) \subseteq {e}
          /\ Active(e) \/ seen[e].task \in disturbed
    /\ pc[e] = "committed" => tasks[seen[e].task].state # "RUNNING"

\* A call that gives up while it still holds its row has nothing left to decide.
GivingUp(e) ==
    /\ pc[e] = "abandon" /\ Held(e) =>
          tasks[seen[e].task].state # "RUNNING" \/ seen[e].task \in disturbed
    /\ pc[e] = "abandoning" /\ Active(e) =>
          tasks[seen[e].task].state # "RUNNING" \/ seen[e].task \in disturbed

CallOK(e) == BeforeLease(e) /\ WithLease(e) /\ GivingUp(e)

IInv ==
    /\ TypeOK
    /\ OneCall
    /\ OneActiveRow
    /\ \A e \in Execution : CallOK(e)
    /\ RunningIsRecoverable
    /\ ReaperHitsItsOwnAttempt

-----------------------------------------------------------------------------
(* Type correctness. *)

\* The reaper keeps both tables well formed.
LEMMA ReapTypeOK ==
    ASSUME TypeOK, ReapExpiredLeases
    PROVE  tasks' \in [Task -> TaskRow] /\ executions' \in [Execution -> ExecutionRow]
<1>1. ASSUME NEW t \in Task PROVE [tasks[t] EXCEPT !.state = "FAILED"] \in TaskRow
  BY DEF TypeOK, TaskRow, TaskState
<1>2. ASSUME NEW e \in Execution
      PROVE  [executions[e] EXCEPT !.state = "LEASE_EXPIRED"] \in ExecutionRow
  BY DEF TypeOK, ExecutionRow, FinalState
<1>3. tasks' \in [Task -> TaskRow]
  BY <1>1 DEF ReapExpiredLeases, TypeOK
<1>4. executions' \in [Execution -> ExecutionRow]
  BY <1>2 DEF ReapExpiredLeases, TypeOK
<1> QED
  BY <1>3, <1>4

\* Every table starts well formed.
LEMMA InitTypeOK == Init => TypeOK
BY ExecutionAssumption
   DEF Init, TypeOK, TaskRow, ExecutionRow, SeenRow, TaskState, FinalState, Remaining,
       Regenerations, Step, Outcome

\* So do the renewal and the release of a lease.
LEMMA RenewedType ==
    ASSUME TypeOK, NEW e \in Execution
    PROVE  Renewed(e) \in [Execution -> ExecutionRow]
<1>1. LeaseSeconds \in Remaining
  BY ExecutionAssumption DEF Remaining
<1> QED
  BY <1>1 DEF TypeOK, Renewed, ExecutionRow, ActiveState

\* A release closes the row with a final state, or leaves it alone.
LEMMA ReleasedType ==
    ASSUME TypeOK, NEW e \in Execution, NEW s \in FinalState
    PROVE  Released(e, s) \in [Execution -> ExecutionRow]
<1>1. 0 \in Remaining
  BY ExecutionAssumption DEF Remaining
<1>2. [executions EXCEPT ![e].state = s, ![e].remaining = 0] \in [Execution -> ExecutionRow]
  BY <1>1 DEF TypeOK, ExecutionRow
<1> QED
  BY <1>2 DEF TypeOK, Released

\* A heartbeat keeps the executions table and the program counters well formed.
LEMMA HeartbeatType ==
    ASSUME TypeOK, NEW e \in Execution, NEW s \in Step, HeartbeatThen(e, s)
    PROVE  pc' \in [Execution -> Step] /\ executions' \in [Execution -> ExecutionRow]
BY RenewedType DEF TypeOK, HeartbeatThen, Goto, Step

\* Every step keeps every table well formed.
LEMMA NextTypeOK == TypeOK /\ [Next]_vars => TypeOK'
<1> SUFFICES ASSUME TypeOK, [Next]_vars PROVE TypeOK'
  OBVIOUS
<1> USE ExecutionAssumption
<1>1. ASSUME NEW e \in Execution, NEW t \in Task, Tick(e, t) PROVE TypeOK'
  <2>1. seen' \in [Execution -> SeenRow]
    BY <1>1 DEF Tick, TypeOK, SeenRow
  <2> QED
    BY <1>1, <2>1, ReapTypeOK DEF TypeOK, Tick, Goto, Step, Outcome
<1>2. ASSUME NEW e \in Execution, CallStep(e) PROVE TypeOK'
  <2>1. CASE TaskForStep(e)
    <3>1. tasks[seen[e].task] \in TaskRow
      BY DEF TypeOK, SeenRow
    <3> DEFINE stored == tasks[seen[e].task]
    <3>2. /\ stored.attempt \in Nat \ {0}
          /\ stored.maxAttempts \in Nat \ {0}
          /\ stored.regenerations \in Regenerations
      BY <3>1 DEF TaskRow
    <3>3. seen' = [seen EXCEPT ![e].attempt = stored.attempt,
                               ![e].maxAttempts = stored.maxAttempts,
                               ![e].regenerations = stored.regenerations]
      BY <2>1 DEF TaskForStep
    <3> HIDE DEF stored
    <3>4. seen' \in [Execution -> SeenRow]
      BY <3>2, <3>3, ZenonT(30) DEF TypeOK, SeenRow
    <3>5. pc' \in [Execution -> Step]
      BY <2>1 DEF TaskForStep, TypeOK, Goto, Step
    <3> QED
      BY <2>1, <3>4, <3>5 DEF TaskForStep, TypeOK
  <2>2. CASE RetryReady(e)
    <3>1. tasks' \in [Task -> TaskRow]
      BY <2>2 DEF RetryReady, TypeOK, SeenRow, TaskRow, TaskState, Regenerations
    <3> QED
      BY <2>2, <3>1 DEF TypeOK, RetryReady, Goto, Step
  <2>3. CASE CreateRetryExhaustedApproval(e)
    <3>1. ASSUME NEW t \in Task
          PROVE  [tasks EXCEPT ![t].state = "WAITING_HUMAN"] \in [Task -> TaskRow]
      BY DEF TypeOK, TaskRow, TaskState
    <3>2. ASSUME NEW t \in Task
          PROVE  [tasks EXCEPT ![t].state = @] \in [Task -> TaskRow]
      BY DEF TypeOK, TaskRow
    <3>3. seen[e].task \in Task
      BY DEF TypeOK, SeenRow
    <3>4. tasks' \in [Task -> TaskRow]
      BY <2>3, <3>1, <3>2, <3>3 DEF CreateRetryExhaustedApproval
    <3> QED
      BY <2>3, <3>4 DEF TypeOK, CreateRetryExhaustedApproval, Goto, Step
  <2>4. CASE AcquireLease(e)
    <3>1. [state |-> "LEASED", task |-> seen[e].task, attempt |-> seen[e].attempt,
           remaining |-> LeaseSeconds] \in ExecutionRow
      BY DEF TypeOK, SeenRow, ExecutionRow, ActiveState, Remaining
    <3>2. executions' \in [Execution -> ExecutionRow]
      BY <2>4, <3>1 DEF TypeOK, AcquireLease
    <3> QED
      BY <2>4, <3>2 DEF TypeOK, AcquireLease, Goto, Step
  <2>5. CASE StartTask(e)
    <3>1. tasks' \in [Task -> TaskRow]
      BY <2>5 DEF StartTask, TypeOK, SeenRow, TaskRow, TaskState
    <3> QED
      BY <2>5, <3>1 DEF TypeOK, StartTask, Goto, Step
  <2>6. CASE Dispatch(e)
    BY <2>6, HeartbeatType DEF TypeOK, Dispatch, Step
  <2>7. CASE AgentFails(e)
    BY <2>7 DEF TypeOK, AgentFails, Goto, Step, Outcome
  <2>8. CASE AgentResult(e)
    BY <2>8, HeartbeatType DEF TypeOK, AgentResult, Step, Outcome
  <2>9. CASE AssertExecutionLease(e)
    BY <2>9, HeartbeatType DEF TypeOK, AssertExecutionLease, Step
  <2>10. CASE CommitResult(e)
    <3>1. ASSUME NEW s \in TaskState
          PROVE  [tasks EXCEPT ![seen[e].task].state = s] \in [Task -> TaskRow]
      BY DEF TypeOK, SeenRow, TaskRow
    <3>2. (IF outcome[e] = "ACCEPTED" THEN "SUCCEEDED" ELSE "FAILED") \in TaskState
      BY DEF TaskState
    <3>3. tasks' \in [Task -> TaskRow]
      BY <2>10, <3>1, <3>2 DEF CommitResult, TypeOK
    <3> QED
      BY <2>10, <3>3 DEF TypeOK, CommitResult, Goto, Step
  <2>11. CASE ReleaseLease(e)
    <3>1. (IF outcome[e] = "ACCEPTED" THEN "SUCCEEDED" ELSE "FAILED") \in FinalState
      BY DEF FinalState
    <3>2. executions' \in [Execution -> ExecutionRow]
      BY <2>11, <3>1, ReleasedType DEF ReleaseLease
    <3> QED
      BY <2>11, <3>2 DEF TypeOK, ReleaseLease, Goto, Step
  <2>12. CASE AbandonReap(e)
    BY <2>12, ReapTypeOK DEF TypeOK, AbandonReap, Goto, Step
  <2>13. CASE AbandonRelease(e)
    <3>1. executions' \in [Execution -> ExecutionRow]
      BY <2>13, ReleasedType DEF AbandonRelease, FinalState
    <3> QED
      BY <2>13, <3>1 DEF TypeOK, AbandonRelease, Goto, Step
  <2> QED
    BY <1>2, <2>1, <2>2, <2>3, <2>4, <2>5, <2>6, <2>7, <2>8, <2>9, <2>10, <2>11,
       <2>12, <2>13 DEF CallStep
<1>3. ASSUME NEW e \in Execution, Environment(e) PROVE TypeOK'
  <2>1. CASE RenewHeartbeat(e)
    BY <2>1, HeartbeatType DEF TypeOK, RenewHeartbeat, Step
  <2>2. CASE RegenerateJson(e)
    <3>1. seen[e].regenerations + 1 \in Regenerations
      BY <2>2 DEF RegenerateJson, TypeOK, SeenRow, Regenerations
    <3>2. [tasks EXCEPT ![seen[e].task].regenerations = seen[e].regenerations + 1]
            \in [Task -> TaskRow]
      BY <3>1 DEF TypeOK, SeenRow, TaskRow
    <3>3. [seen EXCEPT ![e].regenerations = @ + 1] \in [Execution -> SeenRow]
      BY <3>1 DEF TypeOK, SeenRow
    <3>4. tasks' \in [Task -> TaskRow] /\ seen' \in [Execution -> SeenRow]
      BY <2>2, <3>2, <3>3 DEF RegenerateJson, TypeOK
    <3>5. executions' \in [Execution -> ExecutionRow]
      BY <2>2, RenewedType DEF RegenerateJson, TypeOK
    <3>6. pc' \in [Execution -> Step]
      BY <2>2 DEF RegenerateJson, TypeOK, Goto, Step
    <3> QED
      BY <2>2, <3>4, <3>5, <3>6 DEF TypeOK, RegenerateJson
  <2>3. CASE StagingFails(e) \/ SnapshotFails(e)
    BY <2>3 DEF TypeOK, StagingFails, SnapshotFails, Goto, Step, Outcome
  <2>4. CASE HeartbeatError(e) \/ AbortRegeneration(e) \/ Crash(e)
    <3>1. seen[e].task \in Task
      BY DEF TypeOK, SeenRow
    <3> QED
      BY <2>4, <3>1 DEF TypeOK, HeartbeatError, AbortRegeneration, Crash, Goto, Step
  <2> QED
    BY <1>3, <2>1, <2>2, <2>3, <2>4 DEF Environment
<1>4. ASSUME NEW t \in Task, Human(t) PROVE TypeOK'
  <2>1. tasks[t] \in TaskRow /\ 0 \in Regenerations /\ tasks[t].attempt + 1 \in Nat \ {0}
    BY DEF TypeOK, TaskRow, Regenerations
  <2>2. CASE GrantRetryBatch(t)
    <3>1. tasks[t].maxAttempts + RetryBatch \in Nat \ {0}
      BY <2>1 DEF TaskRow
    <3>2. tasks' \in [Task -> TaskRow]
      BY <2>1, <2>2, <3>1 DEF GrantRetryBatch, TypeOK, TaskRow, TaskState
    <3> QED
      BY <2>2, <3>2 DEF GrantRetryBatch, TypeOK
  <2>3. CASE DeclineRetryBatch(t)
    <3>1. tasks' \in [Task -> TaskRow]
      BY <2>3 DEF DeclineRetryBatch, TypeOK, TaskRow, TaskState
    <3> QED
      BY <2>3, <3>1 DEF DeclineRetryBatch, TypeOK
  <2>4. CASE ReworkTask(t)
    <3>1. tasks' \in [Task -> TaskRow]
      BY <2>1, <2>4 DEF ReworkTask, TypeOK, TaskRow, TaskState
    <3> QED
      BY <2>4, <3>1 DEF ReworkTask, TypeOK
  <2> QED
    BY <1>4, <2>2, <2>3, <2>4 DEF Human
<1>5. CASE ConcurrentReap
  <2>1. disturbed' \subseteq Task
    BY <1>5 DEF ConcurrentReap, TypeOK
  <2> QED
    BY <1>5, <2>1, ReapTypeOK DEF TypeOK, ConcurrentReap
<1>6. CASE ClockTick
  <2>1. ASSUME NEW e \in Execution, Held(e)
        PROVE  [executions[e] EXCEPT !.remaining = @ - 1] \in ExecutionRow
    BY <2>1 DEF TypeOK, ExecutionRow, Held, Remaining
  <2>2. executions' \in [Execution -> ExecutionRow]
    BY <1>6, <2>1 DEF ClockTick, TypeOK
  <2> QED
    BY <1>6, <2>2 DEF TypeOK, ClockTick
<1>7. CASE UNCHANGED vars
  BY <1>7 DEF TypeOK, vars
<1> QED
  BY <1>1, <1>2, <1>3, <1>4, <1>5, <1>6, <1>7 DEF Next

\* Every table keeps its shape: states, counters and deadlines stay in their
\* ranges, the repair counter never passes MAX_JSON_REGENERATIONS.
THEOREM TypeCorrect == Spec => []TypeOK
BY InitTypeOK, NextTypeOK, PTL DEF Spec

-----------------------------------------------------------------------------
(* The inductive invariant. *)

\* A step that opens no row, starts no task and closes no row of a running one.
RowsShrink ==
    \A f \in Execution :
        /\ executions'[f].task = executions[f].task
        /\ executions'[f].attempt = executions[f].attempt
        /\ Active(f)' => Active(f)

NoneStarted ==
    \A t \in Task :
        tasks'[t].state = "RUNNING" =>
            tasks[t].state = "RUNNING" /\ tasks'[t].attempt = tasks[t].attempt

RunningKeepsRows ==
    \A t \in Task, f \in Execution :
        (t \notin disturbed' /\ tasks'[t].state = "RUNNING"
            /\ Active(f) /\ executions[f].task = t) => Active(f)'

Steady == RowsShrink /\ NoneStarted /\ RunningKeepsRows /\ disturbed \subseteq disturbed'

\* Such a step keeps what IInv says of the two tables.
LEMMA SteadyTables ==
    ASSUME IInv, TypeOK', Steady
    PROVE  OneActiveRow' /\ RunningIsRecoverable' /\ ReaperHitsItsOwnAttempt'
<1>1. OneActiveRow'
  BY DEF IInv, OneActiveRow, Steady, RowsShrink
<1>2. RunningIsRecoverable'
  <2> SUFFICES ASSUME NEW t \in Task, t \notin disturbed', tasks'[t].state = "RUNNING"
               PROVE  \E f \in Execution : /\ Active(f)'
                                           /\ executions'[f].task = t
                                           /\ executions'[f].attempt = tasks'[t].attempt
    BY DEF RunningIsRecoverable, Recoverable, ActiveOn
  <2>1. t \notin disturbed /\ tasks[t].state = "RUNNING" /\ tasks'[t].attempt = tasks[t].attempt
    BY DEF Steady, NoneStarted
  <2>2. PICK f \in Execution : /\ Active(f) /\ executions[f].task = t
                               /\ executions[f].attempt = tasks[t].attempt
    BY <2>1 DEF IInv, RunningIsRecoverable, Recoverable, ActiveOn
  <2>3. Active(f)'
    BY <2>2 DEF Steady, RunningKeepsRows
  <2> QED
    BY <2>1, <2>2, <2>3 DEF Steady, RowsShrink
<1>3. ReaperHitsItsOwnAttempt'
  <2> SUFFICES ASSUME NEW f \in Execution, Active(f)',
                      tasks'[executions'[f].task].state = "RUNNING"
               PROVE  executions'[f].attempt = tasks'[executions'[f].task].attempt
    BY DEF ReaperHitsItsOwnAttempt
  <2>1. Active(f) /\ executions[f].task \in Task
    BY DEF Steady, RowsShrink, IInv, TypeOK, ExecutionRow
  <2> QED
    BY <2>1 DEF Steady, RowsShrink, NoneStarted, IInv, ReaperHitsItsOwnAttempt
<1> QED
  BY <1>1, <1>2, <1>3

\* A step of the only call, or of one that begins when there is none, has to
\* keep only what IInv says of that call.
LEMMA CallsOK ==
    ASSUME IInv, NEW e \in Execution, NEW s \in Step, Goto(e, s),
           Live(e) \/ NoCallLive, CallOK(e)'
    PROVE  OneCall' /\ \A f \in Execution : CallOK(f)'
<1>1. \A f \in Execution : f # e => pc[f] = "idle" /\ pc'[f] = "idle"
  BY DEF IInv, TypeOK, OneCall, Live, NoCallLive, Goto
<1>2. OneCall'
  BY <1>1 DEF OneCall, Live
<1>3. ASSUME NEW f \in Execution, f # e PROVE CallOK(f)'
  BY <1>1, <1>3 DEF CallOK, BeforeLease, WithLease, GivingUp, Before, During, Ending
<1> QED
  BY <1>2, <1>3

\* A call that is over needs nothing.
LEMMA IdleOK ==
    ASSUME NEW e \in Execution, pc'[e] = "idle"
    PROVE  CallOK(e)'
BY DEF CallOK, BeforeLease, WithLease, GivingUp, Before, During, Ending

\* The reaper closes only expired rows, and only together with their tasks.
LEMMA ReapSteady ==
    ASSUME IInv, ReapExpiredLeases, disturbed \subseteq disturbed'
    PROVE  /\ Steady
           /\ \A f \in Execution : Active(f)' <=> Held(f)
           /\ \A t \in Task : /\ tasks'[t].attempt = tasks[t].attempt
                              /\ tasks'[t].maxAttempts = tasks[t].maxAttempts
                              /\ tasks[t].state # "RUNNING" => tasks'[t] = tasks[t]
<1>1. ASSUME NEW f \in Execution
      PROVE  /\ executions'[f].task = executions[f].task
             /\ executions'[f].attempt = executions[f].attempt
             /\ Active(f)' <=> Held(f)
  <2>1. executions[f] \in ExecutionRow
    BY DEF IInv, TypeOK
  <2>2. CASE Expired(f)
    BY <2>1, <2>2 DEF ReapExpiredLeases, Active, ActiveState, Held, Expired, ExecutionRow, Remaining
  <2>3. CASE ~Expired(f)
    <3>1. executions'[f] = executions[f]
      BY <2>3 DEF ReapExpiredLeases
    <3> QED
      BY <2>1, <2>3, <3>1, ExecutionAssumption DEF Active, Held, Expired, ExecutionRow, Remaining
  <2> QED
    BY <2>2, <2>3
<1>2. ASSUME NEW t \in Task
      PROVE  /\ tasks'[t].attempt = tasks[t].attempt
             /\ tasks'[t].maxAttempts = tasks[t].maxAttempts
             /\ tasks[t].state # "RUNNING" => tasks'[t] = tasks[t]
             /\ tasks'[t].state = "RUNNING" => tasks[t].state = "RUNNING"
             /\ tasks'[t].state = "RUNNING" => ~ \E f \in ActiveOn(t) : Expired(f)
  <2>1. tasks[t] \in TaskRow
    BY DEF IInv, TypeOK
  <2> QED
    BY <2>1 DEF ReapExpiredLeases, TaskRow
<1>3. ASSUME NEW t \in Task, NEW f \in Execution,
             tasks'[t].state = "RUNNING", Active(f), executions[f].task = t
      PROVE  Active(f)'
  <2>1. ~Expired(f) /\ executions[f] \in ExecutionRow
    BY <1>2, <1>3 DEF ActiveOn, IInv, TypeOK
  <2>2. Held(f)
    BY <1>3, <2>1, ExecutionAssumption DEF Held, Expired, ExecutionRow, Remaining
  <2> QED
    BY <1>1, <2>2
<1> QED
  BY <1>1, <1>2, <1>3 DEF Steady, RowsShrink, NoneStarted, RunningKeepsRows, Held

\* Neither a renewal nor the clock opens or closes a row.
LEMMA SameRowsSteady ==
    ASSUME IInv, TypeOK', NoneStarted, disturbed \subseteq disturbed',
           \A f \in Execution : /\ executions'[f].state \in ActiveState <=> Active(f)
                                /\ executions'[f].task = executions[f].task
                                /\ executions'[f].attempt = executions[f].attempt
    PROVE  Steady
BY DEF Steady, RowsShrink, RunningKeepsRows, Active

\* A renewal changes the deadline and the phase of one row, never its owner.
LEMMA RenewedRows ==
    ASSUME IInv, NEW e \in Execution, Held(e), executions' = Renewed(e)
    PROVE  \A f \in Execution : /\ executions'[f].state \in ActiveState <=> Active(f)
                                /\ executions'[f].task = executions[f].task
                                /\ executions'[f].attempt = executions[f].attempt
                                /\ f # e => executions'[f] = executions[f]
<1> SUFFICES ASSUME NEW f \in Execution
             PROVE  /\ executions'[f].state \in ActiveState <=> Active(f)
                    /\ executions'[f].task = executions[f].task
                    /\ executions'[f].attempt = executions[f].attempt
                    /\ f # e => executions'[f] = executions[f]
  OBVIOUS
<1>1. executions[f] \in ExecutionRow /\ executions \in [Execution -> ExecutionRow]
  BY DEF IInv, TypeOK
<1>2. CASE f = e
  BY <1>1, <1>2 DEF Renewed, ExecutionRow, Held, Active, ActiveState
<1>3. CASE f # e
  BY <1>1, <1>3 DEF Renewed, Active
<1> QED
  BY <1>2, <1>3

\* Closing a row is harmless unless an undisturbed task is running on it.
LEMMA ReleasedSteady ==
    ASSUME IInv, NEW e \in Execution, NEW s \in FinalState, executions' = Released(e, s),
           UNCHANGED <<tasks, disturbed>>, OwnRow(e),
           Active(e) => tasks[seen[e].task].state # "RUNNING" \/ seen[e].task \in disturbed
    PROVE  Steady
<1>1. ASSUME NEW f \in Execution
      PROVE  /\ executions'[f].task = executions[f].task
             /\ executions'[f].attempt = executions[f].attempt
             /\ f # e => executions'[f] = executions[f]
             /\ Active(f)' => Active(f)
             /\ ~Active(e) => executions'[f] = executions[f]
  <2>1. executions[f] \in ExecutionRow /\ executions \in [Execution -> ExecutionRow]
    BY DEF IInv, TypeOK
  <2>2. CASE ~Active(e)
    BY <2>2 DEF Released, Active
  <2>3. CASE Active(e) /\ f = e
    BY <2>1, <2>3 DEF Released, ExecutionRow, Active, ActiveState, FinalState
  <2>4. CASE Active(e) /\ f # e
    BY <2>1, <2>4 DEF Released, Active
  <2> QED
    BY <2>2, <2>3, <2>4
<1>2. RunningKeepsRows
  BY <1>1 DEF RunningKeepsRows, Active, OwnRow
<1> QED
  BY <1>1, <1>2 DEF Steady, RowsShrink, NoneStarted

\* The call goes on after a heartbeat, or gives up without its row.
LEMMA HeartbeatOK ==
    ASSUME IInv, TypeOK', NEW e \in Execution, NEW s \in {"agent", "result", "asserted"},
           pc[e] \in {"started", "agent", "result"}, HeartbeatThen(e, s),
           UNCHANGED <<tasks, seen, disturbed>>
    PROVE  Steady /\ OneCall' /\ \A f \in Execution : CallOK(f)'
<1>1. /\ \A f \in Execution : /\ executions'[f].state \in ActiveState <=> Active(f)
                              /\ executions'[f].task = executions[f].task
                              /\ executions'[f].attempt = executions[f].attempt
      /\ Held(e) \/ executions' = executions
  BY RenewedRows DEF HeartbeatThen, Active
<1>2. Steady
  BY <1>1, SameRowsSteady DEF NoneStarted
<1>3. OwnRow(e) /\ SeenAttempt(e) /\ Live(e)
  BY DEF IInv, CallOK, WithLease, During, Live
<1>4. OwnRow(e)' /\ SeenAttempt(e)'
  BY <1>1, <1>3 DEF OwnRow, SeenAttempt
<1>5. CASE Held(e) /\ Goto(e, s)
  <2>1. pc'[e] = s
    BY <1>5 DEF Goto, IInv, TypeOK
  <2>2. CallOK(e)'
    BY <1>4, <2>1 DEF CallOK, BeforeLease, WithLease, GivingUp, Before, During, Ending
  <2> QED
    BY <1>2, <1>3, <1>5, <2>2, CallsOK DEF Step
<1>6. CASE ~Held(e) /\ UNCHANGED executions /\ Goto(e, "abandon")
  <2>1. pc'[e] = "abandon" /\ ~Held(e)'
    BY <1>6 DEF Goto, IInv, TypeOK, Held, Active
  <2>2. CallOK(e)'
    BY <1>4, <2>1 DEF CallOK, BeforeLease, WithLease, GivingUp, Before, During, Ending
  <2> QED
    BY <1>2, <1>3, <1>6, <2>2, CallsOK DEF Step
<1> QED
  BY <1>5, <1>6 DEF HeartbeatThen

\* A step that leaves the executions table alone and starts nothing is steady.
LEMMA TasksOnlySteady ==
    ASSUME IInv, TypeOK', NoneStarted, UNCHANGED executions, disturbed \subseteq disturbed'
    PROVE  Steady
BY SameRowsSteady DEF Active

\* Goto moves one call and no other.
LEMMA GotoPc ==
    ASSUME IInv, NEW e \in Execution, NEW s, Goto(e, s)
    PROVE  pc'[e] = s
BY DEF IInv, TypeOK, Goto

\* Everything IInv says but the types.
Rest == /\ OneCall /\ OneActiveRow /\ RunningIsRecoverable /\ ReaperHitsItsOwnAttempt
        /\ \A e \in Execution : CallOK(e)

\* The steps of the call itself keep the rest of the inductive invariant.
LEMMA CallStepRest ==
    ASSUME IInv, TypeOK', NEW e \in Execution, CallStep(e)
    PROVE  Rest'
<1> USE DEF Step
<1>1. CASE TaskForStep(e)
  <2>1. Steady /\ Live(e) /\ ~Active(e)
    BY <1>1, TasksOnlySteady
       DEF TaskForStep, NoneStarted, Live, IInv, CallOK, BeforeLease, Before
  <2>2. /\ seen'[e].task = seen[e].task
        /\ seen'[e].attempt = tasks[seen[e].task].attempt
        /\ seen'[e].maxAttempts = tasks[seen[e].task].maxAttempts
    BY <1>1 DEF TaskForStep, IInv, TypeOK, SeenRow
  <2> DEFINE stored == tasks[seen[e].task]
             next == CASE stored.state = "READY" -> "prepared"
                       [] stored.state = "FAILED" /\ stored.attempt < stored.maxAttempts -> "retrying"
                       [] stored.state = "FAILED" /\ stored.attempt >= stored.maxAttempts -> "exhausted"
                       [] OTHER -> "idle"
  <2>3. Goto(e, next) /\ UNCHANGED <<tasks, executions>>
    BY <1>1 DEF TaskForStep
  <2>4. next \in {"prepared", "retrying", "exhausted", "idle"}
    OBVIOUS
  <2>5. /\ next = "prepared" => stored.state = "READY"
        /\ next = "retrying" => stored.state = "FAILED" /\ stored.attempt < stored.maxAttempts
        /\ next = "exhausted" => stored.state = "FAILED" /\ stored.attempt >= stored.maxAttempts
    OBVIOUS
  <2> HIDE DEF next
  <2>6. pc'[e] = next
    BY <2>3, GotoPc
  <2>7. CallOK(e)'
    BY <2>1, <2>2, <2>3, <2>4, <2>5, <2>6
       DEF CallOK, BeforeLease, WithLease, GivingUp, Before, During, Ending, SeenFailed,
           SeenAttempt, Active
  <2> QED
    BY <2>1, <2>3, <2>4, <2>7, SteadyTables, CallsOK DEF Rest
<1>2. CASE RetryReady(e) \/ CreateRetryExhaustedApproval(e)
  <2>1. NoneStarted
    <3>1. seen[e].task \in Task /\ tasks \in [Task -> TaskRow]
      BY DEF IInv, TypeOK, SeenRow
    <3>2. CASE RetryReady(e)
      BY <3>1, <3>2 DEF RetryReady, NoneStarted, TaskRow
    <3>3. CASE CreateRetryExhaustedApproval(e)
      BY <3>1, <3>3 DEF CreateRetryExhaustedApproval, NoneStarted, TaskRow
    <3> QED
      BY <1>2, <3>2, <3>3
  <2>2. Steady /\ Live(e) /\ Goto(e, "idle")
    BY <1>2, <2>1, TasksOnlySteady DEF RetryReady, CreateRetryExhaustedApproval, Live
  <2> QED
    BY <2>2, GotoPc, IdleOK, SteadyTables, CallsOK DEF Rest
<1>3. CASE AcquireLease(e)
  <2>1. ~Active(e) /\ tasks[seen[e].task].state = "READY" /\ SeenAttempt(e) /\ Live(e)
    BY <1>3 DEF AcquireLease, IInv, CallOK, BeforeLease, Before, Live
  <2>2. CASE ActiveOn(seen[e].task) # {}
    <3>1. Goto(e, "idle") /\ Steady
      BY <1>3, <2>2, TasksOnlySteady DEF AcquireLease, NoneStarted
    <3> QED
      BY <2>1, <3>1, GotoPc, IdleOK, SteadyTables, CallsOK DEF Rest
  <2>3. CASE ActiveOn(seen[e].task) = {}
    <3>1. /\ \A f \in Execution : f # e => executions'[f] = executions[f]
          /\ executions'[e] = [state |-> "LEASED", task |-> seen[e].task,
                               attempt |-> seen[e].attempt, remaining |-> LeaseSeconds]
          /\ Goto(e, "leased")
          /\ UNCHANGED <<tasks, seen, disturbed>>
      BY <1>3, <2>3 DEF AcquireLease, IInv, TypeOK
    <3>2. Active(e)' /\ OwnRow(e)' /\ ActiveOn(seen[e].task)' \subseteq {e}
      BY <2>3, <3>1 DEF Active, ActiveOn, ActiveState, OwnRow
    <3>3. OneActiveRow'
      BY <3>1, <3>2 DEF OneActiveRow, IInv, Active, ActiveOn
    <3>4. RunningIsRecoverable'
      BY <2>1, <3>1 DEF IInv, RunningIsRecoverable, Recoverable, ActiveOn, Active
    <3>5. ReaperHitsItsOwnAttempt'
      BY <2>1, <3>1 DEF IInv, ReaperHitsItsOwnAttempt, Active
    <3>6. pc'[e] = "leased"
      BY <3>1, GotoPc
    <3>7. CallOK(e)'
      BY <2>1, <3>1, <3>2, <3>6 DEF CallOK, BeforeLease, WithLease, GivingUp, Before, During,
                                    Ending, SeenAttempt
    <3> QED
      BY <2>1, <3>1, <3>3, <3>4, <3>5, <3>7, CallsOK DEF Rest
  <2> QED
    BY <2>2, <2>3
<1>4. CASE StartTask(e)
  <2> DEFINE t == seen[e].task
  <2>1. /\ OwnRow(e) /\ SeenAttempt(e) /\ Live(e) /\ t \in Task
        /\ ActiveOn(t) \subseteq {e}
        /\ Active(e) \/ t \in disturbed
    BY <1>4 DEF StartTask, IInv, TypeOK, SeenRow, CallOK, WithLease, During, Live
  <2>2. /\ tasks'[t].state = "RUNNING" /\ tasks'[t].attempt = tasks[t].attempt
        /\ \A u \in Task : u # t => tasks'[u] = tasks[u]
        /\ UNCHANGED <<executions, seen, disturbed>> /\ Goto(e, "started")
    BY <1>4, <2>1 DEF StartTask, IInv, TypeOK, TaskRow
  <2> HIDE DEF t
  <2>3. OneActiveRow'
    BY <2>2 DEF IInv, OneActiveRow, Active
  <2>4. RunningIsRecoverable'
    BY <2>1, <2>2 DEF IInv, RunningIsRecoverable, Recoverable, ActiveOn, Active, OwnRow,
                      SeenAttempt, t
  <2>5. ReaperHitsItsOwnAttempt'
    <3> SUFFICES ASSUME NEW f \in Execution, Active(f),
                        tasks'[executions[f].task].state = "RUNNING"
                 PROVE  executions[f].attempt = tasks'[executions[f].task].attempt
      BY <2>2 DEF ReaperHitsItsOwnAttempt, Active
    <3>1. executions[f].task \in Task
      BY DEF IInv, TypeOK, ExecutionRow
    <3>2. CASE executions[f].task = t
      BY <2>1, <2>2, <3>2 DEF ActiveOn, OwnRow, SeenAttempt, t
    <3>3. CASE executions[f].task # t
      BY <2>2, <3>1, <3>3 DEF IInv, ReaperHitsItsOwnAttempt
    <3> QED
      BY <3>2, <3>3
  <2>6. pc'[e] = "started"
    BY <2>2, GotoPc
  <2>7. CallOK(e)'
    BY <2>1, <2>2, <2>6 DEF CallOK, BeforeLease, WithLease, GivingUp, Before, During, Ending,
                            OwnRow, SeenAttempt, t
  <2> QED
    BY <2>1, <2>2, <2>3, <2>4, <2>5, <2>7, CallsOK DEF Rest
<1>5. CASE Dispatch(e) \/ AgentResult(e) \/ AssertExecutionLease(e)
  BY <1>5, HeartbeatOK, SteadyTables DEF Dispatch, AgentResult, AssertExecutionLease, Rest
<1>6. CASE AgentFails(e)
  <2>1. Steady /\ Goto(e, "result") /\ Live(e) /\ OwnRow(e) /\ SeenAttempt(e)
    BY <1>6, TasksOnlySteady DEF AgentFails, NoneStarted, Live, IInv, CallOK, WithLease, During
  <2>2. CallOK(e)'
    BY <1>6, <2>1, GotoPc DEF AgentFails, CallOK, BeforeLease, WithLease, GivingUp, Before,
                              During, Ending, OwnRow, SeenAttempt
  <2> QED
    BY <2>1, <2>2, SteadyTables, CallsOK DEF Rest
<1>7. CASE CommitResult(e)
  <2> DEFINE t == seen[e].task
  <2>1. OwnRow(e) /\ SeenAttempt(e) /\ Live(e) /\ t \in Task
    BY <1>7 DEF CommitResult, IInv, TypeOK, SeenRow, CallOK, WithLease, During, Live
  <2>2. CASE OwnsAttempt(e)
    <3>1. /\ tasks'[t].state # "RUNNING" /\ tasks'[t].attempt = tasks[t].attempt
          /\ \A u \in Task : u # t => tasks'[u] = tasks[u]
          /\ UNCHANGED <<executions, seen, disturbed>> /\ Goto(e, "committed")
      BY <1>7, <2>1, <2>2 DEF CommitResult, IInv, TypeOK, TaskRow
    <3>2. Steady
      BY <2>1, <3>1, TasksOnlySteady DEF NoneStarted
    <3>3. CallOK(e)'
      BY <2>1, <3>1, GotoPc DEF CallOK, BeforeLease, WithLease, GivingUp, Before, During,
                                Ending, OwnRow, SeenAttempt
    <3> QED
      BY <2>1, <3>1, <3>2, <3>3, SteadyTables, CallsOK DEF Rest
  <2>3. CASE ~OwnsAttempt(e)
    <3>1. UNCHANGED <<tasks, executions, seen, disturbed>> /\ Goto(e, "abandon")
      BY <1>7, <2>3 DEF CommitResult
    <3>2. Held(e) => tasks[t].state # "RUNNING"
      BY <2>1, <2>3 DEF OwnsAttempt, OwnRow, SeenAttempt
    <3>3. Steady
      BY <3>1, TasksOnlySteady DEF NoneStarted
    <3>4. CallOK(e)'
      BY <2>1, <3>1, <3>2, GotoPc DEF CallOK, BeforeLease, WithLease, GivingUp, Before, During,
                                      Ending, OwnRow, Held, Active
    <3> QED
      BY <2>1, <3>1, <3>3, <3>4, SteadyTables, CallsOK DEF Rest
  <2> QED
    BY <2>2, <2>3
<1>8. CASE ReleaseLease(e)
  <2> DEFINE final == IF outcome[e] = "ACCEPTED" THEN "SUCCEEDED" ELSE "FAILED"
             next == IF Active(e) \/ outcome[e] = "ERROR" THEN "idle" ELSE "abandon"
  <2>1. /\ OwnRow(e) /\ Live(e) /\ tasks[seen[e].task].state # "RUNNING"
        /\ executions' = Released(e, final) /\ Goto(e, next)
        /\ UNCHANGED <<tasks, seen, disturbed>>
    BY <1>8 DEF ReleaseLease, IInv, CallOK, WithLease, During, Live
  <2>2. final \in FinalState /\ next \in {"idle", "abandon"}
    BY DEF FinalState
  <2> HIDE DEF final, next
  <2>3. Steady
    BY <2>1, <2>2, ReleasedSteady
  <2>4. OwnRow(e)'
    BY <2>1, <2>3 DEF Steady, RowsShrink, OwnRow
  <2>5. CallOK(e)'
    BY <2>1, <2>2, <2>4, GotoPc DEF CallOK, BeforeLease, WithLease, GivingUp, Before, During,
                                    Ending
  <2> QED
    BY <2>1, <2>2, <2>3, <2>5, SteadyTables, CallsOK DEF Rest
<1>9. CASE AbandonReap(e)
  <2>1. /\ OwnRow(e) /\ Live(e) /\ seen[e].task \in Task
        /\ ReapExpiredLeases /\ Goto(e, "abandoning") /\ UNCHANGED <<seen, disturbed>>
        /\ Held(e) => tasks[seen[e].task].state # "RUNNING" \/ seen[e].task \in disturbed
    BY <1>9 DEF AbandonReap, IInv, TypeOK, SeenRow, CallOK, WithLease, GivingUp, Ending, Live
  <2>2. /\ Steady
        /\ Active(e)' <=> Held(e)
        /\ tasks[seen[e].task].state # "RUNNING" => tasks'[seen[e].task].state # "RUNNING"
    BY <2>1, ReapSteady DEF Active, Held
  <2>3. OwnRow(e)'
    BY <2>1, <2>2 DEF Steady, RowsShrink, OwnRow
  <2>4. CallOK(e)'
    BY <2>1, <2>2, <2>3, GotoPc DEF CallOK, BeforeLease, WithLease, GivingUp, Before, During,
                                    Ending
  <2> QED
    BY <2>1, <2>2, <2>4, SteadyTables, CallsOK DEF Rest
<1>10. CASE AbandonRelease(e)
  <2>1. /\ OwnRow(e) /\ Live(e) /\ executions' = Released(e, "FAILED")
        /\ Goto(e, "idle") /\ UNCHANGED <<tasks, disturbed>>
        /\ Active(e) => tasks[seen[e].task].state # "RUNNING" \/ seen[e].task \in disturbed
    BY <1>10 DEF AbandonRelease, IInv, CallOK, WithLease, GivingUp, Ending, Live
  <2>2. Steady
    BY <2>1, ReleasedSteady DEF FinalState
  <2> QED
    BY <2>1, <2>2, GotoPc, IdleOK, SteadyTables, CallsOK DEF Rest
<1> QED
  BY <1>1, <1>2, <1>3, <1>4, <1>5, <1>6, <1>7, <1>8, <1>9, <1>10 DEF CallStep

\* So do the heartbeat, the JSON repairs, the faults and a crash.
LEMMA EnvironmentRest ==
    ASSUME IInv, TypeOK', NEW e \in Execution, Environment(e)
    PROVE  Rest'
<1> USE DEF Step
<1>1. CASE RenewHeartbeat(e)
  BY <1>1, HeartbeatOK, SteadyTables DEF RenewHeartbeat, Rest
<1>2. CASE RegenerateJson(e)
  <2> DEFINE t == seen[e].task
  <2>1. OwnRow(e) /\ SeenAttempt(e) /\ Live(e) /\ t \in Task
    BY <1>2 DEF RegenerateJson, IInv, TypeOK, SeenRow, CallOK, WithLease, During, Live
  <2>2. CASE OwnsAttempt(e)
    <3>1. /\ \A u \in Task : /\ tasks'[u].state = tasks[u].state
                             /\ tasks'[u].attempt = tasks[u].attempt
          /\ seen'[e].task = t /\ seen'[e].attempt = seen[e].attempt
          /\ executions' = Renewed(e) /\ UNCHANGED <<pc, disturbed>>
      <4>1. /\ tasks' = [tasks EXCEPT ![t].regenerations = seen[e].regenerations + 1]
            /\ seen' = [seen EXCEPT ![e].regenerations = @ + 1]
            /\ executions' = Renewed(e) /\ UNCHANGED <<pc, disturbed>>
        BY <1>2, <2>2 DEF RegenerateJson
      <4>2. tasks \in [Task -> TaskRow] /\ seen \in [Execution -> SeenRow]
        BY DEF IInv, TypeOK
      <4> QED
        BY <2>1, <4>1, <4>2 DEF TaskRow, SeenRow
    <3>2. Steady
      BY <2>2, <3>1, RenewedRows, SameRowsSteady DEF NoneStarted, OwnsAttempt
    <3>3. OwnRow(e)' /\ SeenAttempt(e)'
      BY <2>1, <3>1, <3>2 DEF Steady, RowsShrink, OwnRow, SeenAttempt
    <3>4. pc'[e] = "agent" /\ Goto(e, "agent")
      BY <1>2, <3>1 DEF RegenerateJson, Goto, IInv, TypeOK
    <3>5. CallOK(e)'
      BY <3>3, <3>4 DEF CallOK, BeforeLease, WithLease, GivingUp, Before, During, Ending
    <3> QED
      BY <2>1, <3>2, <3>4, <3>5, SteadyTables, CallsOK DEF Rest
  <2>3. CASE ~OwnsAttempt(e)
    <3>1. /\ UNCHANGED <<tasks, seen, disturbed>> /\ Goto(e, "abandon")
          /\ executions' = IF Held(e) THEN Renewed(e) ELSE executions
      BY <1>2, <2>3 DEF RegenerateJson
    <3>2. Held(e) => tasks[t].state # "RUNNING"
      BY <2>1, <2>3 DEF OwnsAttempt, OwnRow, SeenAttempt
    <3>3. Steady
      <4>1. CASE Held(e)
        BY <3>1, <4>1, RenewedRows, SameRowsSteady DEF NoneStarted
      <4>2. CASE ~Held(e)
        BY <3>1, <4>2, TasksOnlySteady DEF NoneStarted
      <4> QED
        BY <4>1, <4>2
    <3>4. OwnRow(e)' /\ (Held(e)' => Held(e))
      BY <2>1, <3>1, <3>3 DEF Steady, RowsShrink, OwnRow, Held, Active
    <3>5. CallOK(e)'
      BY <3>1, <3>2, <3>4, GotoPc DEF CallOK, BeforeLease, WithLease, GivingUp, Before, During,
                                      Ending
    <3> QED
      BY <2>1, <3>1, <3>3, <3>5, SteadyTables, CallsOK DEF Rest
  <2> QED
    BY <2>2, <2>3
<1>3. CASE StagingFails(e) \/ SnapshotFails(e)
  <2>1. /\ pc[e] \in {"started", "result"} /\ pc'[e] = "result" /\ Goto(e, "result")
        /\ UNCHANGED <<tasks, executions, seen, disturbed>>
    BY <1>3 DEF StagingFails, SnapshotFails, Goto, IInv, TypeOK
  <2>2. Steady /\ Live(e) /\ OwnRow(e) /\ SeenAttempt(e)
    BY <2>1, TasksOnlySteady DEF NoneStarted, Live, IInv, CallOK, WithLease, During
  <2>3. CallOK(e)'
    BY <2>1, <2>2 DEF CallOK, BeforeLease, WithLease, GivingUp, Before, During, Ending, OwnRow,
                      SeenAttempt
  <2> QED
    BY <2>1, <2>2, <2>3, SteadyTables, CallsOK DEF Rest
<1>4. CASE HeartbeatError(e) \/ AbortRegeneration(e)
  <2>1. /\ pc[e] = "agent" /\ Goto(e, "abandon") /\ UNCHANGED <<tasks, executions, seen>>
        /\ disturbed' = disturbed \cup {seen[e].task}
    BY <1>4 DEF HeartbeatError, AbortRegeneration
  <2>2. Steady /\ Live(e) /\ OwnRow(e)
    BY <2>1, TasksOnlySteady DEF NoneStarted, Live, IInv, CallOK, WithLease, During
  <2>3. CallOK(e)'
    BY <2>1, <2>2, GotoPc DEF CallOK, BeforeLease, WithLease, GivingUp, Before, During, Ending,
                              OwnRow
  <2> QED
    BY <2>1, <2>2, <2>3, SteadyTables, CallsOK DEF Rest
<1>5. CASE Crash(e)
  <2>1. Steady /\ Live(e) /\ Goto(e, "idle")
    BY <1>5, TasksOnlySteady DEF Crash, NoneStarted
  <2> QED
    BY <2>1, GotoPc, IdleOK, SteadyTables, CallsOK DEF Rest
<1> QED
  BY <1>1, <1>2, <1>3, <1>4, <1>5 DEF Environment

\* Steps that belong to no call: what a live call relies on must survive them.
LEMMA OthersRest ==
    ASSUME IInv, TypeOK',
           (\E t \in Task : Human(t)) \/ ConcurrentReap \/ ClockTick \/ UNCHANGED vars
    PROVE  Rest'
<1>1. CASE \E t \in Task : Human(t)
  <2> PICK t \in Task : Human(t)
    BY <1>1
  <2>1. /\ NoCallLive /\ UNCHANGED <<executions, pc, disturbed>>
        /\ tasks'[t].state # "RUNNING"
        /\ \A u \in Task : u # t => tasks'[u] = tasks[u]
    <3>1. tasks \in [Task -> TaskRow]
      BY DEF IInv, TypeOK
    <3>2. CASE GrantRetryBatch(t)
      BY <3>1, <3>2 DEF GrantRetryBatch
    <3>3. CASE DeclineRetryBatch(t)
      BY <3>1, <3>3 DEF DeclineRetryBatch, TaskRow
    <3>4. CASE ReworkTask(t)
      BY <3>1, <3>4 DEF ReworkTask, TaskRow
    <3> QED
      BY <3>2, <3>3, <3>4 DEF Human
  <2>2. Steady
    BY <2>1, TasksOnlySteady DEF NoneStarted
  <2>3. OneCall' /\ \A e \in Execution : CallOK(e)'
    BY <2>1, IdleOK DEF OneCall, NoCallLive, Live
  <2> QED
    BY <2>2, <2>3, SteadyTables DEF Rest
<1>2. CASE ConcurrentReap
  <2>1. /\ ReapExpiredLeases /\ UNCHANGED <<pc, seen>>
        /\ disturbed' = disturbed \cup {t \in Task : \E e \in ActiveOn(t) : Expired(e)}
    BY <1>2 DEF ConcurrentReap
  <2>2. /\ Steady
        /\ \A f \in Execution : Active(f)' <=> Held(f)
        /\ \A t \in Task : /\ tasks'[t].attempt = tasks[t].attempt
                           /\ tasks'[t].maxAttempts = tasks[t].maxAttempts
                           /\ tasks[t].state # "RUNNING" => tasks'[t] = tasks[t]
    BY <2>1, ReapSteady
  <2>3. ASSUME NEW e \in Execution PROVE CallOK(e)'
    <3>1. /\ pc'[e] = pc[e] /\ seen'[e] = seen[e] /\ seen[e].task \in Task
          /\ executions[e] \in ExecutionRow /\ CallOK(e)
      BY <2>1 DEF IInv, TypeOK, SeenRow
    <3>2. BeforeLease(e)'
      BY <2>2, <3>1 DEF CallOK, BeforeLease, Active, Held, SeenFailed, SeenAttempt
    <3>3. WithLease(e)'
      <4>1. /\ OwnRow(e) => OwnRow(e)'
            /\ SeenAttempt(e) => SeenAttempt(e)'
            /\ ActiveOn(seen[e].task)' \subseteq ActiveOn(seen[e].task)
        BY <2>2, <3>1 DEF Steady, RowsShrink, OwnRow, SeenAttempt, ActiveOn, Active
      <4>2. tasks[seen[e].task].state # "RUNNING" => tasks'[seen[e].task] = tasks[seen[e].task]
        BY <2>2, <3>1
      <4>3. ASSUME pc[e] = "leased"
            PROVE  Active(e)' \/ seen[e].task \in disturbed'
        <5>1. CASE Active(e)
          <6>1. CASE Held(e)
            BY <2>2, <6>1 DEF Active, Held
          <6>2. CASE ~Held(e)
            <7>1. Expired(e) /\ executions[e].task = seen[e].task
              BY <3>1, <4>3, <5>1, <6>2, ExecutionAssumption
                 DEF Held, Expired, ExecutionRow, Remaining, CallOK, WithLease, During, OwnRow
            <7> QED
              BY <2>1, <3>1, <5>1, <7>1 DEF ActiveOn
          <6> QED
            BY <6>1, <6>2
        <5>2. CASE ~Active(e)
          BY <2>1, <3>1, <4>3, <5>2 DEF CallOK, WithLease
        <5> QED
          BY <5>1, <5>2
      <4> QED
        BY <3>1, <4>1, <4>2, <4>3 DEF CallOK, WithLease
    <3>4. GivingUp(e)'
      <4>1. /\ Held(e)' => Held(e)
            /\ Active(e)' => Held(e) /\ Active(e)
        BY <2>2 DEF Active, Held
      <4>2. /\ tasks[seen[e].task].state # "RUNNING" => tasks'[seen[e].task].state # "RUNNING"
            /\ disturbed \subseteq disturbed'
        BY <2>1, <2>2, <3>1
      <4> QED
        BY <3>1, <4>1, <4>2 DEF CallOK, GivingUp
    <3> QED
      BY <3>2, <3>3, <3>4 DEF CallOK
  <2>4. OneCall'
    BY <2>1 DEF IInv, OneCall, Live
  <2> QED
    BY <2>2, <2>3, <2>4, SteadyTables DEF Rest
<1>3. CASE ClockTick
  <2>1. ASSUME NEW f \in Execution
        PROVE  /\ executions'[f].state = executions[f].state
               /\ executions'[f].task = executions[f].task
               /\ executions'[f].attempt = executions[f].attempt
               /\ Held(f)' => Held(f)
    BY <1>3 DEF ClockTick, IInv, TypeOK, ExecutionRow, Held, Active
  <2>2. Steady /\ UNCHANGED <<tasks, pc, seen, disturbed>>
    BY <1>3, <2>1, SameRowsSteady DEF ClockTick, NoneStarted, Active
  <2>3. ASSUME NEW e \in Execution PROVE CallOK(e)'
    BY <2>1, <2>2 DEF IInv, CallOK, BeforeLease, WithLease, GivingUp, SeenFailed, SeenAttempt,
                      OwnRow, ActiveOn, Active
  <2>4. OneCall'
    BY <2>2 DEF IInv, OneCall, Live
  <2> QED
    BY <2>2, <2>3, <2>4, SteadyTables DEF Rest
<1>4. CASE UNCHANGED vars
  BY <1>4 DEF vars, Rest, IInv, OneCall, OneActiveRow, RunningIsRecoverable, Recoverable,
              ReaperHitsItsOwnAttempt, CallOK, BeforeLease, WithLease, GivingUp, SeenFailed,
              SeenAttempt, OwnRow, ActiveOn, Held, Active, Live
<1> QED
  BY <1>1, <1>2, <1>3, <1>4

\* So does the beginning of a call, which reaps first.
LEMMA TickRest ==
    ASSUME IInv, TypeOK', NEW e \in Execution, NEW t \in Task, Tick(e, t)
    PROVE  Rest'
<1>1. /\ NoCallLive /\ ~Active(e) /\ ReapExpiredLeases /\ Goto(e, "ticked")
      /\ UNCHANGED disturbed
  BY DEF Tick
<1>2. Steady
  BY <1>1, ReapSteady
<1>3. ~Active(e)' /\ pc'[e] = "ticked"
  BY <1>1, <1>2, GotoPc DEF Steady, RowsShrink
<1>4. CallOK(e)'
  BY <1>3 DEF CallOK, BeforeLease, WithLease, GivingUp, Before, During, Ending
<1> QED
  BY <1>1, <1>2, <1>4, SteadyTables, CallsOK DEF Rest, Step

-----------------------------------------------------------------------------
(* Safety. *)

\* With no row and no call there is nothing to keep.
LEMMA InitIInv == Init => IInv
<1> SUFFICES ASSUME Init PROVE IInv
  OBVIOUS
<1>1. /\ \A e \in Execution : pc[e] = "idle" /\ ~Active(e)
      /\ \A t \in Task : tasks[t].state = "READY"
  BY DEF Init, Active, ActiveState
<1> QED
  BY <1>1, InitTypeOK
     DEF IInv, OneCall, OneActiveRow, RunningIsRecoverable, Recoverable,
         ReaperHitsItsOwnAttempt, CallOK, BeforeLease, WithLease, GivingUp, Before, During,
         Ending, Live

\* IInv is inductive.
LEMMA NextIInv == IInv /\ [Next]_vars => IInv'
<1> SUFFICES ASSUME IInv, [Next]_vars PROVE IInv'
  OBVIOUS
<1>1. TypeOK'
  BY NextTypeOK DEF IInv
<1>2. Rest'
  BY <1>1, TickRest, CallStepRest, EnvironmentRest, OthersRest DEF Next
<1> QED
  BY <1>1, <1>2 DEF Rest, IInv

\* IInv holds throughout every behaviour: what the code relies on between
\* two statements (the state it read, the row it inserted) is still true.
THEOREM Invariance == Spec => []IInv
BY InitIInv, NextIInv, PTL DEF Spec

\* No interleaving of calls, reapers, crashes and expiring leases orphans a
\* RUNNING task, faults apart: abandonExecution may leave the task to the reaper.
THEOREM RecoverableAlways == Spec => []RunningIsRecoverable
<1>1. IInv => RunningIsRecoverable
  BY DEF IInv
<1> QED
  BY <1>1, Invariance, PTL

\* The reaper never fails an attempt that its expired row did not belong to.
THEOREM ReaperIsPrecise == Spec => []ReaperHitsItsOwnAttempt
<1>1. IInv => ReaperHitsItsOwnAttempt
  BY DEF IInv
<1> QED
  BY <1>1, Invariance, PTL

-----------------------------------------------------------------------------
(* Refinement. *)

View == [t \in Task |-> [state |-> tasks[t].state, attempt |-> tasks[t].attempt,
                         maxAttempts |-> tasks[t].maxAttempts]]

SameView(t) ==
    /\ tasks'[t].state = tasks[t].state
    /\ tasks'[t].attempt = tasks[t].attempt
    /\ tasks'[t].maxAttempts = tasks[t].maxAttempts

\* A step that changes nothing the life cycle sees is a stuttering step of it.
LEMMA Unseen ==
    ASSUME \A t \in Task : SameView(t)
    PROVE  UNCHANGED View
BY DEF View, SameView

\* A change of state alone, and the beginning of another attempt, as the life
\* cycle sees them.
LEMMA BecomesStep ==
    ASSUME NEW t \in Task, NEW s, tasks'[t].state = s,
           tasks'[t].attempt = tasks[t].attempt, tasks'[t].maxAttempts = tasks[t].maxAttempts,
           \A u \in Task : u # t => SameView(u)
    PROVE  Lifecycle!Becomes(t, s)
<1>1. View' = [View EXCEPT ![t].state = s]
  BY DEF View, SameView
<1> QED
  BY <1>1 DEF Lifecycle!Becomes, View

\* The beginning of the next attempt, as the life cycle sees it.
LEMMA NextAttemptStep ==
    ASSUME NEW t \in Task, NEW extra, tasks'[t].state = "READY",
           tasks'[t].attempt = tasks[t].attempt + 1,
           tasks'[t].maxAttempts = tasks[t].maxAttempts + extra,
           \A u \in Task : u # t => SameView(u)
    PROVE  Lifecycle!NextAttempt(t, extra)
<1>1. View' = [View EXCEPT ![t] = [state |-> "READY", attempt |-> View[t].attempt + 1,
                                   maxAttempts |-> View[t].maxAttempts + extra]]
  BY DEF View, SameView
<1> QED
  BY <1>1 DEF Lifecycle!NextAttempt, View

\* One sweep of the reaper expires, in one step, the attempts it fails.
LEMMA ReapRefines ==
    ASSUME TypeOK, ReapExpiredLeases
    PROVE  Lifecycle!Next
<1> PICK S \in SUBSET Task :
         S = {t \in Task : tasks[t].state = "RUNNING" /\ \E e \in ActiveOn(t) : Expired(e)}
  OBVIOUS
<1>1. View' = [t \in Task |-> IF t \in S THEN [View[t] EXCEPT !.state = "FAILED"] ELSE View[t]]
  <2>1. ASSUME NEW t \in Task, t \in S
        PROVE  View'[t] = [View[t] EXCEPT !.state = "FAILED"]
    <3>1. tasks'[t] = [tasks[t] EXCEPT !.state = "FAILED"] /\ tasks[t] \in TaskRow
      BY <2>1 DEF ReapExpiredLeases, TypeOK
    <3> QED
      BY <3>1 DEF View, TaskRow
  <2>2. ASSUME NEW t \in Task, t \notin S PROVE View'[t] = View[t]
    BY <2>2 DEF ReapExpiredLeases, View
  <2> QED
    BY <2>1, <2>2 DEF View
<1>2. \A t \in S : View[t].state = "RUNNING"
  BY DEF View
<1>3. Lifecycle!Expire(S)
  BY <1>1, <1>2 DEF Lifecycle!Expire, Lifecycle!Is, View
<1> QED
  BY <1>3 DEF Lifecycle!Next

\* A new run is a new life cycle.
LEMMA InitRefines == Init => Lifecycle!Init
BY DEF Init, Lifecycle!Init

\* Every statement of executeTask is a step of the life cycle or none at all.
LEMMA CallStepRefines ==
    ASSUME IInv, NEW e \in Execution, CallStep(e)
    PROVE  Lifecycle!Next \/ UNCHANGED View
<1> PICK t \in Task : t = seen[e].task
  BY DEF IInv, TypeOK, SeenRow
<1>0. tasks \in [Task -> TaskRow] /\ CallOK(e)
  BY DEF IInv, TypeOK
<1>1. CASE RetryReady(e)
  <2>1. /\ tasks[t].state = "FAILED" /\ tasks[t].attempt = seen[e].attempt
        /\ tasks[t].attempt < tasks[t].maxAttempts
    BY <1>0, <1>1 DEF RetryReady, CallOK, BeforeLease, SeenFailed, SeenAttempt
  <2>2. /\ tasks'[t].state = "READY" /\ tasks'[t].attempt = tasks[t].attempt + 1
        /\ tasks'[t].maxAttempts = tasks[t].maxAttempts + 0
        /\ \A u \in Task : u # t => SameView(u)
    BY <1>0, <1>1, <2>1, SMTT(20) DEF RetryReady, TaskRow, SameView
  <2>3. Lifecycle!NextAttempt(t, 0)
    BY <1>0, <2>2, NextAttemptStep
  <2>4. Lifecycle!Retry(t)
    BY <1>0, <2>1, <2>3 DEF Lifecycle!Retry, Lifecycle!Is
  <2> QED
    BY <2>4 DEF Lifecycle!Next
<1>2. CASE CreateRetryExhaustedApproval(e)
  <2>1. /\ tasks[t].state = "FAILED" /\ tasks[t].attempt = seen[e].attempt
        /\ tasks[t].maxAttempts = seen[e].maxAttempts
        /\ tasks[t].attempt >= tasks[t].maxAttempts
    BY <1>0, <1>2 DEF CreateRetryExhaustedApproval, CallOK, BeforeLease, SeenFailed, SeenAttempt
  <2>2. tasks' = [tasks EXCEPT ![t].state = "WAITING_HUMAN"]
    BY <1>2, <2>1 DEF CreateRetryExhaustedApproval
  <2>3. Lifecycle!Becomes(t, "WAITING_HUMAN")
    BY <1>0, <2>2, BecomesStep DEF TaskRow, SameView
  <2>4. Lifecycle!Exhaust(t)
    BY <1>0, <2>1, <2>3 DEF Lifecycle!Exhaust, Lifecycle!Is
  <2> QED
    BY <2>4 DEF Lifecycle!Next
<1>3. CASE StartTask(e)
  <2>1. tasks[t].state = "READY" /\ tasks' = [tasks EXCEPT ![t].state = "RUNNING"]
    BY <1>0, <1>3 DEF StartTask, CallOK, WithLease
  <2>2. Lifecycle!Becomes(t, "RUNNING")
    BY <1>0, <2>1, BecomesStep DEF TaskRow, SameView
  <2>3. Lifecycle!Start(t)
    BY <1>0, <2>1, <2>2 DEF Lifecycle!Start, Lifecycle!Is
  <2> QED
    BY <2>3 DEF Lifecycle!Next
<1>4. CASE CommitResult(e)
  <2>1. CASE OwnsAttempt(e)
    <3>1. PICK s \in {"SUCCEEDED", "FAILED"} : tasks' = [tasks EXCEPT ![t].state = s]
      BY <1>4, <2>1 DEF CommitResult
    <3>2. Lifecycle!Becomes(t, s)
      BY <1>0, <3>1, BecomesStep DEF TaskRow, SameView
    <3>3. Lifecycle!Decide(t)
      BY <2>1, <3>2 DEF OwnsAttempt, Lifecycle!Decide, Lifecycle!Is
    <3> QED
      BY <3>3 DEF Lifecycle!Next
  <2>2. CASE ~OwnsAttempt(e)
    BY <1>4, <2>2, Unseen DEF CommitResult, SameView
  <2> QED
    BY <2>1, <2>2
<1>5. CASE AbandonReap(e)
  BY <1>5, ReapRefines DEF AbandonReap, IInv
<1>6. CASE UNCHANGED tasks
  BY <1>6, Unseen DEF SameView
<1> QED
  BY <1>1, <1>2, <1>3, <1>4, <1>5, <1>6
     DEF CallStep, TaskForStep, AcquireLease, Dispatch, AgentFails, AgentResult,
         AssertExecutionLease, ReleaseLease, AbandonRelease

\* Heartbeats, repairs, faults and crashes are invisible to the life cycle.
LEMMA EnvironmentRefines ==
    ASSUME IInv, NEW e \in Execution, Environment(e)
    PROVE  UNCHANGED View
<1>1. CASE RegenerateJson(e)
  <2>1. seen[e].task \in Task /\ tasks \in [Task -> TaskRow]
    BY DEF IInv, TypeOK, SeenRow
  <2>2. \/ UNCHANGED tasks
        \/ tasks' = [tasks EXCEPT ![seen[e].task].regenerations = seen[e].regenerations + 1]
    BY <1>1 DEF RegenerateJson
  <2>3. \A t \in Task : SameView(t)
    BY <2>1, <2>2 DEF TaskRow, SameView
  <2> QED
    BY <2>3, Unseen
<1>2. CASE UNCHANGED tasks
  BY <1>2, Unseen DEF SameView
<1> QED
  BY <1>1, <1>2 DEF Environment, RenewHeartbeat, StagingFails, SnapshotFails, HeartbeatError,
                    AbortRegeneration, Crash

\* A resolved approval is a step of the life cycle.
LEMMA HumanRefines ==
    ASSUME IInv, NEW t \in Task, Human(t)
    PROVE  Lifecycle!Next
<1>1. tasks \in [Task -> TaskRow]
  BY DEF IInv, TypeOK
<1>2. CASE GrantRetryBatch(t)
  <2>1. Lifecycle!NextAttempt(t, RetryBatch)
    BY <1>1, <1>2, NextAttemptStep DEF GrantRetryBatch, SameView
  <2>2. Lifecycle!Grant(t)
    BY <1>2, <2>1 DEF GrantRetryBatch, Lifecycle!Grant, Lifecycle!Is
  <2> QED
    BY <2>2 DEF Lifecycle!Next
<1>3. CASE DeclineRetryBatch(t)
  <2>1. Lifecycle!Becomes(t, "CANCELLED")
    BY <1>1, <1>3, BecomesStep DEF DeclineRetryBatch, TaskRow, SameView
  <2>2. Lifecycle!Decline(t)
    BY <1>3, <2>1 DEF DeclineRetryBatch, Lifecycle!Decline, Lifecycle!Is
  <2> QED
    BY <2>2 DEF Lifecycle!Next
<1>4. CASE ReworkTask(t)
  <2>1. /\ tasks'[t].state = "READY" /\ tasks'[t].attempt = tasks[t].attempt + 1
        /\ tasks'[t].maxAttempts = tasks[t].maxAttempts + 0
        /\ \A u \in Task : u # t => SameView(u)
    BY <1>1, <1>4 DEF ReworkTask, TaskRow, SameView
  <2>2. Lifecycle!NextAttempt(t, 0)
    BY <2>1, NextAttemptStep
  <2>3. Lifecycle!Rework(t)
    BY <1>4, <2>2 DEF ReworkTask, Lifecycle!Rework, Lifecycle!Is
  <2> QED
    BY <2>3 DEF Lifecycle!Next
<1> QED
  BY <1>2, <1>3, <1>4 DEF Human

\* Every step of the orchestrator is a step of the life cycle or none at all.
LEMMA StepRefines == IInv /\ [Next]_vars => [Lifecycle!Next]_View
<1> SUFFICES ASSUME IInv, [Next]_vars PROVE Lifecycle!Next \/ UNCHANGED View
  OBVIOUS
<1>1. ASSUME NEW e \in Execution, NEW t \in Task, Tick(e, t) PROVE Lifecycle!Next
  BY <1>1, ReapRefines DEF Tick, IInv
<1>2. CASE ConcurrentReap
  BY <1>2, ReapRefines DEF ConcurrentReap, IInv
<1>3. CASE ClockTick \/ UNCHANGED vars
  <2>1. UNCHANGED tasks
    BY <1>3 DEF ClockTick, vars
  <2> QED
    BY <2>1, Unseen DEF SameView
<1> QED
  BY <1>1, <1>2, <1>3, CallStepRefines, EnvironmentRefines, HumanRefines DEF Next

\* The orchestrator, its executions table and every fault considered here implement
\* the life cycle of a task: no attempt is started or decided twice.
THEOREM Refinement == Spec => ImplementsLifecycle
<1>1. Spec => Lifecycle!Init /\ [][Lifecycle!Next]_View
  BY InitRefines, StepRefines, Invariance, PTL DEF Spec
<1> QED
  BY <1>1, PTL DEF ImplementsLifecycle, Lifecycle!Spec, View
=============================================================================
