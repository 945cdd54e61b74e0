--------------------------- MODULE Workflow_proofs ---------------------------
(***************************************************************************)
(* Theorems about Workflow for any steps, routes, gates and bounds: type   *)
(* correctness, the two safety invariants and the two action properties    *)
(* of its run, by way of the inductive invariant IInv.                     *)
(***************************************************************************)
EXTENDS Workflow, Lemmas, TLAPS

Asking    == {"asking", "asked", "waiting"}
Answering == {"resolved", "reactivated", "answered", "declining", "rewinding", "rewound"}

HasRow(t) == tasks[t].state # None
RowsOf(q) == HasRow(q.task) /\ (q.upstream # None => HasRow(q.upstream))

\* What a command holds in its local variables is in the tables, torn or not.
RowsExist ==
    /\ \A i \in DOMAIN pending : RowsOf(pending[i])
    /\ call.pc \in {"agent", "committed"} => ~PastEnd /\ HasRow(Current)
    /\ call.pc = "committed" => tasks[Current].result # None
    /\ call.pc \in Asking \cup Answering => call.question \in Question /\ RowsOf(call.question)
    /\ call.pc \in Answering => call.choice \in Options(call.question.trigger)

\* The run at each step of a command.
RunStateAt ==
    /\ call.pc \in {"ticked", "asking", "asked", "finishing"} \cup (Answering \ {"resolved"})
          => run.state = "ACTIVE"
    /\ call.pc \in {"waiting", "resolved"} => run.state = "WAITING_HUMAN"
    /\ call.pc \in {"agent", "committed"} => run.state \in {"ACTIVE", "HOLD"}
    /\ run.step <= Len(run.route) + 1
    /\ call.pc = "finishing" => PastEnd

\* What a question says of the current step, from its asking to the end of its answer.
Justified(q) ==
    /\ ~PastEnd /\ q.task = Current
    /\ q.trigger = "ROUTE_STEP_APPROVAL" =>
          Current \in Gated /\ tasks[Current].result = "COMPLETED"
    /\ q.trigger = "AGENT_DECISION_REQUIRED" => tasks[Current].result = "DECISION"
    /\ q.trigger = "UPSTREAM_IMPLEMENTATION_MISSING" =>
          /\ Kind[Current] = "TEST"
          /\ q.upstream # None => q.upstream \in StepId /\ Kind[q.upstream] = "DEVELOPMENT"

\* An exhausted task still has the attempt and the budget that the question is bound to.
Bound(q) ==
    q.trigger = "TASK_RETRY_EXHAUSTED" =>
        /\ q.attempt = tasks[Current].attempt
        /\ q.maxAttempts = tasks[Current].maxAttempts

\* The pending questions at each step of a command.
IdleQuestions ==
    call.pc = "idle" =>
        /\ run.state = "WAITING_HUMAN" <=> pending # <<>>
        /\ pending # <<>> =>
              /\ Len(pending) = 1
              /\ Justified(pending[1]) /\ Bound(pending[1])
              /\ tasks[Current].state = "WAITING_HUMAN"

CallQuestions ==
    /\ call.pc \in {"asked", "waiting"} => pending = <<call.question>>
    /\ call.pc \notin {"idle", "asked", "waiting"} => pending = <<>>
    /\ call.pc \in Asking \cup Answering =>
          Justified(call.question) /\ call.question.trigger # "TASK_RETRY_EXHAUSTED"
    /\ call.pc \in {"rewinding", "rewound"} =>
          call.question.trigger = "UPSTREAM_IMPLEMENTATION_MISSING" /\ UpstreamInRoute
    /\ call.pc = "answered" => tasks[Current].state = "SUCCEEDED"

\* A success that is not, or not yet, a completed result: the agent asks for a decision,
\* or an answer has marked the task and what the answer means is still to be done.
Undecided(t) ==
    \/ call.pc \in {"committed"} \cup Asking /\ t = Current /\ tasks[t].result = "DECISION"
    \/ call.pc \in {"answered", "rewinding"} /\ t = call.question.task

SucceededIsCompleted ==
    /\ \A t \in StepId :
          tasks[t].state = "SUCCEEDED" => tasks[t].result = "COMPLETED" \/ Undecided(t)
    /\ call.pc = "committed" =>
          tasks[Current].state = IF tasks[Current].result = "FAILURE" THEN "FAILED" ELSE "SUCCEEDED"

Passed == IF run.state = "TERMINAL" /\ run.outcome = "SUCCEEDED"
          THEN DOMAIN run.route ELSE 1 .. (run.step - 1)

\* While a rework rewinds the run, the step it goes back to is already to be done again.
PassedIsDone ==
    \A i \in Passed :
        \/ Completed(run.route[i])
        \/ call.pc \in {"rewinding", "rewound"} /\ run.route[i] = call.question.upstream

Coherent ==
    RunStateAt /\ IdleQuestions /\ CallQuestions /\ SucceededIsCompleted /\ PassedIsDone

IInv == TypeOK /\ RowsExist /\ (~torn => Coherent)

-----------------------------------------------------------------------------
(* Type correctness, with the rows that a command relies on. *)

\* The upstream task of a TEST step, when there is one, is a DEVELOPMENT task that
\* has been created.
LEMMA UpstreamIsDevelopment ==
    ASSUME TypeOK, Upstream # None
    PROVE  Upstream \in ToSet(created) /\ Upstream \in StepId /\ Kind[Upstream] = "DEVELOPMENT"
<1> DEFINE developments == {i \in DOMAIN created : Kind[created[i]] = "DEVELOPMENT"}
<1>1. developments \in SUBSET Nat
  BY DEF TypeOK
<1>2. developments # {} /\ Upstream = created[Min(developments)]
  BY DEF Upstream
<1>3. Min(developments) \in developments
  BY <1>1, <1>2, MinOfNat
<1>4. ASSUME NEW i \in DOMAIN created
      PROVE  created[i] \in StepId /\ created[i] \in ToSet(created)
  BY DEF TypeOK, ToSet
<1> QED
  BY <1>2, <1>3, <1>4

\* The route of the run is one of the routes, its step a number.
LEMMA RouteOfRun ==
    ASSUME TypeOK
    PROVE  /\ run.route \in Routes /\ run.route \in Seq(StepId) /\ IsInjective(run.route)
           /\ Len(run.route) \in Nat /\ DOMAIN run.route = 1 .. Len(run.route)
           /\ \A i \in DOMAIN run.route : i \in Nat \ {0} /\ run.route[i] \in StepId
           /\ run.step \in Nat \ {0}
<1>1. run.route \in Routes /\ run.step \in Nat \ {0}
  BY DEF TypeOK
<1>2. run.route \in Seq(StepId) /\ IsInjective(run.route)
  BY <1>1, WorkflowAssumption
<1>3. Len(run.route) \in Nat /\ DOMAIN run.route = 1 .. Len(run.route)
  BY <1>2
<1> QED
  BY <1>1, <1>2, <1>3

\* The current step of a run that is not past its end is one of its route.
LEMMA CurrentStep ==
    ASSUME TypeOK, ~PastEnd
    PROVE  Current \in StepId /\ run.step \in DOMAIN run.route /\ Current \in ToSet(run.route)
<1>1. run.route \in Seq(StepId) /\ run.step \in Nat \ {0}
  BY WorkflowAssumption DEF TypeOK
<1>2. run.step \in 1 .. Len(run.route)
  BY <1>1 DEF PastEnd
<1> QED
  BY <1>1, <1>2 DEF Current, ToSet

\* The questions executeTask asks are approvals about existing rows.
LEMMA AboutType ==
    ASSUME TypeOK, NEW t \in StepId, HasRow(t), NEW trigger \in Trigger
    PROVE  About(t, trigger) \in Question /\ RowsOf(About(t, trigger))
BY DEF About, Question, RowsOf, HasRow

\* The question about a missing upstream names the row of the upstream, or none.
LEMMA UpstreamQuestionType ==
    ASSUME TypeOK, NEW t \in StepId, HasRow(t)
    PROVE  LET q == [About(t, "UPSTREAM_IMPLEMENTATION_MISSING") EXCEPT !.upstream = Upstream]
           IN q \in Question /\ RowsOf(q)
<1>1. Upstream \in StepId \cup {None}
  BY UpstreamIsDevelopment
<1>2. Upstream # None => HasRow(Upstream)
  BY UpstreamIsDevelopment DEF TypeOK, HasRow
<1> QED
  BY <1>1, <1>2 DEF About, Question, RowsOf, HasRow, Trigger


TaskRow == [state : TaskState, attempt : Nat \ {0}, maxAttempts : Nat \ {0}, result : Result]

\* No row is lost and none appears.
SameRows ==
    /\ tasks' \in [StepId -> TaskRow]
    /\ \A t \in StepId : tasks'[t].state # None <=> tasks[t].state # None

\* updateTask changes the state of one row.
LEMMA SetTaskRow ==
    ASSUME TypeOK, NEW t \in StepId, NEW s \in TaskState, SetTask(t, s)
    PROVE  /\ tasks' \in [StepId -> TaskRow]
           /\ tasks'[t].state = s
           /\ \A u \in StepId : tasks'[u].result = tasks[u].result
           /\ \A u \in StepId \ {t} : tasks'[u] = tasks[u]
           /\ tasks'[t].attempt = tasks[t].attempt /\ tasks'[t].maxAttempts = tasks[t].maxAttempts
<1>1. tasks \in [StepId -> TaskRow]
  BY DEF TypeOK, TaskRow
<1>2. tasks' = [tasks EXCEPT ![t].state = s]
  BY DEF SetTask
<1>3. [tasks[t] EXCEPT !.state = s] \in TaskRow
  BY <1>1 DEF TaskRow
<1>4. tasks' = [tasks EXCEPT ![t] = [tasks[t] EXCEPT !.state = s]]
  BY <1>2
<1> QED
  BY <1>1, <1>3, <1>4 DEF TaskRow

\* On a row that exists it keeps the rows.
LEMMA SetTaskType ==
    ASSUME TypeOK, NEW t \in StepId, HasRow(t), NEW s \in TaskState \ {None}, SetTask(t, s)
    PROVE  SameRows
BY SetTaskRow DEF SameRows, HasRow

\* So does the start of another attempt.
LEMMA NextAttemptType ==
    ASSUME TypeOK, NEW t \in StepId, HasRow(t), NextAttempt(t)
    PROVE  /\ SameRows
           /\ tasks'[t].state = "READY"
           /\ \A u \in StepId : tasks'[u].result = tasks[u].result
           /\ \A u \in StepId \ {t} : tasks'[u] = tasks[u]
<1> DEFINE row == [tasks[t] EXCEPT !.state = "READY", !.attempt = tasks[t].attempt + 1]
<1>1. tasks \in [StepId -> TaskRow]
  BY DEF TypeOK, TaskRow
<1>2. tasks' = [tasks EXCEPT ![t] = row]
  BY <1>1 DEF NextAttempt
<1>3. tasks[t] \in TaskRow /\ tasks[t].attempt + 1 \in Nat \ {0}
  BY <1>1 DEF TaskRow
<1>4. row \in TaskRow /\ row.state = "READY" /\ row.result = tasks[t].result
  BY <1>3 DEF TaskRow, TaskState
<1> HIDE DEF row
<1>5. /\ tasks' \in [StepId -> TaskRow] /\ tasks'[t] = row
      /\ \A u \in StepId \ {t} : tasks'[u] = tasks[u]
  BY <1>1, <1>2, <1>4
<1> QED
  BY <1>4, <1>5 DEF SameRows, HasRow, None

\* An approved retry batch gives the task another attempt and a larger budget.
LEMMA ExtendAttemptsType ==
    ASSUME TypeOK, NEW t \in StepId, HasRow(t),
           tasks' = [tasks EXCEPT ![t].state = "READY", ![t].attempt = @ + 1,
                                  ![t].maxAttempts = @ + RetryBatch]
    PROVE  /\ SameRows
           /\ \A u \in StepId : tasks'[u].result = tasks[u].result
           /\ tasks'[t].state = "READY"
           /\ \A u \in StepId \ {t} : tasks'[u] = tasks[u]
<1> DEFINE row == [tasks[t] EXCEPT !.state = "READY", !.attempt = tasks[t].attempt + 1,
                                   !.maxAttempts = tasks[t].maxAttempts + RetryBatch]
<1>1. tasks \in [StepId -> TaskRow]
  BY DEF TypeOK, TaskRow
<1>2. tasks' = [tasks EXCEPT ![t] = row]
  BY <1>1
<1>3. /\ tasks[t] \in TaskRow
      /\ tasks[t].attempt + 1 \in Nat \ {0}
      /\ tasks[t].maxAttempts + RetryBatch \in Nat \ {0}
  BY <1>1, WorkflowAssumption DEF TaskRow
<1>4. row \in TaskRow /\ row.state = "READY" /\ row.result = tasks[t].result
  BY <1>3 DEF TaskRow, TaskState
<1> HIDE DEF row
<1>5. /\ tasks' \in [StepId -> TaskRow] /\ tasks'[t] = row
      /\ \A u \in StepId \ {t} : tasks'[u] = tasks[u]
  BY <1>1, <1>2, <1>4
<1> QED
  BY <1>4, <1>5 DEF SameRows, HasRow, None

\* A decided attempt leaves its result, and a state that says whether it failed.
LEMMA AgentResultRow ==
    ASSUME TypeOK, NEW r \in Result \ {None}, AgentResult(r), Current \in StepId
    PROVE  /\ tasks' \in [StepId -> TaskRow]
           /\ tasks'[Current].result = r
           /\ tasks'[Current].state = IF r = "FAILURE" THEN "FAILED" ELSE "SUCCEEDED"
           /\ \A t \in StepId \ {Current} : tasks'[t] = tasks[t]
<1> DEFINE s == IF r = "FAILURE" THEN "FAILED" ELSE "SUCCEEDED"
           row == [tasks[Current] EXCEPT !.result = r, !.state = s]
<1>1. tasks \in [StepId -> TaskRow]
  BY DEF TypeOK, TaskRow
<1>2. tasks' = [tasks EXCEPT ![Current] = row]
  BY <1>1 DEF AgentResult
<1>3. row \in TaskRow /\ row.result = r /\ row.state = s
  BY <1>1 DEF TaskRow, TaskState
<1> HIDE DEF row
<1> QED
  BY <1>1, <1>2, <1>3

\* A command given on a torn run is paid for.
LEMMA BeginType ==
    ASSUME TypeOK, Begin
    PROVE  budget' \in [crashes : 0 .. CrashBound, revisions : 0 .. ReviseBound,
                        commands : 0 .. TornBound]
<1>1. CASE torn
  <2>1. budget.commands \in 0 .. TornBound /\ budget.commands > 0 /\ TornBound \in Nat
    BY <1>1, WorkflowAssumption DEF TypeOK, Begin, Idle
  <2>2. budget.commands - 1 \in 0 .. TornBound
    BY <2>1
  <2> QED
    BY <1>1, <2>2 DEF TypeOK, Begin
<1>2. CASE ~torn
  BY <1>2 DEF TypeOK, Begin
<1> QED
  BY <1>1, <1>2

\* Steps that keep the rows, the questions, the route and the call within their types
\* keep the whole state well formed.
LEMMA SameRowsType ==
    ASSUME TypeOK, RowsExist, SameRows, UNCHANGED created,
           run' \in [state : RunState, outcome : {None, "SUCCEEDED", "CANCELLED"},
                     step : Nat \ {0}, route : Routes],
           pending' \in Seq(Question),
           call' \in [pc : Step, question : Question \cup {NoQuestion},
                      choice : Choice \cup {None}],
           torn' \in BOOLEAN,
           budget' \in [crashes : 0 .. CrashBound, revisions : 0 .. ReviseBound,
                        commands : 0 .. TornBound]
    PROVE  TypeOK'
BY DEF TypeOK, SameRows, TaskRow

\* A question about existing rows stays one.
LEMMA RowsOfKept ==
    ASSUME SameRows, NEW q \in Question, RowsOf(q)
    PROVE  RowsOf(q)'
BY DEF SameRows, RowsOf, HasRow, Question


Budget == [crashes : 0 .. CrashBound, revisions : 0 .. ReviseBound, commands : 0 .. TornBound]
RunRow == [state : RunState, outcome : {None, "SUCCEEDED", "CANCELLED"}, step : Nat \ {0},
           route : Routes]
Call   == [pc : Step, question : Question \cup {NoQuestion}, choice : Choice \cup {None}]

\* A step that returns from the call needs no rows for it afterwards.
LEMMA ReturnType ==
    ASSUME TypeOK, RowsExist, SameRows, UNCHANGED <<created, pending>>, Return,
           run' \in RunRow, torn' \in BOOLEAN, budget' \in Budget
    PROVE  TypeOK' /\ RowsExist'
<1>1. call' \in Call
  BY DEF Return, NoCall, Call, Step
<1>2. TypeOK'
  BY <1>1, SameRowsType DEF RunRow, Budget, Call, TypeOK
<1>3. RowsExist'
  BY RowsOfKept DEF TypeOK, RowsExist, Return, NoCall, Asking, Answering
<1> QED
  BY <1>2, <1>3

\* Nor does a step that asks about the current step, whose row exists.
LEMMA AskType ==
    ASSUME TypeOK, RowsExist, NEW q \in Question, RowsOf(q), Ask(q),
           UNCHANGED <<run, tasks, created, pending, budget>>, torn' \in BOOLEAN
    PROVE  TypeOK' /\ RowsExist'
<1>1. call' \in Call
  BY DEF Ask, Call, Step
<1>2. TypeOK'
  BY <1>1 DEF Call, TypeOK
<1>3. RowsExist'
  BY DEF RowsExist, Ask, RowsOf, HasRow, Asking, Answering
<1> QED
  BY <1>2, <1>3

\* Unchanged tables have the same rows.
LEMMA SameTasks ==
    ASSUME TypeOK, UNCHANGED tasks
    PROVE  SameRows
BY DEF TypeOK, SameRows, TaskRow

\* setting the state of the run, or finishing it, keeps its row well formed.
LEMMA RunType ==
    ASSUME TypeOK
    PROVE  /\ run \in RunRow
           /\ \A s \in RunState : SetRun(s) => run' \in RunRow
           /\ \A o \in {"SUCCEEDED", "CANCELLED"} : FinishRun(o) => run' \in RunRow
           /\ [run EXCEPT !.state = "ACTIVE", !.step = @ + 1] \in RunRow
<1>1. run \in RunRow
  BY DEF TypeOK, RunRow
<1>2. run.step + 1 \in Nat \ {0}
  BY <1>1 DEF RunRow
<1> QED
  BY <1>1, <1>2 DEF RunRow, SetRun, FinishRun, RunState

\* Moving on within a call, or returning from it, keeps the call well formed.
LEMMA CallType ==
    ASSUME TypeOK
    PROVE  /\ call \in Call
           /\ Return => call' \in Call /\ call'.pc = "idle"
           /\ \A p \in Step : Goto(p) => /\ call' \in Call /\ call'.pc = p
                                        /\ UNCHANGED <<call.question, call.choice>>
BY DEF TypeOK, Call, Return, NoCall, Goto, Step

\* A tick keeps the rows: it only marks some of them FAILED.
LEMMA TickType ==
    ASSUME TypeOK, RowsExist, NEW lapsed \in SUBSET RunningTasks, Tick(lapsed)
    PROVE  TypeOK' /\ RowsExist'
<1>1. SameRows
  <2>1. tasks \in [StepId -> TaskRow]
    BY DEF TypeOK, TaskRow
  <2> DEFINE new(t) == IF t \in lapsed THEN [tasks[t] EXCEPT !.state = "FAILED"] ELSE tasks[t]
  <2>2. \A t \in StepId : new(t) \in TaskRow
    BY <2>1 DEF TaskRow, TaskState
  <2>3. tasks' = [t \in StepId |-> new(t)]
    BY DEF Tick
  <2>4. ASSUME NEW t \in StepId PROVE new(t).state # None <=> tasks[t].state # None
    <3>1. CASE t \in lapsed
      <4>1. new(t).state = "FAILED"
        BY <2>1, <3>1 DEF TaskRow
      <4>2. tasks[t].state = "RUNNING"
        BY <3>1 DEF RunningTasks
      <4> QED
        BY <4>1, <4>2 DEF None
    <3>2. CASE t \notin lapsed
      BY <3>2
    <3> QED
      BY <3>1, <3>2
  <2> HIDE DEF new
  <2>5. /\ tasks' \in [StepId -> TaskRow]
        /\ \A t \in StepId : tasks'[t] = new(t)
    BY <2>2, <2>3
  <2> QED
    BY <2>4, <2>5 DEF SameRows
<1>2. budget' \in Budget
  BY BeginType DEF Tick, Budget
<1>3. call' \in Call /\ call'.pc \in {"idle", "ticked"}
  BY CallType DEF Tick, Step
<1>4. TypeOK'
  BY <1>1, <1>2, <1>3, SameRowsType DEF Tick, TypeOK, Call, Budget
<1>5. RowsExist'
  BY <1>1, <1>3, RowsOfKept DEF Tick, TypeOK, RowsExist, Asking, Answering
<1> QED
  BY <1>4, <1>5


\* advanceAfterSuccess asks about the current step, or moves the run on and returns.
LEMMA AdvanceType ==
    ASSUME TypeOK, RowsExist, ~PastEnd, HasRow(Current), AdvanceAfterSuccess,
           UNCHANGED <<tasks, created, pending, budget>>, torn' \in BOOLEAN
    PROVE  TypeOK' /\ RowsExist'
<1>1. CASE Ask(About(Current, "ROUTE_STEP_APPROVAL")) /\ UNCHANGED run
  BY <1>1, CurrentStep, AboutType, AskType DEF Trigger
<1>2. CASE Return /\ run' \in RunRow
  BY <1>2, SameTasks, ReturnType DEF TypeOK, Budget
<1>3. AdvanceAfterSuccess => \/ Ask(About(Current, "ROUTE_STEP_APPROVAL")) /\ UNCHANGED run
                             \/ Return /\ run' \in RunRow
  BY RunType DEF AdvanceAfterSuccess
<1> QED
  BY <1>1, <1>2, <1>3

\* executeTask, up to the start of the attempt.
LEMMA ExecuteTaskType ==
    ASSUME TypeOK, RowsExist, ExecuteTask
    PROVE  TypeOK' /\ RowsExist'
<1>1. ASSUME NEW s \in TaskState \ {None}, Reads(s)
      PROVE  ~PastEnd /\ Current \in StepId /\ HasRow(Current)
  BY <1>1, CurrentStep DEF Reads, HasRow
<1>2. CASE NoRemainingSteps
  BY <1>2, RunType, SameTasks, ReturnType DEF NoRemainingSteps, TypeOK, Budget
<1>3. CASE CreateTask
  <2>1. ~PastEnd /\ Current \in StepId /\ tasks[Current].state = None
    BY <1>3, CurrentStep DEF CreateTask, Reads
  <2> DEFINE cur == Current
  <2>2. SetTask(cur, "READY") /\ created' = Append(created, cur)
    BY <1>3 DEF CreateTask
  <2>3. cur \in StepId /\ tasks[cur].state = None
    BY <2>1
  <2> HIDE DEF cur
  <2>4. /\ tasks' \in [StepId -> TaskRow]
        /\ tasks'[cur].state = "READY"
        /\ \A t \in StepId \ {cur} : tasks'[t] = tasks[t]
    BY <2>2, <2>3, SetTaskRow DEF TaskState
  <2>5. cur \notin ToSet(created)
    BY <2>3 DEF TypeOK
  <2>6. created' \in Seq(StepId) /\ IsInjective(created') /\ ToSet(created') = ToSet(created) \cup {cur}
    BY <2>2, <2>3, <2>5, AppendInjectiveSet DEF TypeOK
  <2>7. \A t \in StepId : t \in ToSet(created') <=> tasks'[t].state # None
    BY <2>3, <2>4, <2>6 DEF TypeOK, None
  <2>8. TypeOK'
    BY <1>3, <2>4, <2>6, <2>7 DEF CreateTask, TypeOK, TaskRow
  <2>9. ASSUME NEW q \in Question, RowsOf(q) PROVE RowsOf(q)'
    BY <2>3, <2>4, <2>9 DEF RowsOf, HasRow, None, Question
  <2>10. RowsExist'
    BY <1>3, <2>9 DEF CreateTask, Reads, At, TypeOK, RowsExist, Asking, Answering
  <2> QED
    BY <2>8, <2>10
<1>4. CASE PreparationFails
  <2>1. ~PastEnd /\ Current \in StepId /\ HasRow(Current)
    BY <1>1, <1>4 DEF PreparationFails, TaskState, None
  <2>2. UNCHANGED <<run, tasks, created, pending, torn, budget>>
    BY <1>4 DEF PreparationFails
  <2>3. \/ Ask(About(Current, "TASK_PREPARATION_FAILED")) \/ AskUpstream \/ Return
    BY <1>4 DEF PreparationFails
  <2>4. CASE Ask(About(Current, "TASK_PREPARATION_FAILED"))
    BY <2>1, <2>2, <2>4, AboutType, AskType DEF Trigger, TypeOK
  <2>5. CASE AskUpstream
    BY <2>1, <2>2, <2>5, UpstreamQuestionType, AskType DEF AskUpstream, TypeOK
  <2>6. CASE Return
    BY <2>2, <2>6, SameTasks, RunType, ReturnType DEF TypeOK, Budget
  <2> QED
    BY <2>3, <2>4, <2>5, <2>6
<1>5. CASE UpstreamImplementationMissing
  <2>1. ~PastEnd /\ Current \in StepId /\ HasRow(Current)
    BY <1>1, <1>5 DEF UpstreamImplementationMissing, TaskState, None
  <2> QED
    BY <1>5, <2>1, UpstreamQuestionType, AskType
       DEF UpstreamImplementationMissing, AskUpstream, TypeOK
<1>6. CASE StartTask
  <2>1. ~PastEnd /\ Current \in StepId /\ HasRow(Current)
    BY <1>1, <1>6 DEF StartTask, TaskState, None
  <2>2. SameRows
    BY <1>6, <2>1, SetTaskType DEF StartTask, TaskState, None
  <2>3. call' \in Call /\ call'.pc = "agent"
    BY <1>6, CallType DEF StartTask, Step
  <2>4. TypeOK'
    BY <1>6, <2>2, <2>3, SameRowsType DEF StartTask, TypeOK, Call
  <2>5. ~PastEnd' /\ HasRow(Current)'
    BY <1>6, <2>1, <2>2 DEF StartTask, PastEnd, HasRow, Current, SameRows
  <2>6. RowsExist'
    BY <1>6, <2>2, <2>3, <2>5, RowsOfKept DEF StartTask, TypeOK, RowsExist, Asking, Answering
  <2> QED
    BY <2>4, <2>6
<1>7. CASE RetryReady
  <2>1. Current \in StepId /\ HasRow(Current)
    BY <1>1, <1>7 DEF RetryReady, TaskState, None
  <2> QED
    BY <1>7, <2>1, NextAttemptType, RunType, ReturnType DEF RetryReady, TypeOK, Budget
<1>8. CASE CreateRetryExhaustedApproval
  <2>1. Current \in StepId /\ HasRow(Current)
    BY <1>1, <1>8 DEF CreateRetryExhaustedApproval, TaskState, None
  <2>2. SameRows
    BY <1>8, <2>1, SetTaskType DEF CreateRetryExhaustedApproval, TaskState, None
  <2> DEFINE q == [About(Current, "TASK_RETRY_EXHAUSTED")
                      EXCEPT !.attempt = tasks[Current].attempt,
                             !.maxAttempts = tasks[Current].maxAttempts]
  <2>3. q \in Question /\ RowsOf(q) /\ pending' = Append(pending, q)
    BY <1>8, <2>1 DEF CreateRetryExhaustedApproval, TypeOK, About, Question, RowsOf, HasRow, Trigger
  <2> HIDE DEF q
  <2>4. pending' \in Seq(Question) /\ \A i \in DOMAIN pending' : RowsOf(pending'[i])
    BY <2>3 DEF TypeOK, RowsExist
  <2>5. call' \in Call /\ call'.pc = "idle" /\ run' \in RunRow
    BY <1>8, CallType, RunType DEF CreateRetryExhaustedApproval, RunState
  <2>6. TypeOK'
    BY <1>8, <2>2, <2>4, <2>5, SameRowsType
       DEF CreateRetryExhaustedApproval, TypeOK, Call, RunRow
  <2>7. RowsExist'
    BY <2>2, <2>4, <2>5, RowsOfKept DEF RowsExist, Asking, Answering
  <2> QED
    BY <2>6, <2>7
<1>9. CASE NothingToDo
  BY <1>9, SameTasks, RunType, ReturnType DEF NothingToDo, TypeOK, Budget
<1>10. CASE AlreadySucceeded
  <2>1. ~PastEnd /\ HasRow(Current)
    BY <1>1, <1>10 DEF AlreadySucceeded, TaskState, None
  <2> QED
    BY <1>10, <2>1, AdvanceType DEF AlreadySucceeded, TypeOK
<1>11. CASE AgentError
  <2>1. Current \in StepId /\ HasRow(Current)
    BY <1>11, CurrentStep DEF AgentError, At, RowsExist
  <2>2. SameRows
    BY <1>11, <2>1, SetTaskType DEF AgentError, TaskState, None
  <2> QED
    BY <1>11, <2>2, RunType, ReturnType DEF AgentError, TypeOK, Budget
<1>12. CASE AfterCommit
  <2>1. ~PastEnd /\ HasRow(Current) /\ Current \in StepId /\ tasks[Current].result \in Result \ {None}
    BY <1>12, CurrentStep DEF AfterCommit, At, RowsExist, TypeOK
  <2>2. torn' \in BOOLEAN /\ UNCHANGED <<tasks, created, pending, budget>>
    BY <1>12 DEF AfterCommit, TypeOK
  <2>3. \/ Return /\ UNCHANGED run
        \/ Ask(About(Current, "AGENT_DECISION_REQUIRED")) /\ UNCHANGED run
        \/ AdvanceAfterSuccess
    BY <1>12, <2>1 DEF AfterCommit, Result
  <2>4. CASE Return /\ UNCHANGED run
    BY <2>2, <2>4, SameTasks, RunType, ReturnType DEF TypeOK, Budget
  <2>5. CASE Ask(About(Current, "AGENT_DECISION_REQUIRED")) /\ UNCHANGED run
    BY <2>1, <2>2, <2>5, AboutType, AskType DEF Trigger
  <2>6. CASE AdvanceAfterSuccess
    BY <2>1, <2>2, <2>6, AdvanceType
  <2> QED
    BY <2>3, <2>4, <2>5, <2>6
<1>13. CASE AfterCommitFails
  BY <1>13, SameTasks, RunType, ReturnType DEF AfterCommitFails, TypeOK, Budget
<1>14. ASSUME NEW r \in Result \ {None}, AgentResult(r)
       PROVE  TypeOK' /\ RowsExist'
  <2>1. ~PastEnd /\ Current \in StepId /\ HasRow(Current)
    BY <1>14, CurrentStep DEF AgentResult, At, RowsExist
  <2>2. SameRows /\ tasks'[Current].result = r
    BY <1>14, <2>1, AgentResultRow DEF SameRows, HasRow, None
  <2>3. call' \in Call /\ call'.pc = "committed"
    BY <1>14, CallType DEF AgentResult, Step
  <2>4. TypeOK'
    BY <1>14, <2>2, <2>3, SameRowsType DEF AgentResult, TypeOK, Call
  <2>5. ~PastEnd' /\ HasRow(Current)' /\ (tasks[Current].result # None)'
    BY <1>14, <2>1, <2>2 DEF AgentResult, PastEnd, HasRow, Current, SameRows
  <2>6. RowsExist'
    BY <1>14, <2>2, <2>3, <2>5, RowsOfKept DEF AgentResult, TypeOK, RowsExist, Asking, Answering
  <2> QED
    BY <2>4, <2>6
<1> QED
  BY <1>2, <1>3, <1>4, <1>5, <1>6, <1>7, <1>8, <1>9, <1>10, <1>11, <1>12, <1>13, <1>14
     DEF ExecuteTask


\* The three statements of createApproval.
LEMMA CreateApprovalType ==
    ASSUME TypeOK, RowsExist, CreateApproval
    PROVE  TypeOK' /\ RowsExist'
<1>1. call.pc \in Asking /\ call.question \in Question /\ RowsOf(call.question)
  BY DEF CreateApproval, InsertApproval, RunWaits, TaskWaits, At, RowsExist, Asking
<1>2. CASE InsertApproval
  <2>1. call' \in Call /\ call'.pc = "asked" /\ UNCHANGED call.question
    BY <1>2, CallType DEF InsertApproval, Step
  <2>2. pending' \in Seq(Question) /\ \A i \in DOMAIN pending' : RowsOf(pending'[i])
    BY <1>1, <1>2 DEF InsertApproval, TypeOK, RowsExist
  <2>3. TypeOK'
    BY <1>2, <2>1, <2>2 DEF InsertApproval, TypeOK, Call
  <2>4. RowsExist'
    BY <1>1, <1>2, <2>1, <2>2 DEF InsertApproval, RowsExist, RowsOf, HasRow, Asking, Answering
  <2> QED
    BY <2>3, <2>4
<1>3. CASE RunWaits
  <2>1. call' \in Call /\ call'.pc = "waiting" /\ UNCHANGED call.question
    BY <1>3, CallType DEF RunWaits, Step
  <2>2. run' \in RunRow
    BY <1>3, RunType DEF RunWaits, RunState
  <2>3. TypeOK'
    BY <1>3, <2>1, <2>2 DEF RunWaits, TypeOK, Call, RunRow
  <2>4. RowsExist'
    BY <1>1, <1>3, <2>1 DEF RunWaits, RowsExist, RowsOf, HasRow, Asking, Answering
  <2> QED
    BY <2>3, <2>4
<1>4. CASE TaskWaits
  <2>1. call.question.task \in StepId /\ HasRow(call.question.task)
    BY <1>1 DEF Question, RowsOf
  <2>2. SameRows
    BY <1>4, <2>1, SetTaskType DEF TaskWaits, TaskState, None
  <2> QED
    BY <1>4, <2>2, RunType, ReturnType DEF TaskWaits, TypeOK, Budget
<1> QED
  BY <1>2, <1>3, <1>4 DEF CreateApproval

\* A step that goes on with an answer keeps the question and the choice of the call.
LEMMA AnswerType ==
    ASSUME TypeOK, RowsExist, call.pc \in Answering, SameRows, UNCHANGED <<created, pending>>,
           run' \in RunRow, torn' \in BOOLEAN, budget' \in Budget,
           NEW p \in (Answering \cup {"finishing"}), Goto(p)
    PROVE  TypeOK' /\ RowsExist'
<1>1. call' \in Call /\ call'.pc = p /\ UNCHANGED <<call.question, call.choice>>
  BY CallType DEF Step, Answering
<1>2. TypeOK'
  BY <1>1, SameRowsType DEF RunRow, Budget, Call, TypeOK
<1>3. call'.question \in Question /\ RowsOf(call.question)'
  BY <1>1, RowsOfKept DEF RowsExist, RowsOf, HasRow, Question
<1>4. RowsExist'
  BY <1>1, <1>3, RowsOfKept DEF TypeOK, RowsExist, Asking, Answering
<1> QED
  BY <1>2, <1>4

\* What follows an answer.
LEMMA FollowAnswerType ==
    ASSUME TypeOK, RowsExist, FollowAnswer
    PROVE  TypeOK' /\ RowsExist'
<1> DEFINE q == call.question
<1>1. ASSUME call.pc \in Answering
      PROVE  q \in Question /\ q.task \in StepId /\ HasRow(q.task)
  BY <1>1 DEF RowsExist, RowsOf, Question
<1>2. run \in RunRow /\ torn \in BOOLEAN /\ budget \in Budget
  BY DEF TypeOK, RunRow, Budget
<1>3. CASE ReactivateRun
  <2>1. run' \in RunRow
    BY <1>3, RunType DEF ReactivateRun, RunState
  <2> QED
    BY <1>2, <1>3, <2>1, SameTasks, AnswerType DEF ReactivateRun, At, Answering
<1>4. CASE MarkTaskSucceeded
  <2>1. SameRows
    BY <1>1, <1>4, SetTaskType DEF MarkTaskSucceeded, At, Answering, TaskState, None
  <2> QED
    BY <1>2, <1>4, <2>1, AnswerType DEF MarkTaskSucceeded, At, Answering
<1>5. CASE CancelTask
  <2>1. SameRows
    BY <1>1, <1>5, SetTaskType DEF CancelTask, At, Answering, TaskState, None
  <2> QED
    BY <1>2, <1>5, <2>1, AnswerType DEF CancelTask, At, Answering
<1>6. CASE FinishDeclinedRun
  BY <1>2, <1>6, RunType, SameTasks, ReturnType DEF FinishDeclinedRun
<1>7. CASE ReDispatch
  <2>1. SameRows
    BY <1>1, <1>7, NextAttemptType DEF ReDispatch, At, Answering
  <2> QED
    BY <1>2, <1>7, <2>1, ReturnType DEF ReDispatch
<1>8. CASE UpstreamTargetMissing
  BY <1>2, <1>8, SameTasks, ReturnType DEF UpstreamTargetMissing
<1>9. CASE ReworkUpstream
  <2>1. q.upstream \in StepId /\ HasRow(q.upstream)
    BY <1>1, <1>2, <1>9, WorkflowAssumption
       DEF ReworkUpstream, UpstreamInRoute, At, Answering, RowsExist, RowsOf, RunRow, ToSet
  <2>2. SameRows
    BY <1>9, <2>1, NextAttemptType DEF ReworkUpstream
  <2> QED
    BY <1>2, <1>9, <2>2, AnswerType DEF ReworkUpstream, At, Answering
<1>10. CASE RewindTask
  <2>1. SameRows
    BY <1>1, <1>10, SetTaskType DEF RewindTask, At, Answering, TaskState, None
  <2> QED
    BY <1>2, <1>10, <2>1, AnswerType DEF RewindTask, At, Answering
<1>11. CASE RewindRun
  <2>1. PICK i \in DOMAIN run.route : run' = [run EXCEPT !.state = "ACTIVE", !.step = i]
    BY <1>11 DEF RewindRun
  <2>2. i \in Nat \ {0}
    BY <1>2, WorkflowAssumption DEF RunRow
  <2>3. run' \in RunRow
    BY <1>2, <2>1, <2>2 DEF RunRow, RunState
  <2> QED
    BY <1>2, <1>11, <2>3, SameTasks, ReturnType DEF RewindRun
<1>12. CASE Accept
  <2>1. run' \in RunRow
    BY <1>12, RunType DEF Accept
  <2>2. CASE Goto("finishing")
    BY <1>2, <1>12, <2>1, <2>2, SameTasks, AnswerType DEF Accept, At, Answering
  <2>3. CASE Return
    BY <1>2, <1>12, <2>1, <2>3, SameTasks, ReturnType DEF Accept
  <2> QED
    BY <1>12, <2>2, <2>3 DEF Accept
<1>13. CASE FinishAcceptedRun
  BY <1>2, <1>13, RunType, SameTasks, ReturnType DEF FinishAcceptedRun
<1> QED
  BY <1>3, <1>4, <1>5, <1>6, <1>7, <1>8, <1>9, <1>10, <1>11, <1>12, <1>13 DEF FollowAnswer

\* What humans do.
LEMMA HumanType ==
    ASSUME TypeOK, RowsExist, Human
    PROVE  TypeOK' /\ RowsExist'
<1>1. run \in RunRow /\ torn \in BOOLEAN /\ budget \in Budget
  BY DEF TypeOK, RunRow, Budget
<1>2. ASSUME NEW i \in DOMAIN pending, pending' = RemoveAt(pending, i)
      PROVE  pending' \in Seq(Question) /\ \A j \in DOMAIN pending' : RowsOf(pending'[j])
  BY <1>2, RemoveAtElements DEF TypeOK, RowsExist
<1>3. ASSUME NEW i \in DOMAIN pending
      PROVE  /\ pending[i] \in Question /\ RowsOf(pending[i])
             /\ pending[i].task \in StepId /\ HasRow(pending[i].task)
  <2>1. pending[i] \in Question
    BY DEF TypeOK
  <2>2. RowsOf(pending[i])
    BY DEF RowsExist
  <2> QED
    BY <2>1, <2>2 DEF RowsOf, Question
<1>4. ASSUME NEW i \in DOMAIN pending, NEW c \in Choice, ResolveRetryExhausted(i, c)
      PROVE  TypeOK' /\ RowsExist'
  <2>1. SameRows
    <3>1. CASE c \in Declining
      BY <1>3, <1>4, <3>1, SetTaskType DEF ResolveRetryExhausted, TaskState, None
    <3>2. CASE c \notin Declining
      BY <1>3, <1>4, <3>2, ExtendAttemptsType DEF ResolveRetryExhausted
    <3> QED
      BY <3>1, <3>2
  <2>2. run' \in RunRow
    BY <1>4, RunType DEF ResolveRetryExhausted, RunState
  <2>3. budget' \in Budget
    BY <1>4, BeginType DEF ResolveRetryExhausted, Answers, Budget
  <2>4. call.pc = "idle" /\ call' = call
    BY <1>4 DEF ResolveRetryExhausted, Answers, Begin, Idle, At
  <2>5. pending' \in Seq(Question) /\ \A j \in DOMAIN pending' : RowsOf(pending'[j])
    BY <1>2, <1>4 DEF ResolveRetryExhausted
  <2>6. TypeOK'
    BY <1>4, <2>1, <2>2, <2>3, <2>4, <2>5, SameRowsType
       DEF ResolveRetryExhausted, TypeOK, Budget, RunRow
  <2>7. RowsExist'
    BY <2>1, <2>4, <2>5, RowsOfKept DEF RowsExist, Asking, Answering
  <2> QED
    BY <2>6, <2>7
<1>5. ASSUME NEW i \in DOMAIN pending, NEW c \in Choice, ResolveApproval(i, c)
      PROVE  TypeOK' /\ RowsExist'
  <2>1. pending' \in Seq(Question) /\ \A j \in DOMAIN pending' : RowsOf(pending'[j])
    BY <1>2, <1>5 DEF ResolveApproval
  <2>2. call' = [pc |-> "resolved", question |-> pending[i], choice |-> c]
    BY <1>5 DEF ResolveApproval
  <2>3. call' \in Call
    BY <1>3, <2>2 DEF Call, Step
  <2>4. budget' \in Budget /\ c \in Options(pending[i].trigger)
    BY <1>5, BeginType DEF ResolveApproval, Answers, Budget
  <2>5. TypeOK'
    BY <1>5, <2>1, <2>3, <2>4 DEF ResolveApproval, TypeOK, Call, Budget
  <2>6. UNCHANGED tasks
    BY <1>5 DEF ResolveApproval
  <2>7. RowsExist'
    BY <1>3, <2>1, <2>2, <2>4, <2>6 DEF RowsExist, RowsOf, HasRow, Asking, Answering
  <2> QED
    BY <2>5, <2>7
<1>6. ASSUME NEW s \in RunState, Control, SetRun(s), UNCHANGED <<tasks, created, pending, call, torn>>
      PROVE  TypeOK' /\ RowsExist'
  <2>1. budget' \in Budget
    BY <1>1, <1>6, BeginType DEF Control, Budget
  <2>2. run' \in RunRow /\ run'.step = run.step /\ run'.route = run.route
    BY <1>6, RunType DEF SetRun, TypeOK
  <2>3. TypeOK'
    BY <1>6, <2>1, <2>2 DEF TypeOK, Budget, RunRow
  <2>4. RowsExist'
    BY <1>6, <2>2 DEF RowsExist, RowsOf, HasRow, PastEnd, Current
  <2> QED
    BY <2>3, <2>4
<1>7. CASE PauseRun
  BY <1>6, <1>7 DEF PauseRun, RunState
<1>8. CASE ResumeRun
  BY <1>6, <1>8 DEF ResumeRun, RunState
<1>9. ASSUME NEW r \in Routes, ReviseRun(r)
      PROVE  TypeOK' /\ RowsExist'
  <2> DEFINE revised == [run EXCEPT !.state = "ACTIVE", !.route = r]
  <2>1. run' = [revised EXCEPT !.step = 1]
    BY <1>1, <1>9 DEF ReviseRun, RunRow
  <2>2. run' \in RunRow
    <3>1. revised \in RunRow
      BY <1>1, <1>9 DEF RunRow, RunState
    <3>2. 1 \in Nat \ {0}
      OBVIOUS
    <3> QED
      BY <2>1, <3>1, <3>2 DEF RunRow
  <2>3. budget' \in Budget
    <3>1. budget.revisions - 1 \in 0 .. ReviseBound
      BY <1>1, <1>9, WorkflowAssumption DEF ReviseRun, Budget
    <3>2. torn => budget.commands - 1 \in 0 .. TornBound
      BY <1>1, <1>9, WorkflowAssumption DEF ReviseRun, Idle, Budget
    <3> QED
      BY <1>1, <1>9, <3>1, <3>2 DEF ReviseRun, Budget
  <2>4. TypeOK'
    BY <1>1, <1>9, <2>2, <2>3 DEF ReviseRun, TypeOK, Budget, RunRow
  <2>5. RowsExist'
    BY <1>9 DEF ReviseRun, Idle, At, RowsExist, RowsOf, HasRow, Asking, Answering
  <2> QED
    BY <2>4, <2>5
<1> QED
  BY <1>4, <1>5, <1>7, <1>8, <1>9 DEF Human

\* Every step keeps the tables well formed and the rows that commands rely on.
LEMMA NextTypeOK ==
    TypeOK /\ RowsExist /\ [Next]_vars => TypeOK' /\ RowsExist'
<1> SUFFICES ASSUME TypeOK, RowsExist, [Next]_vars PROVE TypeOK' /\ RowsExist'
  OBVIOUS
<1>1. ASSUME NEW lapsed \in SUBSET RunningTasks, Tick(lapsed) PROVE TypeOK' /\ RowsExist'
  BY <1>1, TickType
<1>2. CASE CallStep
  BY <1>2, ExecuteTaskType, CreateApprovalType, FollowAnswerType DEF CallStep
<1>3. CASE Human
  BY <1>3, HumanType
<1>4. CASE Crash
  <2>1. budget' \in Budget
    <3>1. budget \in Budget /\ budget.crashes > 0
      BY <1>4 DEF Crash, TypeOK, Budget
    <3>2. budget.crashes - 1 \in 0 .. CrashBound
      BY <3>1, WorkflowAssumption DEF Budget
    <3> QED
      BY <1>4, <3>1, <3>2 DEF Crash, Budget
  <2>2. torn' \in BOOLEAN
    BY <1>4 DEF Crash, TypeOK
  <2> QED
    BY <1>4, <2>1, <2>2, RunType, SameTasks, ReturnType DEF Crash
<1>5. CASE UNCHANGED vars
  BY <1>5 DEF vars, TypeOK, RowsExist, RowsOf, HasRow, PastEnd, Current
<1> QED
  BY <1>1, <1>2, <1>3, <1>4, <1>5 DEF Next, Stop

\* The initial state is well formed.
LEMMA InitTypeOK == Init => TypeOK /\ RowsExist
<1> SUFFICES ASSUME Init PROVE TypeOK /\ RowsExist
  OBVIOUS
<1>1. run \in RunRow
  BY WorkflowAssumption DEF Init, RunRow, RunState
<1>2. tasks \in [StepId -> TaskRow]
  BY WorkflowAssumption DEF Init, TaskRow, TaskState, Result
<1>3. created \in Seq(StepId) /\ IsInjective(created) /\ ToSet(created) = {}
  BY DEF Init, IsInjective, ToSet
<1>4. pending \in Seq(Question) /\ DOMAIN pending = {}
  BY DEF Init
<1>5. call \in Call /\ call.pc = "idle"
  BY DEF Init, NoCall, Call, Step
<1>6. torn \in BOOLEAN /\ budget \in Budget
  <2>1. CrashBound \in 0 .. CrashBound /\ ReviseBound \in 0 .. ReviseBound /\ TornBound \in 0 .. TornBound
    BY WorkflowAssumption
  <2> QED
    BY <2>1 DEF Init, Budget
<1>7. TypeOK
  BY <1>1, <1>2, <1>3, <1>4, <1>5, <1>6 DEF Init, TypeOK, RunRow, TaskRow, Call, Budget
<1>8. RowsExist
  BY <1>4, <1>5 DEF RowsExist, Asking, Answering
<1> QED
  BY <1>7, <1>8

\* Type correctness: the tables, the local variables of the command in progress and the
\* bounds stay well formed, and every row of tasks is listed once, in created_at order.
THEOREM TypeCorrect == Spec => []TypeOK
<1>1. TypeOK /\ RowsExist /\ [Next]_vars => (TypeOK /\ RowsExist)'
  BY NextTypeOK
<1> QED
  BY <1>1, InitTypeOK, PTL DEF Spec


-----------------------------------------------------------------------------
(* The inductive invariant.  Once a question or an answer was left half written *)
(* the run is torn for good, so a step need only keep a coherent run coherent.  *)

\* A run stays torn.
LEMMA TornStays == [Next]_vars /\ torn => torn'
BY DEF Next, vars, Tick, CallStep, ExecuteTask, NoRemainingSteps, CreateTask, PreparationFails,
       UpstreamImplementationMissing, StartTask, RetryReady, CreateRetryExhaustedApproval,
       NothingToDo, AlreadySucceeded, AgentError, AfterCommit, AfterCommitFails, AgentResult,
       CreateApproval, InsertApproval, RunWaits, TaskWaits, FollowAnswer, ReactivateRun,
       MarkTaskSucceeded, CancelTask, FinishDeclinedRun, ReDispatch, UpstreamTargetMissing,
       ReworkUpstream, RewindTask, RewindRun, Accept, FinishAcceptedRun, Human,
       ResolveRetryExhausted, ResolveApproval, PauseRun, ResumeRun, ReviseRun, Crash, Stop

\* The steps before the current one are steps of the route other than it.
LEMMA PassedBeforeCurrent ==
    ASSUME TypeOK, ~PastEnd, NEW i \in 1 .. (run.step - 1)
    PROVE  i \in DOMAIN run.route /\ run.route[i] \in StepId /\ run.route[i] # Current
<1>1. run.route \in Seq(StepId) /\ IsInjective(run.route) /\ run.step \in Nat \ {0}
  BY WorkflowAssumption DEF TypeOK
<1>2. run.step \in 1 .. Len(run.route) /\ i \in 1 .. Len(run.route) /\ i # run.step
  BY <1>1 DEF PastEnd
<1> QED
  BY <1>1, <1>2 DEF IsInjective, Current

\* A step that changes no task but the current one, and moves the run nowhere, keeps
\* the passed steps done.
LEMMA PassedKept ==
    ASSUME TypeOK, PassedIsDone, ~PastEnd, run.state # "TERMINAL",
           run'.step = run.step, run'.route = run.route,
           ~(run'.state = "TERMINAL" /\ run'.outcome = "SUCCEEDED"),
           \A t \in StepId \ {Current} : tasks'[t] = tasks[t],
           call.pc \notin {"rewinding", "rewound"}
    PROVE  PassedIsDone'
BY PassedBeforeCurrent DEF PassedIsDone, Passed, Completed

\* advanceAfterSuccess with a completed task asks for the approval of a gated step, or
\* passes a step that has none.
LEMMA AdvanceCoherent ==
    ASSUME TypeOK, RowsExist, Coherent, ~PastEnd, AdvanceAfterSuccess,
           call.pc \in {"ticked", "committed"}, run.state = "ACTIVE",
           Completed(Current), UNCHANGED <<tasks, pending>>
    PROVE  Coherent'
<1>1. Current \in StepId /\ tasks[Current].state = "SUCCEEDED" /\ tasks[Current].result = "COMPLETED"
  BY CurrentStep DEF Completed
<1>2. pending = <<>>
  BY DEF Coherent, CallQuestions
<1>3. run.step \in Nat \ {0} /\ Len(run.route) \in Nat /\ run.step <= Len(run.route)
  BY WorkflowAssumption DEF TypeOK, PastEnd
<1>4. CASE Current \in Gated /\ Ask(About(Current, "ROUTE_STEP_APPROVAL")) /\ UNCHANGED run
  <2>1. call'.pc = "asking" /\ call'.question = About(Current, "ROUTE_STEP_APPROVAL")
    BY <1>4 DEF Ask
  <2>2. RunStateAt' /\ IdleQuestions'
    BY <1>4, <2>1 DEF Coherent, RunStateAt, IdleQuestions, Answering
  <2>3. CallQuestions'
    BY <1>1, <1>2, <1>4, <2>1 DEF CallQuestions, Justified, About, PastEnd, Current
  <2>4. SucceededIsCompleted'
    BY <1>1, <1>4, <2>1 DEF Coherent, SucceededIsCompleted, Undecided, Asking, Current
  <2>5. PassedIsDone'
    BY <1>4, PassedKept DEF Coherent
  <2> QED
    BY <2>2, <2>3, <2>4, <2>5 DEF Coherent
<1>5. CASE Current \notin Gated /\ run.step = Len(run.route) /\ FinishRun("SUCCEEDED") /\ Return
  <2>1. call'.pc = "idle"
    BY <1>5 DEF Return, NoCall
  <2>2. run'.state = "TERMINAL" /\ run'.step = run.step /\ run'.route = run.route
    BY <1>5 DEF FinishRun, TypeOK
  <2>3. RunStateAt' /\ IdleQuestions' /\ CallQuestions'
    BY <1>2, <1>3, <2>1, <2>2 DEF Coherent, RunStateAt, IdleQuestions, CallQuestions, Asking, Answering
  <2>4. SucceededIsCompleted'
    BY <1>1, <2>1 DEF Coherent, SucceededIsCompleted, Undecided, Asking
  <2>5. PassedIsDone'
    BY <1>1, <1>3, <1>5, <2>1, <2>2 DEF Coherent, PassedIsDone, Passed, Completed, Current
  <2> QED
    BY <2>3, <2>4, <2>5 DEF Coherent
<1>6. CASE /\ Current \notin Gated /\ run.step < Len(run.route)
           /\ run' = [run EXCEPT !.state = "ACTIVE", !.step = @ + 1]
           /\ Return
  <2>1. call'.pc = "idle"
    BY <1>6 DEF Return, NoCall
  <2>2. run'.state = "ACTIVE" /\ run'.step = run.step + 1 /\ run'.route = run.route
    BY <1>6 DEF TypeOK
  <2>3. RunStateAt' /\ IdleQuestions' /\ CallQuestions'
    BY <1>2, <1>3, <2>1, <2>2 DEF Coherent, RunStateAt, IdleQuestions, CallQuestions, Asking, Answering
  <2>4. SucceededIsCompleted'
    BY <1>1, <2>1 DEF Coherent, SucceededIsCompleted, Undecided, Asking
  <2>5. PassedIsDone'
    BY <1>1, <1>3, <2>1, <2>2 DEF Coherent, PassedIsDone, Passed, Completed, Current
  <2> QED
    BY <2>3, <2>4, <2>5 DEF Coherent
<1> QED
  BY <1>4, <1>5, <1>6 DEF AdvanceAfterSuccess


\* A tick fails tasks that are RUNNING, and none that waits or is done.
LEMMA TickCoherent ==
    ASSUME TypeOK, Coherent, NEW lapsed \in SUBSET RunningTasks, Tick(lapsed), ~torn
    PROVE  Coherent'
<1>1. call.pc = "idle" /\ UNCHANGED <<run, pending>>
  BY DEF Tick, Begin, Idle, At
<1>2. \/ run.state = "ACTIVE" /\ call'.pc = "ticked"
      \/ run.state # "ACTIVE" /\ call'.pc = "idle"
  BY DEF Tick, Goto, Return, NoCall, TypeOK
<1>3. /\ \A t \in StepId : tasks[t].state # "RUNNING" => tasks'[t] = tasks[t]
      /\ \A t \in StepId : tasks[t].state = "RUNNING" => tasks'[t].state \in {"RUNNING", "FAILED"}
  BY DEF Tick, RunningTasks, TypeOK
<1>4. pending # <<>> => ~PastEnd /\ Current \in StepId /\ tasks'[Current] = tasks[Current]
  BY <1>1, <1>3, CurrentStep DEF Coherent, IdleQuestions, Justified
<1>5. RunStateAt'
  BY <1>1, <1>2 DEF Coherent, RunStateAt, Answering, PastEnd
<1>6. IdleQuestions'
  BY <1>1, <1>2, <1>4 DEF Coherent, IdleQuestions, Justified, Bound, PastEnd, Current
<1>7. CallQuestions'
  BY <1>1, <1>2 DEF Coherent, IdleQuestions, CallQuestions, Asking, Answering
<1>8. SucceededIsCompleted'
  BY <1>1, <1>2, <1>3 DEF Coherent, SucceededIsCompleted, Undecided, Asking
<1>9. PassedIsDone'
  <2>1. \A t \in StepId : Completed(t) => Completed(t)'
    BY <1>3 DEF Completed
  <2>2. \A j \in Passed : run.route[j] \in StepId
    BY RouteOfRun, <1>1 DEF Coherent, RunStateAt, Passed
  <2> QED
    BY <1>1, <2>1, <2>2 DEF Coherent, PassedIsDone, Passed
<1> QED
  BY <1>5, <1>6, <1>7, <1>8, <1>9 DEF Coherent

\* A step about the current task that returns to a run with no question leaves the
\* run coherent, provided the task is not left with an undecided success.
LEMMA ReturnCoherent ==
    ASSUME TypeOK, Coherent, ~PastEnd, Return, UNCHANGED <<run, pending>>,
           call.pc \notin {"idle", "rewinding", "rewound"},
           run.state \in {"ACTIVE", "HOLD"}, pending = <<>>,
           \A t \in StepId \ {Current} : tasks'[t] = tasks[t],
           Current \in StepId,
           tasks'[Current].state = "SUCCEEDED" => tasks'[Current].result = "COMPLETED",
           call.pc \in Answering => call.question.task = Current
    PROVE  Coherent'
<1>1. call'.pc = "idle"
  BY DEF Return, NoCall
<1>2. RunStateAt' /\ IdleQuestions' /\ CallQuestions'
  BY <1>1 DEF Coherent, RunStateAt, IdleQuestions, CallQuestions, Asking, Answering
<1>3. SucceededIsCompleted'
  BY <1>1 DEF Coherent, SucceededIsCompleted, Undecided, Answering
<1>4. PassedIsDone'
  BY PassedKept DEF Coherent
<1> QED
  BY <1>2, <1>3, <1>4 DEF Coherent

\* Asking leaves the tables as they are; the question is justified.
LEMMA AskCoherent ==
    ASSUME TypeOK, Coherent, ~PastEnd, NEW q, Ask(q), UNCHANGED <<run, tasks, pending>>,
           call.pc \in {"ticked", "committed"}, run.state = "ACTIVE",
           Justified(q), q.trigger # "TASK_RETRY_EXHAUSTED"
    PROVE  Coherent'
<1>1. call'.pc = "asking" /\ call'.question = q
  BY DEF Ask
<1>2. RunStateAt' /\ IdleQuestions'
  BY <1>1 DEF Coherent, RunStateAt, IdleQuestions, Answering
<1>3. CallQuestions'
  BY <1>1 DEF Coherent, CallQuestions, Justified, PastEnd, Current
<1>4. SucceededIsCompleted'
  BY <1>1 DEF Coherent, SucceededIsCompleted, Undecided, Asking, Current
<1>5. PassedIsDone'
  BY PassedKept DEF Coherent
<1> QED
  BY <1>2, <1>3, <1>4, <1>5 DEF Coherent

\* executeTask keeps a coherent run coherent.
LEMMA ExecuteTaskCoherent ==
    ASSUME TypeOK, RowsExist, Coherent, ExecuteTask, ~torn, ~torn'
    PROVE  Coherent'
<1>1. /\ call.pc = "ticked" => run.state = "ACTIVE" /\ pending = <<>>
      /\ call.pc \in {"agent", "committed"} => run.state \in {"ACTIVE", "HOLD"} /\ pending = <<>>
  BY DEF Coherent, RunStateAt, CallQuestions
<1>2. ASSUME NEW s, Reads(s)
      PROVE  call.pc = "ticked" /\ ~PastEnd /\ Current \in StepId /\ tasks[Current].state = s
  BY <1>2, CurrentStep DEF Reads, At
<1>3. CASE NoRemainingSteps
  <2>1. call.pc = "ticked" /\ PastEnd /\ call'.pc = "idle" /\ UNCHANGED <<tasks, pending>>
    BY <1>3 DEF NoRemainingSteps, At, Return, NoCall
  <2>2. run'.state = "TERMINAL" /\ run'.step = run.step /\ run'.route = run.route
    BY <1>3 DEF NoRemainingSteps, FinishRun, TypeOK
  <2>3. Len(run.route) \in Nat /\ run.step \in Nat \ {0} /\ run.step = Len(run.route) + 1
    BY <2>1, WorkflowAssumption DEF Coherent, RunStateAt, PastEnd, TypeOK
  <2>4. RunStateAt' /\ IdleQuestions' /\ CallQuestions'
    BY <1>1, <2>1, <2>2
       DEF Coherent, RunStateAt, IdleQuestions, CallQuestions, Asking, Answering
  <2>5. SucceededIsCompleted'
    BY <2>1 DEF Coherent, SucceededIsCompleted, Undecided, Asking
  <2>6. DOMAIN run.route = 1 .. (run.step - 1)
    BY <2>3, WorkflowAssumption DEF TypeOK
  <2>7. PassedIsDone'
    BY <1>1, <2>1, <2>2, <2>6 DEF Coherent, PassedIsDone, Passed, Completed
  <2> QED
    BY <2>4, <2>5, <2>7 DEF Coherent
<1>4. CASE CreateTask
  <2>1. call.pc = "ticked" /\ ~PastEnd /\ Current \in StepId
    BY <1>2, <1>4 DEF CreateTask
  <2>2. /\ tasks'[Current].state = "READY"
        /\ \A t \in StepId \ {Current} : tasks'[t] = tasks[t]
    BY <1>4, <2>1, SetTaskRow DEF CreateTask, TaskState
  <2>3. UNCHANGED <<run, pending, call>>
    BY <1>4 DEF CreateTask
  <2>4. RunStateAt' /\ IdleQuestions' /\ CallQuestions'
    BY <2>1, <2>3 DEF Coherent, RunStateAt, IdleQuestions, CallQuestions, Asking, Answering
  <2>5. SucceededIsCompleted'
    BY <2>1, <2>2, <2>3 DEF Coherent, SucceededIsCompleted, Undecided, Asking
  <2>6. PassedIsDone'
    BY <1>1, <2>1, <2>2, <2>3, PassedKept DEF Coherent
  <2> QED
    BY <2>4, <2>5, <2>6 DEF Coherent
<1>5. ASSUME NEW t \in StepId, t = Current, ~PastEnd, Kind[t] = "TEST"
      PROVE  Justified([About(Current, "UPSTREAM_IMPLEMENTATION_MISSING") EXCEPT !.upstream = Upstream])
  BY <1>5, UpstreamIsDevelopment DEF Justified, About
<1>6. CASE PreparationFails
  <2>1. call.pc = "ticked" /\ ~PastEnd /\ Current \in StepId
    BY <1>2, <1>6 DEF PreparationFails
  <2>2. About(Current, "TASK_PREPARATION_FAILED") \notin ToSet(pending)
    BY <1>1, <2>1 DEF ToSet
  <2>3. Ask(About(Current, "TASK_PREPARATION_FAILED")) /\ UNCHANGED <<run, tasks, pending>>
    BY <1>6, <2>2 DEF PreparationFails
  <2>4. /\ Justified(About(Current, "TASK_PREPARATION_FAILED"))
        /\ About(Current, "TASK_PREPARATION_FAILED").trigger # "TASK_RETRY_EXHAUSTED"
    BY <2>1 DEF Justified, About
  <2> QED
    BY <1>1, <2>1, <2>3, <2>4, AskCoherent
<1>7. CASE UpstreamImplementationMissing
  <2>1. call.pc = "ticked" /\ ~PastEnd /\ Current \in StepId
    BY <1>2, <1>7 DEF UpstreamImplementationMissing
  <2> DEFINE q == [About(Current, "UPSTREAM_IMPLEMENTATION_MISSING") EXCEPT !.upstream = Upstream]
  <2>2. Justified(q) /\ q.trigger # "TASK_RETRY_EXHAUSTED"
    BY <1>5, <1>7, <2>1 DEF UpstreamImplementationMissing, UpstreamMissing, About
  <2>3. Ask(q) /\ UNCHANGED <<run, tasks, pending>>
    BY <1>7 DEF UpstreamImplementationMissing, AskUpstream
  <2> HIDE DEF q
  <2> QED
    BY <1>1, <2>1, <2>2, <2>3, AskCoherent
<1>8. CASE StartTask
  <2>1. call.pc = "ticked" /\ ~PastEnd /\ Current \in StepId
    BY <1>2, <1>8 DEF StartTask
  <2>2. /\ tasks'[Current].state = "RUNNING"
        /\ \A t \in StepId \ {Current} : tasks'[t] = tasks[t]
    BY <1>8, <2>1, SetTaskRow DEF StartTask, TaskState
  <2>3. UNCHANGED <<run, pending>> /\ call'.pc = "agent"
    BY <1>8, CallType DEF StartTask, Step
  <2>4. RunStateAt' /\ IdleQuestions' /\ CallQuestions'
    BY <1>1, <2>1, <2>3 DEF Coherent, RunStateAt, IdleQuestions, CallQuestions, Asking, Answering
  <2>5. SucceededIsCompleted'
    BY <2>1, <2>2, <2>3 DEF Coherent, SucceededIsCompleted, Undecided, Asking
  <2>6. PassedIsDone'
    BY <1>1, <2>1, <2>2, <2>3, PassedKept DEF Coherent
  <2> QED
    BY <2>4, <2>5, <2>6 DEF Coherent
<1>9. CASE RetryReady
  <2>1. call.pc = "ticked" /\ ~PastEnd /\ Current \in StepId /\ HasRow(Current)
    BY <1>2, <1>9 DEF RetryReady, HasRow, None
  <2>2. /\ tasks'[Current].state = "READY"
        /\ \A t \in StepId \ {Current} : tasks'[t] = tasks[t]
    BY <1>9, <2>1, NextAttemptType DEF RetryReady
  <2>3. Return /\ UNCHANGED <<run, pending>>
    BY <1>9 DEF RetryReady
  <2> QED
    BY <1>1, <2>1, <2>2, <2>3, ReturnCoherent DEF Answering
<1>10. CASE CreateRetryExhaustedApproval
  <2>1. call.pc = "ticked" /\ ~PastEnd /\ Current \in StepId
    BY <1>2, <1>10 DEF CreateRetryExhaustedApproval
  <2>2. /\ tasks'[Current].state = "WAITING_HUMAN"
        /\ tasks'[Current].attempt = tasks[Current].attempt
        /\ tasks'[Current].maxAttempts = tasks[Current].maxAttempts
        /\ \A t \in StepId \ {Current} : tasks'[t] = tasks[t]
    BY <1>10, <2>1, SetTaskRow DEF CreateRetryExhaustedApproval, TaskState
  <2>3. /\ call'.pc = "idle"
        /\ run'.state = "WAITING_HUMAN" /\ run'.step = run.step /\ run'.route = run.route
    BY <1>10 DEF CreateRetryExhaustedApproval, Return, NoCall, SetRun, TypeOK
  <2> DEFINE q == [About(Current, "TASK_RETRY_EXHAUSTED")
                      EXCEPT !.attempt = tasks[Current].attempt,
                             !.maxAttempts = tasks[Current].maxAttempts]
  <2>4. /\ q.task = Current /\ q.trigger = "TASK_RETRY_EXHAUSTED"
        /\ q.attempt = tasks[Current].attempt /\ q.maxAttempts = tasks[Current].maxAttempts
    BY DEF About
  <2>5. pending' = <<q>>
    BY <1>1, <1>10, <2>1 DEF CreateRetryExhaustedApproval
  <2> HIDE DEF q
  <2>6. RunStateAt' /\ CallQuestions'
    BY <2>3 DEF Coherent, RunStateAt, CallQuestions, Asking, Answering
  <2>7. IdleQuestions'
    BY <2>1, <2>2, <2>3, <2>4, <2>5 DEF IdleQuestions, Justified, Bound, PastEnd, Current
  <2>8. SucceededIsCompleted'
    BY <2>1, <2>2, <2>3 DEF Coherent, SucceededIsCompleted, Undecided, Asking
  <2>9. PassedIsDone'
    BY <1>1, <2>1, <2>2, <2>3, PassedKept DEF Coherent
  <2> QED
    BY <2>6, <2>7, <2>8, <2>9 DEF Coherent
<1>11. CASE NothingToDo
  <2>1. /\ call.pc = "ticked" /\ ~PastEnd /\ Current \in StepId
        /\ tasks[Current].state # "SUCCEEDED"
    BY <1>2, <1>11 DEF NothingToDo
  <2> QED
    BY <1>1, <1>11, <2>1, ReturnCoherent DEF NothingToDo, Answering
<1>12. CASE AlreadySucceeded
  <2>1. call.pc = "ticked" /\ ~PastEnd /\ Current \in StepId /\ tasks[Current].state = "SUCCEEDED"
    BY <1>2, <1>12 DEF AlreadySucceeded
  <2>2. Completed(Current)
    BY <2>1, WorkflowAssumption DEF Coherent, SucceededIsCompleted, Undecided, Asking, Completed
  <2> QED
    BY <1>1, <1>12, <2>1, <2>2, AdvanceCoherent DEF AlreadySucceeded
<1>13. CASE AgentError
  <2>1. call.pc = "agent" /\ ~PastEnd /\ Current \in StepId
    BY <1>13, CurrentStep DEF AgentError, At, RowsExist
  <2>2. /\ tasks'[Current].state = "FAILED"
        /\ \A t \in StepId \ {Current} : tasks'[t] = tasks[t]
    BY <1>13, <2>1, SetTaskRow DEF AgentError, TaskState
  <2> QED
    BY <1>1, <1>13, <2>1, <2>2, ReturnCoherent DEF AgentError, Answering
<1>14. ASSUME call.pc = "committed"
       PROVE  /\ ~PastEnd /\ Current \in StepId
              /\ tasks[Current].result \in {"COMPLETED", "DECISION", "FAILURE"}
              /\ tasks[Current].state = IF tasks[Current].result = "FAILURE" THEN "FAILED"
                                                                            ELSE "SUCCEEDED"
  <2>1. ~PastEnd /\ Current \in StepId /\ tasks[Current].result # None
    BY <1>14, CurrentStep DEF RowsExist
  <2>2. tasks[Current].result \in Result
    BY <2>1 DEF TypeOK
  <2> QED
    BY <1>14, <2>1, <2>2 DEF Coherent, SucceededIsCompleted, Result
<1>15. CASE AfterCommit
  <2>1. call.pc = "committed" /\ UNCHANGED <<tasks, pending>>
    BY <1>15 DEF AfterCommit, At
  <2>2. CASE run.state = "HOLD"
    <3>1. tasks[Current].result # "DECISION" /\ Return /\ UNCHANGED run
      BY <1>15, <2>2 DEF AfterCommit
    <3> QED
      BY <1>1, <1>14, <2>1, <2>2, <3>1, ReturnCoherent DEF Answering
  <2>3. CASE run.state # "HOLD" /\ tasks[Current].result = "DECISION"
    <3>1. Ask(About(Current, "AGENT_DECISION_REQUIRED")) /\ UNCHANGED run
      BY <1>15, <2>3 DEF AfterCommit
    <3>2. /\ Justified(About(Current, "AGENT_DECISION_REQUIRED"))
          /\ About(Current, "AGENT_DECISION_REQUIRED").trigger # "TASK_RETRY_EXHAUSTED"
      BY <1>14, <2>1, <2>3 DEF Justified, About
    <3> QED
      BY <1>1, <1>14, <2>1, <2>3, <3>1, <3>2, AskCoherent
  <2>4. CASE run.state # "HOLD" /\ tasks[Current].result = "FAILURE"
    <3>1. Return /\ UNCHANGED run
      BY <1>15, <2>4 DEF AfterCommit
    <3> QED
      BY <1>1, <1>14, <2>1, <2>4, <3>1, ReturnCoherent DEF Answering
  <2>5. CASE run.state # "HOLD" /\ tasks[Current].result = "COMPLETED"
    <3>1. AdvanceAfterSuccess
      BY <1>15, <2>5 DEF AfterCommit
    <3>2. Completed(Current)
      BY <1>14, <2>1, <2>5, WorkflowAssumption DEF Completed
    <3> QED
      BY <1>1, <1>14, <2>1, <2>5, <3>1, <3>2, AdvanceCoherent
  <2> QED
    BY <1>14, <2>1, <2>2, <2>3, <2>4, <2>5
<1>16. CASE AfterCommitFails
  <2>1. call.pc = "committed" /\ tasks[Current].result # "DECISION"
    BY <1>16 DEF AfterCommitFails, At
  <2> QED
    BY <1>1, <1>14, <1>16, <2>1, ReturnCoherent DEF AfterCommitFails, Answering
<1>17. ASSUME NEW r \in Result \ {None}, AgentResult(r)
       PROVE  Coherent'
  <2>1. call.pc = "agent" /\ ~PastEnd /\ Current \in StepId
    BY <1>17, CurrentStep DEF AgentResult, At, RowsExist
  <2>2. /\ tasks'[Current].result = r
        /\ tasks'[Current].state = IF r = "FAILURE" THEN "FAILED" ELSE "SUCCEEDED"
        /\ \A t \in StepId \ {Current} : tasks'[t] = tasks[t]
    BY <1>17, <2>1, AgentResultRow
  <2>3. UNCHANGED <<run, pending>> /\ call'.pc = "committed"
    BY <1>17, CallType DEF AgentResult, Step
  <2>4. RunStateAt' /\ IdleQuestions' /\ CallQuestions'
    BY <1>1, <2>1, <2>3 DEF Coherent, RunStateAt, IdleQuestions, CallQuestions, Asking, Answering
  <2>5. r \in {"COMPLETED", "DECISION", "FAILURE"}
    BY <1>17 DEF Result
  <2>6. SucceededIsCompleted'
    BY <2>1, <2>2, <2>3, <2>5 DEF Coherent, SucceededIsCompleted, Undecided, Asking, Current
  <2>7. PassedIsDone'
    BY <1>1, <2>1, <2>2, <2>3, PassedKept DEF Coherent
  <2> QED
    BY <2>4, <2>6, <2>7 DEF Coherent
<1> QED
  BY <1>3, <1>4, <1>6, <1>7, <1>8, <1>9, <1>10, <1>11, <1>12, <1>13, <1>15, <1>16, <1>17
     DEF ExecuteTask


\* The three statements of createApproval keep a coherent run coherent.
LEMMA CreateApprovalCoherent ==
    ASSUME TypeOK, RowsExist, Coherent, CreateApproval
    PROVE  Coherent'
<1>1. /\ call.pc \in Asking /\ Justified(call.question)
      /\ call.question.trigger # "TASK_RETRY_EXHAUSTED"
      /\ ~PastEnd /\ Current \in StepId /\ call.question.task = Current
  BY CurrentStep
     DEF CreateApproval, InsertApproval, RunWaits, TaskWaits, At, Asking, Coherent, CallQuestions,
         Justified
<1>2. run.state \in {"ACTIVE", "WAITING_HUMAN"}
  BY <1>1 DEF Coherent, RunStateAt, Asking
<1>3. CASE InsertApproval
  <2>1. /\ call.pc = "asking" /\ call'.pc = "asked" /\ UNCHANGED <<call.question, run, tasks>>
        /\ pending = <<>> /\ pending' = <<call.question>>
    BY <1>3, CallType DEF InsertApproval, At, Step, Coherent, CallQuestions
  <2>2. RunStateAt' /\ IdleQuestions'
    BY <2>1 DEF Coherent, RunStateAt, IdleQuestions, Answering
  <2>3. CallQuestions'
    BY <1>1, <2>1 DEF CallQuestions, Justified, PastEnd, Current, Answering
  <2>4. SucceededIsCompleted'
    BY <1>1, <2>1 DEF Coherent, SucceededIsCompleted, Undecided, Asking, Current
  <2>5. PassedIsDone'
    BY <1>1, <1>2, <2>1, PassedKept DEF Coherent
  <2> QED
    BY <2>2, <2>3, <2>4, <2>5 DEF Coherent
<1>4. CASE RunWaits
  <2>1. /\ call.pc = "asked" /\ call'.pc = "waiting"
        /\ UNCHANGED <<call.question, tasks, pending, run.step, run.route>>
        /\ run'.state = "WAITING_HUMAN" /\ pending = <<call.question>>
    BY <1>4, CallType
       DEF RunWaits, At, Step, Coherent, CallQuestions, SetRun, TypeOK
  <2>2. RunStateAt' /\ IdleQuestions'
    BY <2>1 DEF Coherent, RunStateAt, IdleQuestions, Answering
  <2>3. CallQuestions'
    BY <1>1, <2>1 DEF CallQuestions, Justified, PastEnd, Current, Answering
  <2>4. SucceededIsCompleted'
    BY <1>1, <2>1 DEF Coherent, SucceededIsCompleted, Undecided, Asking, Current
  <2>5. PassedIsDone'
    BY <1>1, <1>2, <2>1, PassedKept DEF Coherent
  <2> QED
    BY <2>2, <2>3, <2>4, <2>5 DEF Coherent
<1>5. CASE TaskWaits
  <2>1. /\ call.pc = "waiting" /\ call'.pc = "idle" /\ UNCHANGED <<run, pending>>
        /\ run.state = "WAITING_HUMAN" /\ pending = <<call.question>>
    BY <1>5 DEF TaskWaits, At, Return, NoCall, Coherent, CallQuestions, RunStateAt
  <2>2. /\ tasks'[Current].state = "WAITING_HUMAN"
        /\ tasks'[Current].result = tasks[Current].result
        /\ \A t \in StepId \ {Current} : tasks'[t] = tasks[t]
    BY <1>1, <1>5, SetTaskRow DEF TaskWaits, TaskState
  <2>3. RunStateAt' /\ CallQuestions'
    BY <2>1 DEF Coherent, RunStateAt, CallQuestions, Asking, Answering
  <2>4. pending' # <<>> /\ Len(pending') = 1 /\ pending'[1] = call.question
    BY <2>1
  <2>5. IdleQuestions'
    BY <1>1, <2>1, <2>2, <2>4 DEF IdleQuestions, Justified, Bound, PastEnd, Current
  <2>6. SucceededIsCompleted'
    BY <1>1, <2>1, <2>2 DEF Coherent, SucceededIsCompleted, Undecided, Asking
  <2>7. PassedIsDone'
    BY <1>1, <1>2, <2>1, <2>2, PassedKept DEF Coherent
  <2> QED
    BY <2>3, <2>5, <2>6, <2>7 DEF Coherent
<1> QED
  BY <1>3, <1>4, <1>5 DEF CreateApproval

\* The upstream that a TEST step waits for comes before it in the route.
LEMMA UpstreamIsBefore ==
    ASSUME TypeOK, ~PastEnd, NEW q, Justified(q), q.trigger = "UPSTREAM_IMPLEMENTATION_MISSING",
           NEW i \in DOMAIN run.route, run.route[i] = q.upstream
    PROVE  i < run.step
<1>1. run.route[i] \in StepId /\ run.route \in Routes
  BY RouteOfRun
<1>2. Kind[run.route[i]] = "DEVELOPMENT" /\ Kind[run.route[run.step]] = "TEST"
  BY <1>1, WorkflowAssumption DEF Justified, Current
<1> QED
  BY <1>1, <1>2, CurrentStep, WorkflowAssumption

\* An answer that is accepted is the APPROVE of a gate: every other choice, and every
\* answer to a question of the agent, leads elsewhere.
LEMMA AcceptedIsApproval ==
    ASSUME Accept, Justified(call.question), call.question \in Question,
           call.question.task = Current,
           call.choice \in Options(call.question.trigger),
           call.question.trigger # "TASK_RETRY_EXHAUSTED"
    PROVE  call.question.trigger = "ROUTE_STEP_APPROVAL"
<1>1. /\ call.choice \notin {"CANCEL", "ABORT", "RETRY_SAME_AGENT"}
      /\ tasks[Current].result # "DECISION"
      /\ call.choice = "REWORK" => FALSE
  BY DEF Accept, Declined, Declining, Redone, Rewound, Reworked
<1>2. call.question.trigger \in Trigger
  BY DEF Question
<1> QED
  BY <1>1, <1>2 DEF Options, Trigger, Justified

\* What follows an answer keeps a coherent run coherent.
LEMMA FollowAnswerCoherent ==
    ASSUME TypeOK, RowsExist, Coherent, FollowAnswer, ~torn'
    PROVE  Coherent'
<1> DEFINE q == call.question
<1>1. ASSUME call.pc \in Answering
      PROVE  /\ Justified(q) /\ q.trigger # "TASK_RETRY_EXHAUSTED" /\ pending = <<>>
             /\ ~PastEnd /\ Current \in StepId /\ q.task = Current /\ HasRow(Current)
             /\ run.state \in {"ACTIVE", "WAITING_HUMAN"}
             /\ q \in Question /\ call.choice \in Options(q.trigger)
  BY <1>1, CurrentStep
     DEF Answering, Coherent, CallQuestions, RunStateAt, Justified, RowsExist, RowsOf
<1>2. CASE ReactivateRun
  <2>1. /\ call.pc = "resolved" /\ call'.pc = "reactivated"
        /\ UNCHANGED <<call.question, call.choice, tasks, pending, run.step, run.route>>
        /\ run'.state = "ACTIVE"
    BY <1>2, CallType DEF ReactivateRun, At, Step, SetRun, TypeOK
  <2>2. RunStateAt' /\ IdleQuestions'
    BY <2>1 DEF Coherent, RunStateAt, IdleQuestions
  <2>3. CallQuestions'
    BY <1>1, <2>1 DEF CallQuestions, Justified, PastEnd, Current, Answering
  <2>4. SucceededIsCompleted'
    BY <2>1 DEF Coherent, SucceededIsCompleted, Undecided, Asking
  <2>5. PassedIsDone'
    BY <1>1, <2>1, PassedKept DEF Coherent, Answering
  <2> QED
    BY <2>2, <2>3, <2>4, <2>5 DEF Coherent
<1>3. CASE MarkTaskSucceeded
  <2>1. /\ call.pc = "reactivated" /\ call'.pc = "answered"
        /\ UNCHANGED <<call.question, call.choice, run, pending>>
    BY <1>3, CallType DEF MarkTaskSucceeded, At, Step
  <2>2. /\ tasks'[Current].state = "SUCCEEDED"
        /\ tasks'[Current].result = tasks[Current].result
        /\ \A t \in StepId \ {Current} : tasks'[t] = tasks[t]
    BY <1>1, <1>3, <2>1, SetTaskRow DEF MarkTaskSucceeded, TaskState, Answering
  <2>3. RunStateAt' /\ IdleQuestions'
    BY <2>1 DEF Coherent, RunStateAt, IdleQuestions, Answering
  <2>4. CallQuestions'
    BY <1>1, <2>1, <2>2 DEF CallQuestions, Justified, PastEnd, Current, Answering
  <2>5. SucceededIsCompleted'
    BY <1>1, <2>1, <2>2 DEF Coherent, SucceededIsCompleted, Undecided, Asking, Answering
  <2>6. PassedIsDone'
    BY <1>1, <2>1, <2>2, PassedKept DEF Coherent, Answering
  <2> QED
    BY <2>3, <2>4, <2>5, <2>6 DEF Coherent
<1>4. ASSUME call.pc \in {"answered", "declining", "rewinding", "rewound"}
      PROVE  call.pc \in Answering /\ run.state = "ACTIVE"
  BY <1>4 DEF Answering, Coherent, RunStateAt
<1>5. CASE CancelTask
  <2>1. /\ call.pc = "answered" /\ call'.pc = "declining"
        /\ UNCHANGED <<call.question, call.choice, run, pending>>
    BY <1>5, CallType DEF CancelTask, At, Step
  <2>2. /\ tasks'[Current].state = "CANCELLED"
        /\ tasks'[Current].result = tasks[Current].result
        /\ \A t \in StepId \ {Current} : tasks'[t] = tasks[t]
    BY <1>1, <1>5, <2>1, SetTaskRow DEF CancelTask, TaskState, Answering
  <2>3. RunStateAt' /\ IdleQuestions'
    BY <2>1 DEF Coherent, RunStateAt, IdleQuestions, Answering
  <2>4. CallQuestions'
    BY <1>1, <2>1, <2>2 DEF CallQuestions, Justified, PastEnd, Current, Answering
  <2>5. SucceededIsCompleted'
    BY <1>1, <2>1, <2>2 DEF Coherent, SucceededIsCompleted, Undecided, Asking, Answering
  <2>6. PassedIsDone'
    BY <1>1, <2>1, <2>2, PassedKept DEF Coherent, Answering
  <2> QED
    BY <2>3, <2>4, <2>5, <2>6 DEF Coherent
<1>6. CASE FinishDeclinedRun
  <2>1. /\ call.pc = "declining" /\ call'.pc = "idle" /\ UNCHANGED <<tasks, pending>>
        /\ run'.state = "TERMINAL" /\ run'.outcome = "CANCELLED"
        /\ UNCHANGED <<run.step, run.route>>
    BY <1>6 DEF FinishDeclinedRun, At, Return, NoCall, FinishRun, TypeOK
  <2>2. RunStateAt' /\ IdleQuestions' /\ CallQuestions'
    BY <1>1, <2>1 DEF Coherent, RunStateAt, IdleQuestions, CallQuestions, Asking, Answering
  <2>3. SucceededIsCompleted'
    BY <2>1 DEF Coherent, SucceededIsCompleted, Undecided, Asking
  <2>4. PassedIsDone'
    BY <1>1, <2>1, PassedKept DEF Coherent, Answering
  <2> QED
    BY <2>2, <2>3, <2>4 DEF Coherent
<1>7. CASE ReDispatch
  <2>1. call.pc = "answered" /\ Return /\ UNCHANGED <<run, pending>>
    BY <1>7 DEF ReDispatch, At
  <2>2. /\ tasks'[Current].state = "READY"
        /\ \A t \in StepId \ {Current} : tasks'[t] = tasks[t]
    BY <1>1, <1>7, <2>1, NextAttemptType DEF ReDispatch, Answering
  <2> QED
    BY <1>1, <1>4, <2>1, <2>2, ReturnCoherent
<1>8. CASE ReworkUpstream
  <2>1. /\ call.pc = "answered" /\ call'.pc = "rewinding"
        /\ UNCHANGED <<call.question, call.choice, run, pending>>
        /\ q.trigger = "UPSTREAM_IMPLEMENTATION_MISSING" /\ UpstreamInRoute
    BY <1>8, CallType DEF ReworkUpstream, At, Step, Rewound
  <2>2. q.upstream \in StepId /\ HasRow(q.upstream)
    <3>1. PICK i \in DOMAIN run.route : run.route[i] = q.upstream
      BY <2>1 DEF UpstreamInRoute, ToSet
    <3>2. q.upstream \in StepId
      BY <3>1, RouteOfRun
    <3>3. q.upstream # None
      BY <3>2, WorkflowAssumption
    <3> QED
      BY <1>1, <2>1, <3>2, <3>3 DEF Answering, RowsExist, RowsOf
  <2>3. /\ tasks'[q.upstream].state = "READY"
        /\ \A u \in StepId : tasks'[u].result = tasks[u].result
        /\ \A t \in StepId \ {q.upstream} : tasks'[t] = tasks[t]
    BY <1>8, <2>2, NextAttemptType DEF ReworkUpstream
  <2>4. RunStateAt' /\ IdleQuestions'
    BY <2>1 DEF Coherent, RunStateAt, IdleQuestions, Answering
  <2>5. CallQuestions'
    BY <1>1, <2>1, <2>3 DEF CallQuestions, Justified, PastEnd, Current, Answering, UpstreamInRoute
  <2>6. SucceededIsCompleted'
    BY <1>1, <2>1, <2>2, <2>3 DEF Coherent, SucceededIsCompleted, Undecided, Asking, Answering
  <2>7. ASSUME NEW j \in Passed
        PROVE  Completed(run.route[j])' \/ run.route[j] = q.upstream
    <3>1. run.route[j] \in StepId /\ Completed(run.route[j])
      BY <1>1, <1>4, <2>1, PassedBeforeCurrent DEF Coherent, PassedIsDone, Passed, Answering
    <3> QED
      BY <2>1, <2>3, <3>1 DEF Completed
  <2>8. PassedIsDone'
    BY <2>1, <2>7 DEF PassedIsDone, Passed, Completed
  <2> QED
    BY <2>4, <2>5, <2>6, <2>8 DEF Coherent
<1>9. CASE RewindTask
  <2>1. /\ call.pc = "rewinding" /\ call'.pc = "rewound"
        /\ UNCHANGED <<call.question, call.choice, run, pending>>
    BY <1>9, CallType DEF RewindTask, At, Step
  <2>2. /\ tasks'[Current].state = "READY"
        /\ tasks'[Current].result = tasks[Current].result
        /\ \A t \in StepId \ {Current} : tasks'[t] = tasks[t]
    BY <1>1, <1>9, <2>1, SetTaskRow DEF RewindTask, TaskState, Answering
  <2>3. RunStateAt' /\ IdleQuestions'
    BY <2>1 DEF Coherent, RunStateAt, IdleQuestions, Answering
  <2>4. CallQuestions'
    BY <1>1, <2>1, <2>2 DEF Coherent, CallQuestions, Justified, PastEnd, Current, Answering, UpstreamInRoute
  <2>5. SucceededIsCompleted'
    BY <1>1, <2>1, <2>2 DEF Coherent, SucceededIsCompleted, Undecided, Asking, Answering
  <2>6. ASSUME NEW j \in Passed
        PROVE  Completed(run.route[j])' \/ run.route[j] = q.upstream
    <3>1. /\ run.route[j] \in StepId /\ run.route[j] # Current
          /\ Completed(run.route[j]) \/ run.route[j] = q.upstream
      BY <1>1, <1>4, <2>1, PassedBeforeCurrent DEF Coherent, PassedIsDone, Passed, Answering
    <3> QED
      BY <2>1, <2>2, <3>1 DEF Completed
  <2>7. PassedIsDone'
    BY <2>1, <2>6 DEF PassedIsDone, Passed, Completed
  <2> QED
    BY <2>3, <2>4, <2>5, <2>7 DEF Coherent
<1>10. CASE RewindRun
  <2>1. /\ call.pc = "rewound" /\ call'.pc = "idle" /\ UNCHANGED <<tasks, pending>>
    BY <1>10 DEF RewindRun, At, Return, NoCall
  <2>2. PICK i \in DOMAIN run.route : /\ run.route[i] = q.upstream
                                      /\ run' = [run EXCEPT !.state = "ACTIVE", !.step = i]
    BY <1>10 DEF RewindRun
  <2>3. run'.state = "ACTIVE" /\ run'.step = i /\ run'.route = run.route
    BY <2>2 DEF TypeOK
  <2>4. i < run.step
    BY <1>1, <2>1, <2>2, UpstreamIsBefore DEF Answering, Coherent, CallQuestions
  <2>5. i \in Nat \ {0} /\ run.step \in Nat \ {0} /\ run.step <= Len(run.route) + 1 /\ Len(run.route) \in Nat
    BY RouteOfRun DEF Coherent, RunStateAt
  <2>6. RunStateAt' /\ IdleQuestions' /\ CallQuestions'
    BY <1>1, <2>1, <2>3, <2>4, <2>5
       DEF RunStateAt, IdleQuestions, CallQuestions, Asking, Answering
  <2>7. SucceededIsCompleted'
    BY <2>1 DEF Coherent, SucceededIsCompleted, Undecided, Asking
  <2>8. ASSUME NEW j \in 1 .. (i - 1)
        PROVE  Completed(run.route[j])
    <3>1. j \in 1 .. (run.step - 1) /\ j # i
      BY <2>4, <2>5
    <3>2. j \in DOMAIN run.route
      BY <1>1, <2>1, <3>1, PassedBeforeCurrent DEF Answering
    <3>3. run.route[j] # q.upstream
      <4>1. IsInjective(run.route)
        BY WorkflowAssumption DEF TypeOK
      <4> QED
        BY <2>2, <3>1, <3>2, <4>1 DEF IsInjective
    <3> QED
      BY <1>4, <2>1, <3>1, <3>3 DEF Coherent, PassedIsDone, Passed
  <2>9. PassedIsDone'
    BY <2>1, <2>3, <2>8 DEF PassedIsDone, Passed, Completed
  <2> QED
    BY <2>6, <2>7, <2>9 DEF Coherent
<1>11. CASE Accept
  <2>1. call.pc = "answered" /\ run' = [run EXCEPT !.state = "ACTIVE", !.step = @ + 1]
    BY <1>11 DEF Accept, At
  <2>2. run'.state = "ACTIVE" /\ run'.step = run.step + 1 /\ run'.route = run.route
    BY <2>1 DEF TypeOK
  <2>3. UNCHANGED <<tasks, pending>> /\ pending = <<>>
    BY <1>1, <1>11, <2>1 DEF Accept, Answering
  <2>4. run.step \in Nat \ {0} /\ Len(run.route) \in Nat /\ run.step <= Len(run.route)
    BY <1>1, <2>1, RouteOfRun DEF PastEnd, Answering
  <2>5. \/ call'.pc = "idle"
        \/ call'.pc = "finishing" /\ run.step = Len(run.route)
    BY <1>11, <2>4, CallType DEF Accept, Return, NoCall, Step
  <2>6. /\ q.trigger = "ROUTE_STEP_APPROVAL" /\ tasks[Current].result = "COMPLETED"
    BY <1>1, <1>11, <2>1, AcceptedIsApproval
       DEF Answering, Justified
  <2>7. RunStateAt' /\ IdleQuestions' /\ CallQuestions'
    BY <2>2, <2>3, <2>4, <2>5
       DEF RunStateAt, IdleQuestions, CallQuestions, Asking, Answering, PastEnd
  <2>8. SucceededIsCompleted'
    BY <1>1, <2>1, <2>3, <2>5, <2>6
       DEF Coherent, SucceededIsCompleted, Undecided, Asking, Answering
  <2>9. tasks[Current].state = "SUCCEEDED"
    BY <2>1 DEF Coherent, CallQuestions
  <2>10. PassedIsDone'
    <3>1. Completed(Current)
      BY <1>1, <2>1, <2>6, <2>9, WorkflowAssumption DEF Completed, Answering
    <3>2. \A j \in 1 .. (run.step - 1) : Completed(run.route[j])
      BY <1>4, <2>1 DEF Coherent, PassedIsDone, Passed
    <3>3. \A j \in 1 .. run.step : Completed(run.route[j])
      BY <2>4, <3>1, <3>2 DEF Current
    <3>4. run'.step - 1 = run.step
      BY <2>2, <2>4
    <3> QED
      BY <2>2, <2>3, <3>3, <3>4 DEF PassedIsDone, Passed, Completed
  <2> QED
    BY <2>7, <2>8, <2>10 DEF Coherent
<1>12. CASE FinishAcceptedRun
  <2>1. call.pc = "finishing" /\ PastEnd /\ call'.pc = "idle" /\ UNCHANGED <<tasks, pending>>
    BY <1>12 DEF FinishAcceptedRun, At, Return, NoCall, Coherent, RunStateAt
  <2>2. /\ run'.state = "TERMINAL" /\ UNCHANGED <<run.step, run.route>>
    BY <1>12 DEF FinishAcceptedRun, FinishRun, TypeOK
  <2>3. run.state = "ACTIVE" /\ pending = <<>>
    BY <2>1 DEF Coherent, RunStateAt, CallQuestions
  <2>4. Len(run.route) \in Nat /\ run.step \in Nat \ {0} /\ run.step = Len(run.route) + 1
    BY <2>1, WorkflowAssumption DEF Coherent, RunStateAt, PastEnd, TypeOK
  <2>5. RunStateAt' /\ IdleQuestions' /\ CallQuestions'
    BY <2>1, <2>2, <2>3, <2>4
       DEF RunStateAt, IdleQuestions, CallQuestions, Asking, Answering
  <2>6. SucceededIsCompleted'
    BY <2>1 DEF Coherent, SucceededIsCompleted, Undecided, Asking
  <2>7. DOMAIN run.route = 1 .. (run.step - 1)
    BY <2>4, WorkflowAssumption DEF TypeOK
  <2>8. PassedIsDone'
    BY <2>1, <2>2, <2>3, <2>7 DEF Coherent, PassedIsDone, Passed, Completed
  <2> QED
    BY <2>5, <2>6, <2>8 DEF Coherent
<1>13. CASE UpstreamTargetMissing
  BY <1>13 DEF UpstreamTargetMissing
<1> QED
  BY <1>2, <1>3, <1>5, <1>6, <1>7, <1>8, <1>9, <1>10, <1>11, <1>12, <1>13 DEF FollowAnswer


\* The answers and controls of humans keep a coherent run coherent.
LEMMA HumanCoherent ==
    ASSUME TypeOK, RowsExist, Coherent, Human, ~torn'
    PROVE  Coherent'
<1>1. ASSUME NEW i \in DOMAIN pending, call.pc = "idle"
      PROVE  /\ i = 1 /\ run.state = "WAITING_HUMAN"
             /\ Justified(pending[i]) /\ Bound(pending[i])
             /\ ~PastEnd /\ Current \in StepId /\ pending[i].task = Current
             /\ tasks[Current].state = "WAITING_HUMAN" /\ HasRow(Current)
             /\ pending[i] \in Question
             /\ pending' = RemoveAt(pending, i) => pending' = <<>>
  <2>1. pending \in Seq(Question) /\ pending # <<>>
    BY DEF TypeOK
  <2>2. /\ Len(pending) = 1 /\ Justified(pending[1]) /\ Bound(pending[1])
        /\ run.state = "WAITING_HUMAN" /\ tasks[Current].state = "WAITING_HUMAN"
    BY <1>1, <2>1 DEF Coherent, IdleQuestions
  <2>3. i = 1 /\ pending[i] \in Question
    BY <2>1, <2>2
  <2>4. ~PastEnd /\ Current \in StepId /\ pending[i].task = Current
    BY <2>2, <2>3, CurrentStep DEF Justified
  <2>5. RemoveAt(pending, i) \in Seq(Question) /\ Len(RemoveAt(pending, i)) = 0
    BY <2>1, <2>2, RemoveAtElements
  <2>6. RemoveAt(pending, i) = <<>>
    BY <2>5
  <2> QED
    BY <2>2, <2>3, <2>4, <2>6 DEF HasRow, None
<1>2. ASSUME NEW i \in DOMAIN pending, NEW c \in Choice, ResolveRetryExhausted(i, c)
      PROVE  Coherent'
  <2>1. call.pc = "idle" /\ call' = call /\ pending' = RemoveAt(pending, i)
    BY <1>2 DEF ResolveRetryExhausted, Answers, Begin, Idle, At
  <2>2. /\ pending' = <<>> /\ ~PastEnd /\ Current \in StepId /\ pending[i].task = Current
        /\ HasRow(Current) /\ run.state = "WAITING_HUMAN"
    BY <1>1, <1>2, <2>1
  <2>3. /\ tasks'[Current].state \in {"READY", "CANCELLED"}
        /\ \A t \in StepId \ {Current} : tasks'[t] = tasks[t]
    <3>1. CASE c \in Declining
      BY <1>2, <2>2, <3>1, SetTaskRow DEF ResolveRetryExhausted, TaskState
    <3>2. CASE c \notin Declining
      BY <1>2, <2>2, <3>2, ExtendAttemptsType DEF ResolveRetryExhausted
    <3> QED
      BY <3>1, <3>2
  <2>4. /\ \/ run'.state = "ACTIVE"
           \/ run'.state = "TERMINAL" /\ run'.outcome = "CANCELLED"
        /\ run'.step = run.step /\ run'.route = run.route
    <3>1. FinishRun("CANCELLED") \/ SetRun("ACTIVE")
      BY <1>2 DEF ResolveRetryExhausted
    <3>2. CASE FinishRun("CANCELLED")
      BY <3>2 DEF FinishRun, TypeOK
    <3>3. CASE SetRun("ACTIVE")
      BY <3>3 DEF SetRun, TypeOK
    <3> QED
      BY <3>1, <3>2, <3>3
  <2>5. RunStateAt' /\ IdleQuestions' /\ CallQuestions'
    BY <2>1, <2>2, <2>4
       DEF Coherent, RunStateAt, IdleQuestions, CallQuestions, Asking, Answering
  <2>6. SucceededIsCompleted'
    BY <2>1, <2>2, <2>3 DEF Coherent, SucceededIsCompleted, Undecided, Asking
  <2>7. PassedIsDone'
    BY <2>1, <2>2, <2>3, <2>4, PassedKept DEF Coherent
  <2> QED
    BY <2>5, <2>6, <2>7 DEF Coherent
<1>3. ASSUME NEW i \in DOMAIN pending, NEW c \in Choice, ResolveApproval(i, c)
      PROVE  Coherent'
  <2>1. /\ call.pc = "idle" /\ pending' = RemoveAt(pending, i) /\ UNCHANGED <<run, tasks>>
        /\ call' = [pc |-> "resolved", question |-> pending[i], choice |-> c]
        /\ pending[i].trigger # "TASK_RETRY_EXHAUSTED"
    BY <1>3 DEF ResolveApproval, Answers, Begin, Idle, At
  <2>2. /\ pending' = <<>> /\ Justified(pending[i]) /\ ~PastEnd
        /\ run.state = "WAITING_HUMAN"
    BY <1>1, <1>3, <2>1
  <2>3. call'.pc = "resolved" /\ call'.question = pending[i]
    BY <2>1
  <2>4. RunStateAt' /\ IdleQuestions'
    BY <2>1, <2>2, <2>3 DEF Coherent, RunStateAt, IdleQuestions
  <2>5. CallQuestions'
    BY <2>1, <2>2, <2>3 DEF CallQuestions, Justified, PastEnd, Current
  <2>6. SucceededIsCompleted'
    BY <2>1, <2>3 DEF Coherent, SucceededIsCompleted, Undecided, Asking
  <2>7. PassedIsDone'
    BY <2>1, <2>2, PassedKept DEF Coherent
  <2> QED
    BY <2>4, <2>5, <2>6, <2>7 DEF Coherent
<1>4. ASSUME NEW s \in {"HOLD", "ACTIVE"}, Control, SetRun(s), run.state \in {"ACTIVE", "HOLD"},
             UNCHANGED <<tasks, pending, call>>
      PROVE  Coherent'
  <2>1. call.pc \in {"idle", "agent"}
    BY <1>4 DEF Control, Begin, Idle, At
  <2>2. run'.state = s /\ UNCHANGED <<run.step, run.route>>
    BY <1>4 DEF SetRun, TypeOK
  <2>3. pending = <<>>
    BY <1>4, <2>1 DEF Coherent, IdleQuestions, CallQuestions
  <2>4. RunStateAt' /\ IdleQuestions' /\ CallQuestions'
    BY <1>4, <2>1, <2>2, <2>3
       DEF Coherent, RunStateAt, IdleQuestions, CallQuestions, Asking, Answering
  <2>5. SucceededIsCompleted'
    BY <1>4, <2>1 DEF Coherent, SucceededIsCompleted, Undecided, Asking
  <2>6. PassedIsDone'
    BY <1>4, <2>1, <2>2 DEF Coherent, PassedIsDone, Passed, Completed
  <2> QED
    BY <2>4, <2>5, <2>6 DEF Coherent
<1>5. CASE PauseRun
  BY <1>4, <1>5 DEF PauseRun
<1>6. CASE ResumeRun
  BY <1>4, <1>6 DEF ResumeRun
<1>7. ASSUME NEW r \in Routes, ReviseRun(r)
      PROVE  Coherent'
  <2>1. /\ call.pc = "idle" /\ pending = <<>> /\ UNCHANGED <<tasks, pending, call>>
        /\ run'.state = "ACTIVE" /\ run'.step = 1 /\ run'.route = r
    BY <1>7 DEF ReviseRun, Idle, At, TypeOK
  <2>2. Len(r) \in Nat
    BY <1>7, WorkflowAssumption
  <2>3. RunStateAt' /\ IdleQuestions' /\ CallQuestions'
    BY <2>1, <2>2 DEF RunStateAt, IdleQuestions, CallQuestions, Asking, Answering
  <2>4. SucceededIsCompleted'
    BY <2>1 DEF Coherent, SucceededIsCompleted, Undecided, Asking
  <2>5. PassedIsDone'
    BY <2>1 DEF PassedIsDone, Passed
  <2> QED
    BY <2>3, <2>4, <2>5 DEF Coherent
<1> QED
  BY <1>2, <1>3, <1>5, <1>6, <1>7 DEF Human

\* A death that leaves nothing half written leaves a coherent run: the next tick works
\* out again what the command had in its local variables.
LEMMA CrashCoherent ==
    ASSUME TypeOK, Coherent, Crash, ~torn'
    PROVE  Coherent'
<1>1. /\ call.pc \in {"ticked", "agent", "committed", "asking", "finishing"}
      /\ call.pc \in {"committed", "asking"} => tasks[Current].result # "DECISION"
      /\ call'.pc = "idle" /\ UNCHANGED <<run, tasks, pending>>
  BY DEF Crash, HalfWritten, At, Return, NoCall, TypeOK, Step
<1>2. pending = <<>> /\ run.state \in {"ACTIVE", "HOLD"}
  BY <1>1 DEF Coherent, CallQuestions, RunStateAt
<1>3. RunStateAt' /\ IdleQuestions' /\ CallQuestions'
  BY <1>1, <1>2 DEF Coherent, RunStateAt, IdleQuestions, CallQuestions, Asking, Answering
<1>4. SucceededIsCompleted'
  BY <1>1 DEF Coherent, SucceededIsCompleted, Undecided, Asking
<1>5. PassedIsDone'
  BY <1>1 DEF Coherent, PassedIsDone, Passed, Completed
<1> QED
  BY <1>3, <1>4, <1>5 DEF Coherent

\* The invariant is inductive.
LEMMA NextIInv == IInv /\ [Next]_vars => IInv'
<1> SUFFICES ASSUME IInv, [Next]_vars PROVE IInv'
  OBVIOUS
<1>1. TypeOK' /\ RowsExist'
  BY NextTypeOK DEF IInv
<1>2. ASSUME ~torn' PROVE Coherent'
  <2>1. TypeOK /\ RowsExist /\ ~torn /\ Coherent
    BY <1>2, TornStays DEF IInv
  <2>2. ASSUME NEW lapsed \in SUBSET RunningTasks, Tick(lapsed) PROVE Coherent'
    BY <2>1, <2>2, TickCoherent
  <2>3. CASE CallStep
    BY <1>2, <2>1, <2>3, ExecuteTaskCoherent, CreateApprovalCoherent, FollowAnswerCoherent
       DEF CallStep
  <2>4. CASE Human
    BY <1>2, <2>1, <2>4, HumanCoherent
  <2>5. CASE Crash
    BY <1>2, <2>1, <2>5, CrashCoherent
  <2>6. CASE UNCHANGED vars
    BY <2>1, <2>6
       DEF vars, Coherent, RunStateAt, IdleQuestions, CallQuestions, Justified, Bound, PastEnd,
           Current, UpstreamInRoute, SucceededIsCompleted, Undecided, PassedIsDone, Passed,
           Completed
  <2> QED
    BY <2>2, <2>3, <2>4, <2>5, <2>6 DEF Next, Stop
<1> QED
  BY <1>1, <1>2 DEF IInv

\* It holds when a run is created.
LEMMA InitIInv == Init => IInv
<1> SUFFICES ASSUME Init PROVE IInv
  OBVIOUS
<1>1. PICK r \in FirstRoutes : run = [state |-> "ACTIVE", outcome |-> None, step |-> 1, route |-> r]
  BY DEF Init
<1>2. /\ run.state = "ACTIVE" /\ run.step = 1 /\ Len(run.route) \in Nat
      /\ pending = <<>> /\ call.pc = "idle"
      /\ \A t \in StepId : tasks[t].state = None
  BY <1>1, WorkflowAssumption DEF Init, NoCall
<1>3. RunStateAt /\ IdleQuestions /\ CallQuestions
  BY <1>2 DEF RunStateAt, IdleQuestions, CallQuestions, Asking, Answering
<1>4. SucceededIsCompleted /\ PassedIsDone
  BY <1>2 DEF SucceededIsCompleted, PassedIsDone, Passed, None
<1> QED
  BY <1>3, <1>4, InitTypeOK DEF IInv, Coherent

\* The inductive invariant holds throughout.
LEMMA Invariance == Spec => []IInv
BY InitIInv, NextIInv, PTL DEF Spec

-----------------------------------------------------------------------------
(* The theorems. *)

\* Between two commands a run that nothing has torn waits for a human exactly when one
\* question is pending, and that question can be answered: it is about the current step,
\* whose task waits, and an exhausted task still has the attempt and budget it is bound to.
THEOREM RunWaitsForOneQuestion == Spec => []WaitingIsOneQuestion
<1>1. IInv => WaitingIsOneQuestion
  BY DEF IInv, Coherent, IdleQuestions, Justified, Bound, WaitingIsOneQuestion, At
<1> QED
  BY <1>1, Invariance, PTL

\* Between two commands every step that such a run has passed is done: its task has
\* succeeded with a completed result, for any routes, crashes, retries and revisions.
THEOREM PassedSteps == Spec => []PassedStepsAreDone
<1>1. IInv => PassedStepsAreDone
  BY DEF IInv, Coherent, PassedIsDone, Passed, PassedStepsAreDone, At
<1> QED
  BY <1>1, Invariance, PTL

\* A gated step is passed only by the acceptance of its own approval.
THEOREM GatesAreKept == Spec => GatesArePassedByApproval
<1> DEFINE P == (~torn /\ Passes /\ Current \in Gated) =>
                    /\ At("answered")
                    /\ call.question.trigger = "ROUTE_STEP_APPROVAL"
                    /\ call.question.task = Current
<1>1. IInv /\ [Next]_vars => [P]_vars
  <2> SUFFICES ASSUME IInv, [Next]_vars, ~torn, Passes, Current \in Gated
               PROVE  /\ At("answered")
                      /\ call.question.trigger = "ROUTE_STEP_APPROVAL"
                      /\ call.question.task = Current
    OBVIOUS
  <2>1. TypeOK /\ RowsExist /\ Coherent
    BY DEF IInv
  <2>2. /\ ~PastEnd /\ run'.route = run.route
        /\ \/ run'.step > run.step
           \/ run.state # "TERMINAL" /\ run'.state = "TERMINAL" /\ run'.outcome = "SUCCEEDED"
    BY DEF Passes
  <2>3. run.step \in Nat \ {0} /\ ~(run.step > run.step)
    BY <2>1 DEF TypeOK
  <2>4. run' # run
    BY <2>2, <2>3
  <2>5. ASSUME NEW s, SetRun(s), s # "TERMINAL" PROVE FALSE
    BY <2>1, <2>2, <2>3, <2>5 DEF SetRun, TypeOK
  <2>6. ASSUME FinishRun("CANCELLED") PROVE FALSE
    BY <2>1, <2>2, <2>3, <2>6 DEF FinishRun, TypeOK
  <2>7. ~AdvanceAfterSuccess
    BY <2>4 DEF AdvanceAfterSuccess
  <2>8. ~ExecuteTask
    <3>1. ~AfterCommit
      <4>1. ASSUME AfterCommit PROVE tasks[Current].result \in {"COMPLETED", "DECISION", "FAILURE"}
        BY <2>1, <2>2, <4>1, CurrentStep DEF AfterCommit, At, RowsExist, TypeOK, Result
      <4> QED
        BY <2>4, <2>7, <4>1 DEF AfterCommit
    <3> QED
      BY <2>2, <2>4, <2>5, <2>7, <3>1
         DEF ExecuteTask, NoRemainingSteps, CreateTask, PreparationFails,
             UpstreamImplementationMissing, StartTask, RetryReady, CreateRetryExhaustedApproval,
             NothingToDo, AlreadySucceeded, AgentError, AfterCommitFails, AgentResult
  <2>9. ~CreateApproval
    BY <2>4, <2>5 DEF CreateApproval, InsertApproval, RunWaits, TaskWaits
  <2>10. ~RewindRun
    <3> SUFFICES ASSUME RewindRun PROVE FALSE
      OBVIOUS
    <3>1. PICK i \in DOMAIN run.route : /\ run.route[i] = call.question.upstream
                                        /\ run' = [run EXCEPT !.state = "ACTIVE", !.step = i]
      BY DEF RewindRun
    <3>2. /\ Justified(call.question)
          /\ call.question.trigger = "UPSTREAM_IMPLEMENTATION_MISSING"
      BY <2>1 DEF RewindRun, At, Coherent, CallQuestions, Answering
    <3>3. i < run.step
      BY <2>1, <2>2, <3>1, <3>2, UpstreamIsBefore
    <3>4. i \in Nat
      BY <2>1, RouteOfRun
    <3> QED
      BY <2>1, <2>2, <2>3, <3>1, <3>3, <3>4 DEF TypeOK
  <2>11. ~FinishAcceptedRun
    BY <2>1, <2>2 DEF FinishAcceptedRun, At, Coherent, RunStateAt
  <2>12. CASE Accept
    <3>1. /\ call.pc = "answered" /\ Justified(call.question) /\ call.question \in Question
          /\ call.choice \in Options(call.question.trigger)
          /\ call.question.trigger # "TASK_RETRY_EXHAUSTED"
      BY <2>1, <2>12 DEF Accept, At, Coherent, CallQuestions, Answering, RowsExist
    <3>2. call.question.task = Current
      BY <3>1 DEF Justified
    <3> QED
      BY <2>12, <3>1, <3>2, AcceptedIsApproval DEF At
  <2>13. FollowAnswer => Accept
    BY <2>4, <2>5, <2>6, <2>10, <2>11
       DEF FollowAnswer, ReactivateRun, MarkTaskSucceeded, CancelTask, FinishDeclinedRun,
           ReDispatch, UpstreamTargetMissing, ReworkUpstream, RewindTask
  <2>14. ASSUME NEW r \in Routes, ReviseRun(r) PROVE FALSE
    <3>1. run'.state = "ACTIVE" /\ run'.step = 1
      BY <2>1, <2>14 DEF ReviseRun, TypeOK
    <3> QED
      BY <2>2, <2>3, <3>1
  <2>15. ~Human
    BY <2>4, <2>5, <2>6, <2>14 DEF Human, ResolveRetryExhausted, ResolveApproval, PauseRun, ResumeRun
  <2>16. CallStep
    BY <2>4, <2>15 DEF Next, Tick, Crash, Stop, vars
  <2> QED
    BY <2>8, <2>9, <2>12, <2>13, <2>16 DEF CallStep
<1>2. Spec => [][P]_vars
  BY <1>1, Invariance, PTL DEF Spec
<1> QED
  BY <1>2 DEF GatesArePassedByApproval

\* A pause is never lost: only a resume or a revision takes a run out of HOLD.
THEOREM PauseKept == Spec => PauseIsKept
<1> DEFINE P == (~torn /\ run.state = "HOLD" /\ run'.state # "HOLD") =>
                    ResumeRun \/ \E r \in Routes : ReviseRun(r)
<1>1. IInv /\ [Next]_vars => [P]_vars
  <2> SUFFICES ASSUME IInv, [Next]_vars, ~torn, run.state = "HOLD", run'.state # "HOLD"
               PROVE  ResumeRun \/ \E r \in Routes : ReviseRun(r)
    OBVIOUS
  <2>1. TypeOK /\ RowsExist /\ Coherent
    BY DEF IInv
  <2>2. call.pc \in {"idle", "agent", "committed"}
    BY <2>1 DEF Coherent, RunStateAt, TypeOK, Step, Answering
  <2>3. ~ExecuteTask
    BY <2>2
       DEF ExecuteTask, NoRemainingSteps, CreateTask, PreparationFails,
           UpstreamImplementationMissing, StartTask, RetryReady, CreateRetryExhaustedApproval,
           NothingToDo, AlreadySucceeded, AgentError, AfterCommit, AfterCommitFails, AgentResult,
           At, Reads
  <2>4. ~CreateApproval /\ ~FollowAnswer
    BY <2>2
       DEF CreateApproval, InsertApproval, RunWaits, TaskWaits, FollowAnswer, ReactivateRun,
           MarkTaskSucceeded, CancelTask, FinishDeclinedRun, ReDispatch, UpstreamTargetMissing,
           ReworkUpstream, RewindTask, RewindRun, Accept, FinishAcceptedRun, At
  <2>5. Human
    BY <2>3, <2>4 DEF Next, Tick, Crash, Stop, vars, CallStep
  <2> QED
    BY <2>5 DEF Human, ResolveRetryExhausted, ResolveApproval, PauseRun
<1>2. Spec => [][P]_vars
  BY <1>1, Invariance, PTL DEF Spec
<1> QED
  BY <1>2 DEF PauseIsKept


=============================================================================
