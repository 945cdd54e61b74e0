------------------------------ MODULE Workflow ------------------------------
(***************************************************************************)
(* One workflow run of the orchestrator service: the frozen route, the     *)
(* tasks of its steps, the approvals a human answers, pause and resume,    *)
(* and the revision of the route.                                          *)
(*                                                                         *)
(* The orchestrator writer lock lets one command run at a time, so there   *)
(* is at most one `call'.  Every action is one autocommitted statement or  *)
(* one transaction of the Control Kernel, and the process may die between  *)
(* any two.  What happens inside an attempt (leases, heartbeats, repairs,  *)
(* the compare-and-swap) is TaskExecution; here an attempt is RUNNING and  *)
(* then decided.                                                           *)
(***************************************************************************)
EXTENDS Integers, SequencesExt

CONSTANTS
    StepId,           \* step identifiers
    Kind,             \* [StepId -> kind of the step]
    Gated,            \* the steps with human_approval_after
    Routes,           \* the route plans the Manager may submit: sequences of steps
    FirstRoutes,      \* those it may submit first
    MaxAttempts,      \* max_attempts of a new task
    RetryBatch,       \* attempts added by an approved retry batch
    AttemptBound,     \* bound on the attempts humans may ask for
    CrashBound,       \* bound on process deaths
    ReviseBound,      \* bound on route revisions
    TornBound,        \* bound on the commands given once `torn' is set
    InProcessControl  \* may pauseRun/resumeRun be called while an agent runs?

None == "NONE"

\* A route comes through compileRoutePlan: no step twice, and the stages in their order.
ASSUME WorkflowAssumption ==
    /\ None \notin StepId
    /\ Gated \subseteq StepId
    /\ Kind \in [StepId -> {"DEVELOPMENT", "TEST", "OTHER"}]
    /\ FirstRoutes \subseteq Routes
    /\ \A r \in Routes : r \in Seq(StepId) /\ r # <<>> /\ IsInjective(r)
    /\ \A r \in Routes : \A i, j \in DOMAIN r :
          Kind[r[i]] = "DEVELOPMENT" /\ Kind[r[j]] = "TEST" => i < j
    /\ MaxAttempts \in Nat \ {0}
    /\ RetryBatch \in Nat \ {0}
    /\ {CrashBound, ReviseBound, TornBound} \subseteq Nat
    /\ InProcessControl \in BOOLEAN

VARIABLES
    run,      \* the row of the runs table; step is current_step_index + 1
    tasks,    \* the tasks of the run, by step_id; state NONE: no row yet
    created,  \* the step_ids of the rows of tasks, in created_at order
    pending,  \* the PENDING rows of the approvals table, oldest first
    call,     \* the command in progress and what it holds in local variables
    torn,     \* history: a question or an answer was left half written
    budget    \* crashes, revisions, and commands on a torn run that are left

vars == <<run, tasks, created, pending, call, torn, budget>>

RunState  == {"ACTIVE", "WAITING_HUMAN", "HOLD", "TERMINAL"}
TaskState == {None, "READY", "RUNNING", "SUCCEEDED", "FAILED", "WAITING_HUMAN", "CANCELLED"}
Result    == {None, "COMPLETED", "DECISION", "FAILURE"}
Trigger   == {"ROUTE_STEP_APPROVAL", "AGENT_DECISION_REQUIRED", "TASK_RETRY_EXHAUSTED",
              "TASK_PREPARATION_FAILED", "UPSTREAM_IMPLEMENTATION_MISSING"}
Choice    == {"APPROVE", "REWORK", "RETRY_SAME_AGENT", "CANCEL", "ABORT"}
Declining == {"CANCEL", "ABORT"}

Step == {"idle", "ticked", "agent", "committed", "asking", "asked", "waiting", "resolved",
         "reactivated", "answered", "declining", "rewinding", "rewound", "finishing"}

\* attempt and maxAttempts are the binding of a TASK_RETRY_EXHAUSTED approval.
Question == [task : StepId, trigger : Trigger, attempt : Nat, maxAttempts : Nat,
             upstream : StepId \cup {None}]

NoQuestion == [task |-> None, trigger |-> None, attempt |-> 0, maxAttempts |-> 0,
               upstream |-> None]

NoCall == [pc |-> "idle", question |-> NoQuestion, choice |-> None]

TypeOK ==
    /\ run \in [state : RunState, outcome : {None, "SUCCEEDED", "CANCELLED"},
                step : Nat \ {0}, route : Routes]
    /\ tasks \in [StepId -> [state : TaskState, attempt : Nat \ {0},
                             maxAttempts : Nat \ {0}, result : Result]]
    /\ created \in Seq(StepId) /\ IsInjective(created)
    /\ \A t \in StepId : t \in ToSet(created) <=> tasks[t].state # None
    /\ pending \in Seq(Question)
    /\ call \in [pc : Step, question : Question \cup {NoQuestion}, choice : Choice \cup {None}]
    /\ torn \in BOOLEAN
    /\ budget \in [crashes : 0 .. CrashBound, revisions : 0 .. ReviseBound,
                   commands : 0 .. TornBound]

-----------------------------------------------------------------------------
At(p)   == call.pc = p

\* A command may begin.
Idle  == At("idle") /\ (torn => budget.commands > 0)
Begin == Idle /\ budget' = [budget EXCEPT !.commands = IF torn THEN @ - 1 ELSE @]
Goto(p) == call' = [call EXCEPT !.pc = p]
Return  == call' = NoCall

PastEnd == run.step > Len(run.route)
Current == run.route[run.step]

SetRun(s)     == run' = [run EXCEPT !.state = s]
SetTask(t, s) == tasks' = [tasks EXCEPT ![t].state = s]

\* updateTask(READY) with the next attempt.
NextAttempt(t) == tasks' = [tasks EXCEPT ![t].state = "READY", ![t].attempt = @ + 1]

\* finishRun.
FinishRun(o) == run' = [run EXCEPT !.state = "TERMINAL", !.outcome = o]

About(t, trigger) == [task |-> t, trigger |-> trigger, attempt |-> 0, maxAttempts |-> 0,
                      upstream |-> None]

\* The call goes on to createApproval.
Ask(q) == call' = [pc |-> "asking", question |-> q, choice |-> None]

\* options of the approval requests.  The RELEASE_DEPLOYMENT approval of a release
\* preflight stands under ROUTE_STEP_APPROVAL: its first option has another name, and
\* no branch of the service tells the two apart.
Options(trigger) ==
    CASE trigger \in {"ROUTE_STEP_APPROVAL", "AGENT_DECISION_REQUIRED"} ->
            {"APPROVE", "REWORK", "CANCEL"}
      [] trigger = "TASK_RETRY_EXHAUSTED"            -> {"RETRY_SAME_AGENT", "REWORK", "ABORT"}
      [] trigger = "TASK_PREPARATION_FAILED"         -> {"RETRY_SAME_AGENT", "ABORT"}
      [] trigger = "UPSTREAM_IMPLEMENTATION_MISSING" -> {"REWORK", "ABORT"}

\* prior.find(kind === 'DEVELOPMENT'): the oldest task, whatever route it is from.
Upstream ==
    LET developments == {i \in DOMAIN created : Kind[created[i]] = "DEVELOPMENT"}
    IN IF developments = {} THEN None ELSE created[Min(developments)]

\* completedDevelopmentTask.
Completed(t) == t # None /\ tasks[t].state = "SUCCEEDED" /\ tasks[t].result = "COMPLETED"

UpstreamMissing ==
    /\ Kind[Current] = "TEST"
    /\ \E t \in ToSet(run.route) : Kind[t] = "DEVELOPMENT"
    /\ ~Completed(Upstream)

-----------------------------------------------------------------------------
(* tick and executeTask. *)

RunningTasks == {t \in StepId : tasks[t].state = "RUNNING"}

\* Mutant of Tick: nothing is reaped.
TickWithoutReaper(lapsed) ==
    /\ Begin
    /\ IF run.state = "ACTIVE" THEN Goto("ticked") ELSE Return
    /\ UNCHANGED <<run, tasks, created, pending, torn>>

\* A tick reaps the tasks whose leases have lapsed, then looks at the run.
Tick(lapsed) ==
    /\ Begin
    /\ tasks' = [t \in StepId |-> IF t \in lapsed THEN [tasks[t] EXCEPT !.state = "FAILED"]
                                                  ELSE tasks[t]]
    /\ IF run.state = "ACTIVE" THEN Goto("ticked") ELSE Return
    /\ UNCHANGED <<run, created, pending, torn>>

Reads(s) == At("ticked") /\ ~PastEnd /\ tasks[Current].state = s

NoRemainingSteps ==
    /\ At("ticked") /\ PastEnd
    /\ FinishRun("SUCCEEDED")
    /\ Return
    /\ UNCHANGED <<tasks, created, pending, torn, budget>>

\* Mutant of CreateTask: a failed step gets a second row.
CreateTaskAgain ==
    /\ Reads(None) \/ Reads("FAILED")
    /\ SetTask(Current, "READY")
    /\ created' = Append(created, Current)
    /\ UNCHANGED <<run, pending, call, torn, budget>>

CreateTask ==
    /\ Reads(None)
    /\ SetTask(Current, "READY")
    /\ created' = Append(created, Current)
    /\ UNCHANGED <<run, pending, call, torn, budget>>

AskUpstream == Ask([About(Current, "UPSTREAM_IMPLEMENTATION_MISSING") EXCEPT !.upstream = Upstream])

\* The worktree cannot be prepared.  A question already pending is not asked
\* again: executeTask then goes on without a task, and throws.
PreparationFails ==
    /\ Reads("READY")
    /\ LET q == About(Current, "TASK_PREPARATION_FAILED")
       IN CASE q \notin ToSet(pending) -> Ask(q)
            [] q \in ToSet(pending) /\ UpstreamMissing -> AskUpstream
            [] OTHER -> Return
    /\ UNCHANGED <<run, tasks, created, pending, torn, budget>>

UpstreamImplementationMissing ==
    /\ Reads("READY")
    /\ UpstreamMissing
    /\ AskUpstream
    /\ UNCHANGED <<run, tasks, created, pending, torn, budget>>

StartTask ==
    /\ Reads("READY")
    /\ ~UpstreamMissing
    /\ SetTask(Current, "RUNNING")
    /\ Goto("agent")
    /\ UNCHANGED <<run, created, pending, torn, budget>>

RetryReady ==
    /\ Reads("FAILED")
    /\ tasks[Current].attempt < tasks[Current].maxAttempts
    /\ NextAttempt(Current)
    /\ Return
    /\ UNCHANGED <<run, created, pending, torn, budget>>

\* createApproval(TASK_RETRY_EXHAUSTED): one transaction.
CreateRetryExhaustedApproval ==
    /\ Reads("FAILED")
    /\ tasks[Current].attempt >= tasks[Current].maxAttempts
    /\ pending' = Append(pending,
          [About(Current, "TASK_RETRY_EXHAUSTED") EXCEPT !.attempt = tasks[Current].attempt,
                                                         !.maxAttempts = tasks[Current].maxAttempts])
    /\ SetTask(Current, "WAITING_HUMAN")
    /\ SetRun("WAITING_HUMAN")
    /\ Return
    /\ UNCHANGED <<created, torn, budget>>

\* A task that waits, runs elsewhere or is cancelled ends the tick.
NothingToDo ==
    /\ \E s \in {"WAITING_HUMAN", "RUNNING", "CANCELLED"} : Reads(s)
    /\ Return
    /\ UNCHANGED <<run, tasks, created, pending, torn, budget>>

\* Mutant of AdvanceAfterSuccess: human_approval_after is not looked at.
AdvanceWithoutApproval ==
    /\ run' = IF run.step = Len(run.route)
              THEN [run EXCEPT !.state = "TERMINAL", !.outcome = "SUCCEEDED"]
              ELSE [run EXCEPT !.state = "ACTIVE", !.step = @ + 1]
    /\ Return

\* advanceAfterSuccess.
AdvanceAfterSuccess ==
    \/ /\ Current \in Gated
       /\ Ask(About(Current, "ROUTE_STEP_APPROVAL"))
       /\ UNCHANGED run
    \/ /\ Current \notin Gated
       /\ run.step = Len(run.route)
       /\ FinishRun("SUCCEEDED")
       /\ Return
    \/ /\ Current \notin Gated
       /\ run.step < Len(run.route)
       /\ run' = [run EXCEPT !.state = "ACTIVE", !.step = @ + 1]
       /\ Return

AlreadySucceeded ==
    /\ Reads("SUCCEEDED")
    /\ AdvanceAfterSuccess
    /\ UNCHANGED <<tasks, created, pending, torn, budget>>

\* executionMutation with an ingested result.
AgentResult(r) ==
    /\ At("agent")
    /\ tasks' = [tasks EXCEPT ![Current].result = r,
                              ![Current].state = IF r = "FAILURE" THEN "FAILED" ELSE "SUCCEEDED"]
    /\ Goto("committed")
    /\ UNCHANGED <<run, created, pending, torn, budget>>

\* executionMutation in the catch branch: payload.result is not overwritten.
AgentError ==
    /\ At("agent")
    /\ SetTask(Current, "FAILED")
    /\ Return
    /\ UNCHANGED <<run, created, pending, torn, budget>>

\* Mutant of AfterCommit: the run is not read again.
AfterCommitStaleRun ==
    /\ At("committed")
    /\ CASE tasks[Current].result = "DECISION" ->
                Ask(About(Current, "AGENT_DECISION_REQUIRED")) /\ UNCHANGED run
         [] tasks[Current].result = "FAILURE"   -> Return /\ UNCHANGED run
         [] tasks[Current].result = "COMPLETED" -> AdvanceAfterSuccess
    /\ UNCHANGED <<tasks, created, pending, torn, budget>>

\* What follows the commit, with the run read again: a paused run goes no further.
AfterCommit ==
    /\ At("committed")
    /\ CASE run.state = "HOLD" -> Return /\ UNCHANGED run
         [] run.state # "HOLD" /\ tasks[Current].result = "DECISION" ->
                Ask(About(Current, "AGENT_DECISION_REQUIRED")) /\ UNCHANGED run
         [] run.state # "HOLD" /\ tasks[Current].result = "FAILURE"   -> Return /\ UNCHANGED run
         [] run.state # "HOLD" /\ tasks[Current].result = "COMPLETED" -> AdvanceAfterSuccess
    /\ torn' = (torn \/ (run.state = "HOLD" /\ tasks[Current].result = "DECISION"))
    /\ UNCHANGED <<tasks, created, pending, budget>>

\* registerArtifact or releaseLease throws.  The catch branch finds its lease gone
\* and abandons the call: the task stays decided, and what follows is left to a tick.
AfterCommitFails ==
    /\ At("committed")
    /\ Return
    /\ torn' = (torn \/ tasks[Current].result = "DECISION")
    /\ UNCHANGED <<run, tasks, created, pending, budget>>

-----------------------------------------------------------------------------
(* createApproval: three statements. *)

InsertApproval ==
    /\ At("asking")
    /\ pending' = Append(pending, call.question)
    /\ Goto("asked")
    /\ UNCHANGED <<run, tasks, created, torn, budget>>

RunWaits ==
    /\ At("asked")
    /\ SetRun("WAITING_HUMAN")
    /\ Goto("waiting")
    /\ UNCHANGED <<tasks, created, pending, torn, budget>>

\* Mutant of TaskWaits: the task of the approval is left as it was.
TaskDoesNotWait ==
    /\ At("waiting")
    /\ Return
    /\ UNCHANGED <<run, tasks, created, pending, torn, budget>>

TaskWaits ==
    /\ At("waiting")
    /\ SetTask(call.question.task, "WAITING_HUMAN")
    /\ Return
    /\ UNCHANGED <<run, created, pending, torn, budget>>

-----------------------------------------------------------------------------
(* resolveDecision, for the Manager's DECISION and for the Monitor's command. *)

\* AttemptBound as a guard on the answers that start another attempt.
WithinBound(q, c) ==
    \/ c \in Declining
    \/ c = "APPROVE" /\ tasks[q.task].result # "DECISION"
    \/ \A t \in {q.task, q.upstream} \ {None} : tasks[t].attempt < AttemptBound

Answers(i, c) ==
    /\ Begin
    /\ c \in Options(pending[i].trigger)
    /\ WithinBound(pending[i], c)

\* resolveRetryExhaustedApproval: one transaction, rolled back unless task and
\* run still match the approval.
ResolveRetryExhausted(i, c) ==
    LET q == pending[i]
        t == tasks[q.task]
    IN
    /\ Answers(i, c)
    /\ q.trigger = "TASK_RETRY_EXHAUSTED"
    /\ t.state = "WAITING_HUMAN" /\ t.attempt = q.attempt /\ t.maxAttempts = q.maxAttempts
    /\ run.state = "WAITING_HUMAN"
    /\ pending' = RemoveAt(pending, i)
    /\ \/ /\ c \in Declining
          /\ SetTask(q.task, "CANCELLED")
          /\ FinishRun("CANCELLED")
       \/ /\ c \notin Declining
          /\ tasks' = [tasks EXCEPT ![q.task].state = "READY", ![q.task].attempt = @ + 1,
                                    ![q.task].maxAttempts = @ + RetryBatch]
          /\ SetRun("ACTIVE")
    /\ UNCHANGED <<created, call, torn>>

\* resolveApproval: three statements.  The state of the run is not a condition.
ResolveApproval(i, c) ==
    /\ Answers(i, c)
    /\ pending[i].trigger # "TASK_RETRY_EXHAUSTED"
    /\ pending' = RemoveAt(pending, i)
    /\ call' = [pc |-> "resolved", question |-> pending[i], choice |-> c]
    /\ UNCHANGED <<run, tasks, created, torn>>

ReactivateRun ==
    /\ At("resolved")
    /\ SetRun("ACTIVE")
    /\ Goto("reactivated")
    /\ UNCHANGED <<tasks, created, pending, torn, budget>>

MarkTaskSucceeded ==
    /\ At("reactivated")
    /\ SetTask(call.question.task, "SUCCEEDED")
    /\ Goto("answered")
    /\ UNCHANGED <<run, created, pending, torn, budget>>

Declined  == call.choice \in Declining
Redone    == ~Declined /\ tasks[call.question.task].result = "DECISION"
Rewound   == /\ ~Declined /\ ~Redone
             /\ call.question.trigger = "UPSTREAM_IMPLEMENTATION_MISSING"
             /\ call.choice = "REWORK"
Reworked  == ~Declined /\ ~Redone /\ ~Rewound /\ call.choice \in {"RETRY_SAME_AGENT", "REWORK"}

CancelTask ==
    /\ At("answered") /\ Declined
    /\ SetTask(call.question.task, "CANCELLED")
    /\ Goto("declining")
    /\ UNCHANGED <<run, created, pending, torn, budget>>

FinishDeclinedRun ==
    /\ At("declining")
    /\ FinishRun("CANCELLED")
    /\ Return
    /\ UNCHANGED <<tasks, created, pending, torn, budget>>

\* Mutant of ReDispatch: the task keeps the SUCCEEDED that resolveApproval gave it.
ReDispatchForgotten ==
    /\ At("answered") /\ (Redone \/ Reworked)
    /\ Return
    /\ UNCHANGED <<run, tasks, created, pending, torn, budget>>

\* The agent's own question is answered, or the user wants the attempt done again.
ReDispatch ==
    /\ At("answered") /\ (Redone \/ Reworked)
    /\ NextAttempt(call.question.task)
    /\ Return
    /\ UNCHANGED <<run, created, pending, torn, budget>>

UpstreamInRoute == call.question.upstream \in ToSet(run.route)

\* UPSTREAM_REWORK_TARGET_MISSING: thrown with the TEST task already SUCCEEDED.
UpstreamTargetMissing ==
    /\ At("answered") /\ Rewound
    /\ ~UpstreamInRoute
    /\ Return
    /\ torn' = TRUE
    /\ UNCHANGED <<run, tasks, created, pending, budget>>

ReworkUpstream ==
    /\ At("answered") /\ Rewound
    /\ UpstreamInRoute
    /\ NextAttempt(call.question.upstream)
    /\ Goto("rewinding")
    /\ UNCHANGED <<run, created, pending, torn, budget>>

RewindTask ==
    /\ At("rewinding")
    /\ SetTask(call.question.task, "READY")
    /\ Goto("rewound")
    /\ UNCHANGED <<run, created, pending, torn, budget>>

RewindRun ==
    /\ At("rewound")
    /\ \E i \in DOMAIN run.route :
          /\ run.route[i] = call.question.upstream
          /\ run' = [run EXCEPT !.state = "ACTIVE", !.step = i]
    /\ Return
    /\ UNCHANGED <<tasks, created, pending, torn, budget>>

\* The approval is accepted: the run moves on from its current step, which nothing
\* compares with the step of the approval.
Accept ==
    /\ At("answered") /\ ~Declined /\ ~Redone /\ ~Rewound /\ ~Reworked
    /\ run' = [run EXCEPT !.state = "ACTIVE", !.step = @ + 1]
    /\ IF run.step >= Len(run.route) THEN Goto("finishing") ELSE Return
    /\ UNCHANGED <<tasks, created, pending, torn, budget>>

FinishAcceptedRun ==
    /\ At("finishing")
    /\ FinishRun("SUCCEEDED")
    /\ Return
    /\ UNCHANGED <<tasks, created, pending, torn, budget>>

-----------------------------------------------------------------------------
(* pauseRun, resumeRun, reviseRun, and the death of the process. *)

Control ==
    \/ Begin
    \/ InProcessControl /\ At("agent") /\ UNCHANGED budget

PauseRun ==
    /\ Control
    /\ run.state = "ACTIVE"
    /\ SetRun("HOLD")
    /\ UNCHANGED <<tasks, created, pending, call, torn>>

ResumeRun ==
    /\ Control
    /\ run.state = "HOLD"
    /\ SetRun("ACTIVE")
    /\ UNCHANGED <<tasks, created, pending, call, torn>>

\* The new route starts from its first step, in whatever state the run was; the
\* tasks and the pending approvals of the old route stay.
ReviseRun(r) ==
    /\ Idle
    /\ budget.revisions > 0
    /\ RunningTasks = {}
    /\ run' = [run EXCEPT !.state = "ACTIVE", !.route = r, !.step = 1]
    /\ torn' = (torn \/ pending # <<>> \/ run.state = "TERMINAL")
    /\ budget' = [budget EXCEPT !.revisions = @ - 1,
                             !.commands = IF torn THEN @ - 1 ELSE @]
    /\ UNCHANGED <<tasks, created, pending, call>>

\* The points at which a death loses what the next tick cannot work out again.
HalfWritten ==
    \/ call.pc \in {"asked", "waiting", "resolved", "reactivated", "answered", "declining",
                    "rewinding", "rewound"}
    \/ call.pc \in {"committed", "asking"} /\ tasks[Current].result = "DECISION"

Crash ==
    /\ ~At("idle")
    /\ budget.crashes > 0
    /\ Return
    /\ torn' = (torn \/ HalfWritten)
    /\ budget' = [budget EXCEPT !.crashes = @ - 1]
    /\ UNCHANGED <<run, tasks, created, pending>>

-----------------------------------------------------------------------------
Init ==
    /\ \E r \in FirstRoutes :
          run = [state |-> "ACTIVE", outcome |-> None, step |-> 1, route |-> r]
    /\ tasks = [t \in StepId |-> [state |-> None, attempt |-> 1, maxAttempts |-> MaxAttempts,
                                  result |-> None]]
    /\ created = <<>>
    /\ pending = <<>>
    /\ call = NoCall
    /\ torn = FALSE
    /\ budget = [crashes |-> CrashBound, revisions |-> ReviseBound, commands |-> TornBound]

ExecuteTask ==
    \/ NoRemainingSteps \/ CreateTask \/ PreparationFails \/ UpstreamImplementationMissing
    \/ StartTask \/ RetryReady \/ CreateRetryExhaustedApproval \/ NothingToDo \/ AlreadySucceeded
    \/ AgentError \/ AfterCommit \/ AfterCommitFails
    \/ \E r \in Result \ {None} : AgentResult(r)

CreateApproval == InsertApproval \/ RunWaits \/ TaskWaits

FollowAnswer ==
    \/ ReactivateRun \/ MarkTaskSucceeded \/ CancelTask \/ FinishDeclinedRun \/ ReDispatch
    \/ UpstreamTargetMissing \/ ReworkUpstream \/ RewindTask \/ RewindRun
    \/ Accept \/ FinishAcceptedRun

CallStep == ExecuteTask \/ CreateApproval \/ FollowAnswer

Human ==
    \/ \E i \in DOMAIN pending, c \in Choice : ResolveRetryExhausted(i, c) \/ ResolveApproval(i, c)
    \/ PauseRun \/ ResumeRun
    \/ \E r \in Routes : ReviseRun(r)

\* The bound TornBound: no command is given any more.
Stop == At("idle") /\ ~Idle /\ UNCHANGED vars

Next ==
    \/ \E lapsed \in SUBSET RunningTasks : Tick(lapsed)
    \/ CallStep
    \/ Human
    \/ Crash
    \/ Stop

Spec == Init /\ [][Next]_vars

\* The service loop ticks, a command that does not die proceeds, and a lease that
\* nobody renews has lapsed by one of the ticks.
FairSpec ==
    /\ Spec
    /\ WF_vars(\E lapsed \in SUBSET RunningTasks : Tick(lapsed))
    /\ SF_vars(Tick(RunningTasks))
    /\ WF_vars(CallStep)

-----------------------------------------------------------------------------
(* Correctness. *)

\* Between two commands a run waits for a human exactly when one question is
\* pending, and the question is one that can be answered: it is about the task of
\* the current step, that task waits too, and an exhausted task still has the
\* attempt and the budget the question is bound to.
WaitingIsOneQuestion ==
    (At("idle") /\ ~torn) =>
        /\ run.state = "WAITING_HUMAN" <=> pending # <<>>
        /\ pending # <<>> =>
              /\ Len(pending) = 1
              /\ pending[1].task = Current
              /\ tasks[Current].state = "WAITING_HUMAN"
              /\ pending[1].trigger = "TASK_RETRY_EXHAUSTED" =>
                    /\ pending[1].attempt = tasks[Current].attempt
                    /\ pending[1].maxAttempts = tasks[Current].maxAttempts

\* Between two commands every step the run has passed was done: its task has
\* SUCCEEDED with a completed result, not merely been marked so by an answer.
PassedStepsAreDone ==
    (At("idle") /\ ~torn) =>
        LET passed == IF run.state = "TERMINAL" /\ run.outcome = "SUCCEEDED"
                      THEN DOMAIN run.route ELSE 1 .. (run.step - 1)
        IN \A i \in passed : Completed(run.route[i])

Passes ==
    /\ ~PastEnd /\ run'.route = run.route
    /\ \/ run'.step > run.step
       \/ run.state # "TERMINAL" /\ run'.state = "TERMINAL" /\ run'.outcome = "SUCCEEDED"

\* A step with human_approval_after is passed only by the acceptance of its own
\* approval, whatever crashes, retries, pauses and revisions come between.
GatesArePassedByApproval ==
    [][(~torn /\ Passes /\ Current \in Gated) =>
          /\ At("answered")
          /\ call.question.trigger = "ROUTE_STEP_APPROVAL"
          /\ call.question.task = Current]_vars

\* A pause is never lost: a run leaves HOLD only because it is resumed or revised.
PauseIsKept ==
    [][(~torn /\ run.state = "HOLD" /\ run'.state # "HOLD") =>
          ResumeRun \/ \E r \in Routes : ReviseRun(r)]_vars

\* An active run comes to rest: it finishes, or waits for a human, or is paused.
ActiveRunComesToRest == run.state = "ACTIVE" ~> (run.state # "ACTIVE" \/ torn)

\* A step whose agent asked for a human decision is not passed without one: an
\* answered question starts another attempt, whose result replaces the question.
AgentQuestionsAreAsked ==
    At("idle") => \A i \in 1 .. (run.step - 1) : tasks[run.route[i]].result # "DECISION"

\* An answer is accepted only for the step the run is at.
AcceptedAnswerIsCurrent == [][Accept => ~PastEnd /\ call.question.task = Current]_vars
=============================================================================
