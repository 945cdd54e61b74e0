# TLA+ models of the openclaw-multi-agent workflow system

This directory models the control logic of the repository: how a workflow run is driven
through its route by an orchestrator that may die at any statement, how one attempt of a
task is decided exactly once under an expiring lease, how the processes that write to the
kernel exclude each other, how the service answers what is put into its queues, what becomes
of the files of an attempt, and what the commands beside the service may do to each other.
The modules are checked with TLC on small instances, and every invariant and safety action
property that a run finds to hold is also proved with TLAPS for every value of the constants.
Every definition names the code it stands for in `PROJECT.json` (`map`).

All paths below are relative to `src/`.

## The system

One machine, one SQLite database (the *Control Kernel*), several short- and long-lived
Node processes. The Manager agent talks to the user and drops request files; the
Orchestrator turns them into a run, executes its steps by starting an external agent process
for each, and asks humans when it must; the Monitor shows what is in the database and drops
command files. SQLite runs in autocommit mode, so every `database.run` is a transaction of
its own unless the code opens one (`BEGIN IMMEDIATE`).

| Part | Code | State | Operations |
|---|---|---|---|
| Task execution | `scripts/orchestrator/service.mjs` `taskForStep`, `executeTask`, `runWithLeaseHeartbeat`; `scripts/control-kernel/lease.mjs` | `tasks`, `executions` | lease, start, dispatch, heartbeat, JSON repair, commit, release, abandon, reap, retry, exhaust |
| Workflow run | `service.mjs` `tick`, `advanceAfterSuccess`, `createRun`, `reviseRun`, `resolveDecision`, `pauseRun`, `resumeRun`; `scripts/control-kernel/workflow-repository.mjs` | `runs`, `tasks`, `approvals` | advance, ask, answer, rework, rewind, pause, resume, revise, finish |
| Writer lock | `scripts/runtime-core/workflow-lock.mjs` | one file | acquire, judge stale, reclaim, release |
| Service loop and queues | `foreground-service.mjs`, `manager-request-queue.mjs`, `approval-command-queue.mjs`, `workflow-control-command-queue.mjs` | request files, receipts, status file | scan, process, tickAll, drain |
| Notification outbox | `service.mjs` `announce`, `deliverNotifications` | `notifications` | queue, deliver, fail |
| Snapshots and worktrees | `snapshot-service.mjs`, `git-worktree.mjs`, `task-workspace.mjs` | operation directories, git worktrees and refs, `snapshots`, `runs.candidate_commit` | prepare, accept, recover, restore, revert |
| TEST sandbox staging | `test-sandbox-staging.mjs` | one staging directory per host, a lease on a local endpoint, receipts | acquire, stage, collect, import, clean up |
| JSON ingestion and repair | `scripts/runtime-core/json-ingestion.mjs`, `output-ingestion.mjs`, `json-regeneration.mjs` | the raw and the published result of an attempt | extract, repair, ask again, publish |
| HR review | `scripts/hr/service.mjs` | `hr_jobs` | queue, run in the background |
| Release control | `scripts/release-control/service.mjs` | `paths.json` | preflight, deploy |
| Manager control | `scripts/manager-control/service.mjs`, `request-submission.mjs` | `projects.json`, project directories, `drafts/`, `requests/` | ensure, resolve, fetch, validate, submit |
| Route policy | `scripts/orchestrator/route-policy.mjs` | none | accept or refuse a route |
| Monitor | `monitor/*.mjs` | telemetry database, event hub, streams | refresh, tail sessions, publish, serve a browser, write command files |

How they interact: the service loop scans the request queue (CREATE, CHANGE, DECISION), then
`tickAll` scans the Monitor's two command queues and ticks every ACTIVE run in turn; a tick
reaps expired leases, reads the run and executes its current step; every transition queues a
notification, and finished attempts queue HR jobs and snapshots. Every command that writes
takes the writer lock, so there is one writing process at a time. Inside it everything is
sequential, except for the heartbeat timer and the HR run in the background.

What is hard: a process can die between any two statements and the next one starts from the
tables alone; leases expire while their holder is still working; answers of humans arrive for
questions that have been overtaken; most state changes that belong together are several
statements; the lock file is reclaimed from processes that died. `PROJECT.json` lists these
under `hazards`, each at its line and with the property that covers it.

What makes each part correct:

- **Task execution**: an attempt is started once and decided at most once, by the process
  that holds its lease; a lost process does not leave its task RUNNING; attempts and repairs
  stay within their budgets.
- **Workflow run**: a step is passed only when it was done and, where the route says so,
  approved; a run waits for exactly one answerable question; a pause is not lost; an active
  run comes to rest.
- **Writer lock**: one writer; a live lock is taken away by nobody else; an abandoned lock
  does not stay.
- **Queues and outbox**: a request takes effect once, a question has one answer, what was
  submitted is never lost from sight, every file gets its receipt, a bad run or notification
  does not starve the others.
- **Snapshots**: every row has its ref, no agent works where another has worked, the candidate
  comes down by accepted snapshots of agents with the right to change the repository, a
  completed step hands its own output to the next one, failed work is kept.
- **Attempt output**: what is published is the attempt's own and unambiguous; what is imported
  is the verified commit it names; the staging directory is given back.
- **HR review**: a finished review stays finished.
- **Release control**: nothing is deployed without an approval of exactly that workflow, commit
  and URL, no path is given to two workflows, nothing recorded is deployed again.
- **Manager control**: what a command has reported stands; only what was validated is queued.
- **Route policy**: no accepted route deploys without a human between preflight and deployment.
- **Monitor**: each visible line of a session becomes one event, and a browser whose stream
  breaks gets what it missed.

## The modules

| Module | What it is |
|---|---|
| `TaskLifecycle` | Abstract specification of one row of `tasks`: start, decide, expire, retry, exhaust, grant, decline, rework. No processes, no leases. |
| `TaskExecution` | `executeTask` over `tasks` and `executions`, one step per statement. Implements `TaskLifecycle`. |
| `TaskExecution_proofs` | Type correctness, the inductive invariant, two safety theorems and the refinement. |
| `Workflow` | A run with its route, tasks, approvals, human commands, crashes. |
| `Workflow_proofs` | Type correctness, the two invariants and the two action properties of a run. |
| `WriterLock` | The lock file and the processes that want it, one step per system call. |
| `WriterLock_proofs` | Type correctness, the inductive invariant, exclusion, who removes a lock. |
| `ServiceLoop` | The foreground service: poll loop, three queues with receipts, ticks, outbox. |
| `ServiceLoop_proofs` | Type correctness and the five invariants of the queues and the outbox. |
| `Snapshots` | Workspaces, worktrees, snapshots and the candidate under `executeTask` and the operator's commands. |
| `Snapshots_proofs` | Type correctness and the six invariants of refs, worktrees and the candidate. |
| `JsonIngestion` | `ingestJsonText` as operators on sequences of symbols. |
| `AttemptOutput` | Staging, turns, repair, publication and import of a TEST attempt; uses `JsonIngestion`. |
| `AttemptOutput_proofs` | Type correctness, what is published and what is imported. |
| `RoutePolicy` | `compileRoutePlan` as an operator that returns the error. |
| `ControlCommands` | The processes of the control commands and how many commands they may give. |
| `ReleaseControl`, `ManagerControl`, `HrReview`, `Monitor` | What runs beside the service loop, each over `ControlCommands`. |
| `ControlPlane` | The composition of these four. |
| `ControlPlane_proofs` | Type correctness and the safety properties of the four parts. |
| `Lemmas` | Facts about numbers and sequences that several proofs use. |
| `MC*` | Values of the constants for TLC. |

### TaskExecution

A *slot* of `Execution` is an invocation of `executeTask` together with the row of
`executions` it inserts; the slot is used again, under a fresh execution id, once its row is
no longer active. `pc[e]` is the place of the invocation between two awaits, `seen[e]` the
task as it read it at the start (`current` in the code, with the local repair counter),
`outcome[e]` what it is about to commit. `executions[e].remaining` is
`lease_expires_at - now` in ticks of a clock and saturates below zero: `Held` is
`lease_expires_at >= now`, `Expired` is `<`, exactly as in the two SQL conditions.

| Action | Code |
|---|---|
| `Tick`, `TaskForStep` | `tick`: reap, read the run; `taskForStep` and the dispatch on the task's state |
| `AcquireLease`, `StartTask`, `Dispatch` | INSERT OR IGNORE under the partial unique index, unconditional `updateTask(RUNNING)`, `assertExecutionLease('DISPATCHING')` |
| `RenewHeartbeat`, `AgentResult`, `AgentFails`, `RegenerateJson` | `runWithLeaseHeartbeat` and the loop it runs |
| `StagingFails`, `SnapshotFails` | the two failures around the agent |
| `AssertExecutionLease`, `CommitResult`, `ReleaseLease` | lease check, `updateTaskForExecution` (the compare-and-swap), `releaseLease`, in both branches |
| `AbandonReap`, `AbandonRelease` | `abandonExecution` |
| `RetryReady`, `CreateRetryExhaustedApproval`, `GrantRetryBatch`, `DeclineRetryBatch`, `ReworkTask` | what follows a failed or finished attempt |
| `HeartbeatError`, `AbortRegeneration`, `ConcurrentReap` | faults: the heartbeat's SQL throws; a shutdown is found between two repairs; a second client of the kernel reaps |
| `Crash`, `ClockTick` | the process dies; time passes |

The heartbeats before and after a repair are merged with the repair (`RegenerateJson`): each
of them renews a lease that the step just renewed, and the losing outcomes all lead to
`abandon`.

`disturbed` is a history variable: the tasks whose call was hit by one of the three faults.
`RunningIsRecoverable` holds for the others; without the exception it is false
(`task_orphaned`), and that is a finding.

### Workflow

`run` is the row of `runs` (`step` is `current_step_index + 1`), `tasks` the tasks by step id,
`created` their order of creation, `pending` the PENDING approvals, `call` the command in
progress with the approval and the choice it holds in local variables. The writer lock allows
one command at a time, so there is one `call`. An attempt is RUNNING and then decided; what
happens inside is `TaskExecution`. A `Tick` takes the set of RUNNING tasks whose leases have
lapsed, any subset, and reaps them.

The general branch of `createApproval` is three actions (`InsertApproval`, `RunWaits`,
`TaskWaits`), `resolveApproval` is three more (`ResolveApproval`, `ReactivateRun`,
`MarkTaskSucceeded`) and what `resolveDecision` does after it is one action per statement,
since the process can die between any two; the TASK_RETRY_EXHAUSTED approval is created and
answered in one transaction and is one action each way.

`torn` is a history variable, set where the code leaves a question or an answer half written:
a crash inside one of those groups, a result with a question committed while the run is
paused, a failure between that commit and the approval (`AfterCommitFails`: the catch finds
its lease gone and abandons the call), a revision with an approval pending,
`UPSTREAM_REWORK_TARGET_MISSING`. The safety properties are about runs that are not torn. They
still cover crashes everywhere else, retries, rework, pauses and revisions. What goes wrong in
a torn run is shown by the two runs that expect a violation and listed under `hazards`.

### WriterLock

One file, one step per system call: create exclusively, write the owner, read the existing
owner, judge it, rename it away, read the own file, unlink. A pid is reused once no file and
no process knows it. Only owners on the same host occur, so `lockIsStale` decides by pid, or
by the file's age when the owner cannot be read. `raced` is a history variable: a lock was
created while another process was about to act on what it had read of the previous one.

### ServiceLoop

`queued` and `receipt` are the directories of the three queues with their receipts (a file is a
number, its place in the sorted listing), `runs` a summary of each run, `outbox` the rows of
`notifications` in order of creation, `stop` the file `foreground.stop.json`. `svc` is what the
process holds in memory: the phase of the cycle, the set of files or runs still to do and the
set of notifications of the delivery round, each taken in its order. One `Cycle` goes through
`Phase`: the Manager's requests, then, as `tickAll`, approval commands, control commands, one
tick of every active run, and a delivery round.

| Action | Code |
|---|---|
| `Submit`, `RequestStop` | a file is put into a directory by the Manager, the Monitor or the command line; `foreground-service.mjs` stop request |
| `Start`, `Cycle`, `NextPhase`, `Stopped`, `Crash` | the poll loop and the end of the process at any wait |
| `ProcessRequest`, `ProcessApprovalCommand`, `ProcessControlCommand` | the `process` function of each queue; within them `Reject`, `NothingToChange`, `Apply` (the effect) and `UnsafeRequest` (an entry that is no regular file ends the scan) |
| `Queue`, `Announced`, `WriteReceipt` | the INSERT and the delivery round of `announce`; the receipt after both |
| `TickOnly`, `TickAsks`, `TickFinishes`, `TickThrows` | what a tick of `Workflow` amounts to for the loop; a throw ends `tickAll` |
| `Suppress`, `Wake`, `MarkDelivered`, `DeliveryFails` | `deliverNotifications`, row by row; `Wake` is the Manager's turn |
| `AnnounceFails` | an INSERT or UPDATE of the outbox throws |

A delivery fails before the turn (no session, the runner cannot start) or after it (its exit
code, its reply, a stop signal: `service.mjs` 261): both are recorded FAILED, count as an
attempt in the row, and the next round takes the row again, so that the Manager may be woken
twice without any crash. `OneWakePerNotification` allows one turn, and one more for each attempt
recorded FAILED, each crash and each failing write.

`Status` is `readOrchestratorStatus`. `applied` counts the effects of a file and is a history
variable. The inside of a tick and of an answer is `Workflow`; here each is one step.

### Snapshots

`commits` is the object store all worktrees share, as the parents of each commit; `trees` the
operation directories with the worktree in each (`head`, `dirty`, whether an agent is `busy` in
it), `refs` the pinning refs, `rows` the snapshots table, `restores` the restore branches, `run`
and `tasks` the columns that concern them. `call[c]` is one `executeTask` or the operator. `gone`
and `late` are history variables: the attempts that lost their lease or process, and those that
moved the candidate after they had lost their lease.

`CreateTask`, `TaskForStep`, `Prepare`, `RecordWorkspace`, `Dispatch` are the start of an
attempt; `AgentEdits`, `AgentCommits`, `AgentChecksOut`, `AgentMerges` what an agent does, also
when it has outlived its process; `Completes`, `Reports`, `AgentFails` the three ways out of a
turn. The object store and the refs in it are one for all worktrees, so an agent can check out
or merge any commit there is, a recovery of another attempt included. After a turn come `Verify`
or `CaptureRecovery`, `PinSnapshot`, `CreateSnapshot`, `UpdateCandidate`, each with the failure
and the compensation of the code, then `CommitResult` or `CommitFailure`. `CommitResultFails` is
the error between `accept`, which has moved the candidate already, and the commit of the task:
the catch records the attempt as FAILED and leaves the candidate. `Reap`, `RetryReady`,
`ReworkTask` and `Advance` are the parts of `TaskExecution` and `Workflow` that decide which
attempt comes next; the operator's commands, which the writer lock keeps apart from calls
(`Alone`), are `Restore` (the branch), `AddRestoreTree` (its worktree), `CleanupRestore` and
`Revert`, at which the user's repository is at any commit above the source. `RestoreIsOrphaned`
is the gap at `git-worktree.mjs` 125-126: what throws after `worktree add` is behind the handler
that deletes the branch and before the one in `snapshot-service.mjs` 77 that cleans up; the
branch and the worktree stay, and `NothingIsLeftBehind` counts them. Legacy workspaces and the
content of a diff are left out.

What is *not* true of the code, and therefore not claimed: that every commit below the candidate
was made by an agent with the right to do so. `accept` checks the agent and that the output
descends from the input, not who made the commits in between; a developer that merges a recovery
hands it in. `CandidateIsAuthorized` says what the code enforces, snapshot by snapshot. Nor is
the candidate always from a completed attempt: the output of an attempt that failed after
`accept`, or committed nothing for want of its lease, stays the candidate until another call
moves it. `SuccessIsCandidate` says that this ends at the latest when an attempt completes its
step, unless a call without its lease moves the candidate afterwards (`late`). It speaks of steps
that an attempt completed; a step that an answer of a human passes is completed by no attempt,
and the candidate may then be what a failed one left.

### JsonIngestion and AttemptOutput

A text is a sequence of symbols that stand for classes of characters. `IngestJsonText` tries
the text, the unwrapped fence and the one candidate that stands in it, each as it is and then
repaired. `JSON.parse` is `IsJson`. `NothingIsGuessed`, `ValidIsKept` and `NothingIsInvented`
say what the function promises and are evaluated over every text within the bounds. They hold;
what a repair may do to the *inside* of strings, although the value alone was valid JSON, is
stated by `StringsAreRepairedToo`: a comma within a string is dropped when prose around the
value makes a repair run. `docs/model-routing.md:24` speaks of cleaning that is provably safe
and never changes a field.

`AttemptOutput` has one process and one agent per attempt. `lease` is the listener on the
staging endpoint, `staging` the one directory, `canonical[a]` the attempt's worktree, `raw[a]`
and `published[a]` its two result files. Actions follow the code from `acquireTestSandboxLease`
through `cleanRoot`, `Stage`, `Dispatch`, the turns (`AgentReplies`, `AgentFails`), `Collect`,
`AcceptRepair`, `Regenerate` or `Refuse`, `Publish`, and the three steps of `integrateCommit`
(`MatchHead`, `RequireClean` with `ImportHead`, `ImportCommit`) to `cleanup`. `Crash` and
`LoseExecutionLease` leave the agent as an orphan that still writes. Three facts of the code are
kept as they are: the fingerprint taken before a repair turn is of the canonical worktree, not
of the staged clone in which the agent works
(`docs/superpowers/plans/2026-08-25-monitor-approval-and-json-regeneration.md:41` and `:105`);
a sandboxed turn that only replies fails, since `collect` wants the raw file
(`test-sandbox-staging.mjs:335`); `integrateCommit` runs whatever the status of the result, and
an orphan's commits of tests may be part of what is imported.

### ControlPlane

`ControlCommands` gives the processes and their budget; each of the four modules has its own
variables, and a command may die between any two of its steps.

- `ReleaseControl`: a command reads `paths.json` once and writes it as a whole; in between
  `deploy` looks for the approval (`RequireApproval`) and runs the deployment (`Invoke`,
  `DeployWrites`). No lock keeps two commands apart: two that overlap lose an update and can
  give two workflows one path. `overlapped` is a history variable, and what needs commands one
  after the other is stated with it. A command that dies between the deployment and the
  registry makes the next one deploy again, under the same approval.
- `ManagerControl`: `ensureProject` with the directory, the repository or clone, and the
  registry (`readRegistry`, `register`), under no lock (`interfered`); `validateDraft`,
  `submitDraft`, `PublishRequest` over drafts the agent keeps editing. The expected hash of a
  submission is the one `validate` returned (`agents/manager-agent/workspace/TOOLS.md:7`). A
  death between directory and repository leaves a directory that refuses every later ensure
  (`MANAGER_PROJECT_EXISTS`).
- `RoutePolicy`: the rules in the order of the code, the first broken one being the answer.
- `HrReview`: `queueReview`, and `runPending` as `StartReview` and `FinishReview` around the
  agent. A round holds the set of rows it listed and takes the newest first (`NextJob`); two
  loops are apart only because their processes hold the writer lock, which is one step here and
  the subject of `WriterLock`. A stop or crash during a review leaves its job
  RUNNING for ever, since only PENDING and FAILED jobs are listed.
- `Monitor`: `session` is a session file as OpenClaw appends to it, a record and its newline
  possibly apart; `rows` and `cursor` are the telemetry database, which survives; `hub`,
  `refreshing` and `scan` are memory. A refresh is `StartRefresh` (its reads are awaited) and
  then, without a pause, `ReadSession`, `StoreLine` for each line and `EndScan`; every step may
  be followed by `RestartMonitor`, and `RefreshFails` ends it when a write throws. The stream is
  `Connect` (it awaits a refresh), `OpenStream` (snapshot, replay, subscription in one turn of
  the event loop), `Receive`, `CutStream`. `lost` is a history variable: the activities the
  design gives up, which are those behind a restarted hub's numbers, those the retention drops,
  and those that were still on their way when the connection broke after the first snapshot,
  which carries the latest number. The later texts of one record share the first one's id, so
  that the database keeps only the first; a file that is cut back reuses ids, and
  `SessionIsTailedOnce` is about files that only grow.

## Runs

| Run | Question | Result |
|---|---|---|
| `task_execution` | Does `executeTask` keep its promises under crashes, expiring leases, repairs and faults? | pass |
| `task_orphaned` | ... also when a call is abandoned with its lease still held? | violated: the task stays RUNNING |
| `retry_batch` | Does an approved batch hold its three attempts? | violated after human rework |
| `workflow` | Are steps passed only when done and approved, questions answerable, pauses kept; does a run come to rest? | pass |
| `agent_question_lost` | Is a question of an agent always asked? | violated by a crash or a failure after the commit |
| `stale_answer` | Is an answer accepted only for the current step? | violated after a revision |
| `writer_lock` | Is there one writer, does a lock stay with its owner, is an abandoned one reclaimed? | pass, unless raced |
| `writer_lock_race` | ... and without that exception? | violated without any crash |
| `service_loop` | Does a file take effect once and a question get one answer, across crashes; are files answered and notifications delivered, whatever throws? | pass; a revision may be repeated once per crash, a delivery once per failure |
| `snapshots` | Is what is indexed pinned, the worktree of an attempt fresh, the candidate authorized and from the attempt that completed the step, failed work kept? | pass; what is left behind is explained by a crash, a failed compensation or the gap in `restore` |
| `attempt_output` | Is what is published and imported the attempt's own, with orphaned agents at work; is the staging directory given back? | pass |
| `control_plane` | Are deployments approved and accounted for, do the registries keep what they reported, is only the validated queued, do reviews stay final, does the Monitor lose nothing? | pass, the registries while commands do not overlap |

`MCControlPlane` also evaluates `RouteIsSafe` over every route of up to three steps, and
`MCAttemptOutput` the promises of `IngestJsonText` over every text of up to three of the eleven
symbols and of up to five of six of them.

### Bounds

- `task_execution`: one task, two slots, a lease of one tick, two attempts and a batch of two,
  one repair, attempts up to three. One task suffices for what a task can meet: rows of
  other tasks touch it neither in the SQL conditions nor through the unique index, and the
  proofs cover any number of tasks and slots. Two slots give a live call and the row of a
  dead one. One tick gives the three cases of a lease: fresh, at its deadline, past it.
  `AttemptBound` caps only what humans ask for; three reaches a grant after a full batch.
- `workflow`: a route DEVELOPMENT, TEST and a revision that replaces the first step; the TEST
  step and the replacing step need approval. One attempt, a batch of two, attempts up to two:
  exhaustion, a grant and a second exhaustion occur. One crash, one revision; after the run
  is torn three further commands are allowed (`TornBound`), which leaves it time to show what
  happens while the properties no longer speak. `Stop` is the state after the last one.
- `writer_lock`: three processes, the least number for the race; two deaths. A pid is reused,
  so processes come without end.
- `service_loop`: one workflow and eight files, of which any three are submitted: a request of
  each kind, two that answer the same question from both sides, pause, resume, one invalid and
  one unsafe. One question, one fault (a crash, a stop, a failed delivery or a failed write),
  a delivery round of one notification, so that rounds end with rows left over. Two files are
  enough to get in each other's way, the third decides what becomes of the run.
- `snapshots`: a developer step and a review step (one agent may change the repository, one
  may not), two calls, two attempts, two workspaces, three commits, three snapshots, one
  command of the operator, one fault. Calls are interchangeable (symmetry). One fault shows
  each compensation. Two workspaces let two attempts meet; with three, so that a third attempt
  gets a fresh directory, the same properties hold over 4.1 million states (more than four
  minutes, so not a run), and for any number by the proofs.
- `attempt_output`: two attempts, each with the sandbox on or off; three forms of a text
  and two of a missing one, one commit on top of the input commit. A third attempt would meet
  the same staging directory as the second.
- `control_plane`: two processes; six release commands, three ensures, six steps with drafts, eight
  of reviews or seven events around the Monitor, or one of each kind of command together.
  The parts share no state, so the mixes cover what a larger product would. Two keys for one
  path and one reserved path; two candidates; five drafts' contents, of which three are refused
  for three reasons; a review limit of two over three reviewable sessions; a hub of four events.

`InProcessControl` lets `pauseRun` and `resumeRun` be called while an agent runs. The service
loop itself scans the command queues between ticks only; the functions are exported, and the
code after the commit reads the run again for this case (`service.mjs` 566-570).

### Fairness

- `TaskExecution`: weak fairness of the steps of a call (an agent has a timeout, a statement
  returns), of ticking (the service loop polls) and of time. None for crashes, faults,
  repairs, heartbeats or humans. `Execution` has one slot more than there are tasks,
  so that a call can always begin.
- `Workflow`: weak fairness of ticking and of the steps of a command; strong fairness of the
  tick that reaps all RUNNING tasks: between two commands no process renews a lease, so
  every lease has lapsed by one of the ticks of the loop. None for humans: a run that waits
  or is paused may do so for ever, and `ActiveRunComesToRest` ends there.
- `WriterLock`: weak fairness of the processes and of time, and strong fairness of the
  reclaiming rename: a rename that the file system refuses is refused not every time. A
  command is started again and again, as the loop scripts do.
- `ServiceLoop`: weak fairness of the service's own steps while it runs: it polls, and each
  file, tick and delivery returns. None for starting it, for crashes or for submissions;
  `FilesAreAnswered` is about the time it runs.
- `AttemptOutput`: weak fairness of each attempt's process and of the end of a turn, which the
  runner's timeout forces. None for orphans.
- `Snapshots` and `ControlPlane`: none; they have no liveness property.

## Proofs

Each companion proves, for every value of the constants its module's assumption admits, that
an inductive invariant holds in every reachable state, and from it what the runs check. The
invariants were checked with TLC on the runs first. `TLAPS` needs what the code guarantees
about its inputs; those clauses are named with each module.

### TaskExecution_proofs

For any sets of tasks and slots, any lease length and any budgets
(`ExecutionAssumption`): `IInv` is type correctness, one live call at a time, at most one
active row per task, and `CallOK(e)`, which says for each place a call can be at what it still
knows: after `leased` its row carries its task and attempt; after `committed` the task is
decided; in `abandoning` its own attempt is either not RUNNING or disturbed. The two
invariants are part of it, since the safety of a reap depends on rows left by dead calls.
`RunningIsRecoverable` alone is not inductive: `ReleaseLease` closes a row and needs to know
that the commit came before. From `IInv` follow `RecoverableAlways`, `ReaperIsPrecise` and
`Refinement`: each action maps to an action of `TaskLifecycle` or leaves the tasks alone.
`StartTask` maps to `Start` because nobody can take a task from READY while the row of the
call is active; this is where the one-row index is used.

### WriterLock_proofs

For any set of processes and any number of deaths: a file that is
written or held belongs to the process that does so (`OwnFile`), what a judging process read
is still what is there (`ReadIsCurrent`), and what it is about to rename was abandoned
(`RenameIsSafe`). All three hold unless `raced`, which is exactly the step that breaks
`ReadIsCurrent`. `Exclusion` and `OwnerRemoves` follow.

### Workflow_proofs

For any steps, gates, budgets and routes. `IInv` says that the rows a command holds in local
variables exist (`RowsExist`, torn or not) and, while not torn, `Coherent`: the state of the run
at each statement of a command (`RunStateAt`), one pending question at most and which one
(`IdleQuestions`, `CallQuestions`), what a question says of the current step (`Justified`,
`Bound`), and that a SUCCEEDED task is a completed one unless it is just being asked about
(`SucceededIsCompleted`, `Undecided`). `WaitingIsOneQuestion` and `PassedStepsAreDone` are not
inductive alone: a command keeps a question in memory across several statements, and what its
answer does is right only because the question still speaks of the current step.
`GatesArePassedByApproval` and `PauseIsKept` follow from the same invariant.

`WorkflowAssumption` asks of a route that no step occurs twice and that development comes
before tests, as `assertRules` does (`ROUTE_PLAN_ORDER_INVALID`). The second clause was found by
the proof: a missing upstream implementation "rewinds" the run to the DEVELOPMENT step, and on a
route where that step comes later the run would move forward over steps that were not done
(TLC shows it for such a route). `PassedStepsAreDone` rests on the route policy.

### ServiceLoop_proofs

For any files, workflows, delivery limit and bounds. `TodoAt` and `SendAt` say what each phase
may still have to do: a file still to do has no receipt yet. `EffectsArePaid` counts: a file's
effects are at most the crashes so far, plus one if it has its receipt or is in hand, and a
request with an effect and no receipt is still to be read before the next tick.
`AnswersAreFinal` holds because a question that was answered is not the open one and numbers
only grow; `CreatesAreSeen` because a run is never removed; `WakesArePaid` counts the turns of
the Manager by the recorded attempts of the row, plus crashes and failing writes, plus the turn
that is not recorded yet. Besides the types of what a directory may hold,
`ServiceAssumption` asks that a decision names a question (its number is not 0): the Kernel's
ids are never empty.

### AttemptOutput_proofs

For any attempts, texts and number of commits. Per attempt, `PhaseOf` says where its files are
in each phase, and that no agent works while its process reads what a turn left; `Own` what a
published result says of itself; `Verified` what may stand in a sandboxed attempt's worktree.
The type invariant's clause that the process under way holds the staging lease makes the parts
of two attempts independent. An orphan works in whatever is staged at the moment, another
attempt's clone perhaps; so `Own` and `Verified` speak of what the process has checked, and
nothing is claimed of the clone. `TextsAssumption` takes from the operators of `JsonIngestion`
that no accepted text is ambiguous; TLC evaluates the equations behind it on every run.

### Snapshots_proofs

For any agents, calls, workspaces, attempts and bounds, in eight layers, each proved with the
earlier ones in hand, the first two together:

| Layer | Says | Gives |
|---|---|---|
| `Rows` | what rows, trees, refs and callers are made of, and that nothing names a commit that does not exist | `TypeOK`, with `Owned` |
| `Owned` | which tree and task a call has, and that no two calls share one | `WorktreesAreFresh` |
| `Pinned` | an id between the ref and the row belongs to one caller and to no other row | `IndexedSnapshotsArePinned` |
| `Counted` | the ids with a trace and no row that nobody has in hand are at most as many as crashes, failed compensations and orphaned restores | `NothingIsLeftBehind` |
| `Ordered` | a call with its lease is at the step of the run, later steps have no task, a task under way has not been completed in its attempt | the next two |
| `Chained` | the input of every call and task was vouched for, and what is accepted was verified | `CandidateIsAuthorized` |
| `Accounted` | what a call is about to make the candidate is in a row of its own attempt, and stays the candidate until it is committed | `SuccessIsCandidate` |
| `Kept` | while no effect failed, the tree of a finished attempt is clean and its head is in a row | `FailedWorkIsKept` |

`Owned` is the heart: agents outlive their process, and what they do harms nobody because a
tree, once used, is used by one attempt for ever. `Accounted` needs `Owned` and `Ordered`
together: that nobody else with a lease moves the candidate between `accept` and the commit, or
after it before the next step has begun. `NothingIsLeftBehind` counts a set, so that
each step shows which single id can join `Leftover` and which counter it raises. `Ancestors`
is a set defined without recursion, as the least closed one, so that its closure can be used.
The proof failed at restore and revert at first: the arms of `Kind` overlapped, and `CASE` left
open which kind such a row gets. The arms are apart now.

### ControlPlane_proofs

For any processes, mixes of commands, keys, projects, drafts, sessions and retention.
`StepOfOnePart` shows that a step of the whole is one of a part and leaves the others alone; so
each part has an invariant of its own.

- `ManagerInv`: what is on its way into the queue, or in it, was reported VALID
  (`RequestsAreValidated`, whoever dies); unless `interfered`, an ensure under way is alone and
  the registry it has read is the registry (`EnsureHolds`).
- `ReleaseInv`: a running deployment was approved for what its command has read, whoever else
  runs (`DeploysTheApproved`); unless `overlapped`, `OneByOne`: the copy a command has read is the
  registry, paths are apart, and a settled deployment is its key's last. That `FreePath` finds a
  path needs finitely many keys and reserved paths, and is a counting lemma.
- `HrInv`: a session has one job, and the one loop belongs to the process with the writer lock;
  what it still has to do has not succeeded (`OneLoop`). `ReviewsAreFinal` follows, and would not
  without the lock.
- `TailInv`: a session is records with a newline at each even place, so that every offset the
  scan takes is even; while the file only grows, what the scan has in its buffer is still the
  beginning of the file, and no line before the cursor or the scan is missing (`Tailed`).
- `HubInv`: the hub holds the latest numbers without a gap, and a number a browser takes for
  known although the restarted hub has not given it yet is lost already (`AheadIsLost`).

The assumptions say that keys are finitely many and that `None` is no process, remote or entry,
and that a record shows a number of texts and is not its newline.

### Lemmas

The least and greatest element of a set of numbers, what removing from and appending to a
sequence does to its elements. Theorems of the libraries are used where there is one.

### What is only model-checked

- The five liveness properties (`RunningIsDecided`, `ActiveRunComesToRest`,
  `AbandonedLockIsReclaimed`, `FilesAreAnswered`, `StagingIsGivenBack`): they rest on fairness,
  that is on ENABLED, which the prover does not handle.
- The promises of `IngestJsonText`: for every text they are inductions over a sequence, which
  none of the provers can do. They are evaluated over all texts within the bounds.
- `RouteIsSafe`: evaluated over all routes of up to three steps.
- The properties of the runs that expect a violation, which are false.

## Not modelled

- An agent may choose its own option ids for a question; the model knows the defaults. A lock
  owner on another host, which `lockIsStale` judges by `acquired_at`.
- RELEASE_DEPLOYMENT approvals stand under ROUTE_STEP_APPROVAL in `Workflow`, since
  `resolveDecision` treats them alike. `RELEASE_DEPLOYMENT_BINDING_MISSING` changes no state.
- The artifacts table (no decision reads it), the migrations (one IMMEDIATE transaction under
  the writer lock), the atomic store (write and rename: one step), the agent registry, the
  context manifest, the runner and process utilities (what they can answer is the
  nondeterminism of the agent's actions).
- Of HR: dossier content, keywords, settings. Of the Monitor: the classification of health
  by ages, redaction, the read-only pages, the page in the browser. Of manager-control: checks
  for symbolic links and containment. JSON Schema throughout.
- `runtime-guard.mjs` and `runtime-bundle.mjs` (checks and packaging without concurrent state),
  the command line entry points, prompts, contracts, installation, test harness;
  `structured-output-ingestion.mjs`, which nothing imports, and `artifact-watcher.mjs`, which
  only a test does.
- The contents of files, messages and JSON documents beyond the symbols above; what they decide
  is a nondeterministic choice.

## Plan

Done: all modules above, and the proofs of every safety property of the passing runs. Left:

1. An abstract specification of a route (steps passed in order, each once done and approved)
   that `Workflow` implements while it is not torn; the invariant of `Workflow_proofs` has what
   the mapping needs.
2. The four hazards without a property, which the model would have to be widened for
   (`PROJECT.json`, `hazards`, each with its note).
