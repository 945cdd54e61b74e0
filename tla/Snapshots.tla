------------------------------ MODULE Snapshots ------------------------------
(***************************************************************************)
(* The files of an attempt: the workspace it is given, the Git worktree    *)
(* its agent works in, the snapshot that keeps what the agent left, and    *)
(* the candidate commit the next step starts from.  Beside the attempts an *)
(* operator restores and reverts snapshots from the command line.          *)
(*                                                                         *)
(* A snapshot is a commit, a ref in the target repository that pins it and *)
(* a row in the kernel, written one after the other by a process that may  *)
(* die in between.  Leases and approvals are TaskExecution and Workflow:   *)
(* here a call keeps its lease or has lost it.                             *)
(***************************************************************************)
EXTENDS Integers, Sequences, FiniteSetsExt

CONSTANTS
    Calls,          \* calls of executeTask
    Agents,         \* the agent of each step of the route
    MaxAttempts,    \* attempts of a step
    Workspaces,     \* numbers of the operation directories
    CommitBound,    \* bound on the number of commits
    SnapshotBound,  \* bound on the number of snapshot ids
    OperatorBound,  \* bound on the restores and reverts
    FaultBound      \* bound on crashes, lost leases and failing effects

Operator == "operator"

ASSUME SnapshotsAssumption ==
    /\ Agents \in Seq(STRING)
    /\ Workspaces \subseteq Nat \ {0}
    /\ MaxAttempts \in Nat \ {0}
    /\ {CommitBound, SnapshotBound, OperatorBound, FaultBound} \subseteq Nat
    /\ Operator \notin Calls

VARIABLES
    commits,  \* the parents of every commit; all worktrees share one object store
    trees,    \* the operation directories and the worktrees in them
    refs,     \* refs/openclaw/snapshots: {<<id, commit>>}
    rows,     \* the snapshots table, oldest first
    restores, \* restore branches and their worktrees: {[id, commit]}
    run,      \* the run: its step, its candidate commit
    tasks,    \* the task of each step
    call,     \* what each caller is doing
    ids,      \* snapshot ids given out
    asked,    \* restores and reverts so far
    faults,   \* how often what went wrong
    gone,     \* history: the attempts that lost their lease or their process
    late      \* history: the attempts that moved the candidate without their lease

disk  == <<commits, trees, refs, restores>>
db    == <<rows, run, tasks>>
past  == <<gone, late>>
vars  == <<disk, db, call, ids, asked, faults, past>>

Callers  == Calls \cup {Operator}
Steps    == 1 .. Len(Agents)

\* The agents that may change the target repository.
MUTATING_AGENTS == {"developer-agent", "test-agent"}

Base == 1
Ids  == 1 .. SnapshotBound

\* The commits that c is made from, itself among them: the ones in every set that holds c
\* and the parents of its members.
Closed(S) == \A n \in S : commits[n] \subseteq S

Ancestors(c) ==
    {n \in 1 .. Len(commits) : \A S \in SUBSET (1 .. Len(commits)) : c \in S /\ Closed(S) => n \in S}

NewCommit == Len(commits) + 1
Commit(parents) ==
    /\ Len(commits) < CommitBound
    /\ commits' = Append(commits, parents)

NoTree == [state |-> "free", head |-> 0, dirty |-> FALSE, busy |-> FALSE, used |-> {}]
Idle   == [pc |-> "idle", mode |-> "none", step |-> 1, attempt |-> 0, ws |-> 0, in |-> 0,
           out |-> 0, id |-> 0, result |-> "none", held |-> FALSE]

SnapshotKind == {"ACCEPTED", "FAILED_RECOVERY", "NO_CHANGE", "RESTORE", "REVERT"}

TypeOK ==
    LET Com == 0 .. Len(commits)
    IN /\ commits \in Seq(SUBSET (1 .. Len(commits)))
       /\ trees \in [Workspaces -> [state : {"free", "reserved", "tree"}, head : Com, dirty : BOOLEAN,
                                    busy : BOOLEAN, used : SUBSET (Steps \X (1 .. MaxAttempts))]]
       /\ refs \subseteq Ids \X Com
       /\ rows \in Seq([id : Ids, step : Steps, attempt : 1 .. MaxAttempts, kind : SnapshotKind,
                        in : Com, out : Com \ {0}])
       /\ restores \subseteq [id : Ids, commit : Com \ {0}]
       /\ run \in [step : 1 .. Len(Agents) + 1, candidate : Com \ {0}]
       /\ tasks \in [Steps -> [state : {"none", "READY", "RUNNING", "FAILED", "SUCCEEDED"},
                               attempt : 0 .. MaxAttempts, in : Com, ws : {0} \cup Workspaces,
                               wsAttempt : 0 .. MaxAttempts, success : 0 .. MaxAttempts]]
       /\ ids \in {0} \cup Ids
       /\ \A c \in Callers : /\ call[c].out \in Com
                             /\ call[c].pc \in {"pin", "index", "candidate"} => call[c].out # 0
                             /\ call[c].pc = "run" => trees[call[c].ws].state = "tree"

Fault(k) ==
    /\ faults.crash + faults.lease + faults.effect + faults.undo + faults.orphan < FaultBound
    /\ faults' = [faults EXCEPT ![k] = @ + 1]

At(c, p)  == call[c].pc = p
Goto(c, p) == call' = [call EXCEPT ![c].pc = p]
Done(c)   == call' = [call EXCEPT ![c] = Idle]
Tree(c)   == trees[call[c].ws]
Attempt(c) == <<call[c].step, call[c].attempt>>
\* The writer lock admits one caller at a time; beside it there is at most a late call
\* that lost its lease.
Alone == \A c \in Callers : ~call[c].held

Starting(c) == call[c].pc \in {"prepare", "record", "dispatch"}

-----------------------------------------------------------------------------
(* taskForStep: the workspace and the worktree of an attempt. *)

\* Mutant of Stored: a workspace recorded for any attempt is used.
StoredForAnyAttempt(t) == t.ws # 0

\* A workspace that was recorded for this very attempt is used as it is.
Stored(t) == t.ws # 0 /\ t.wsAttempt = t.attempt

\* Mutant of Asks: the worktree is not prepared.
AsksForDispatch(c, t) ==
    [Idle EXCEPT !.step = run.step, !.attempt = t.attempt, !.in = t.in, !.held = TRUE,
                 !.pc = "dispatch", !.ws = IF Stored(t) THEN t.ws ELSE 0]

Asks(c, t) ==
    [Idle EXCEPT !.step = run.step, !.attempt = t.attempt, !.in = t.in, !.held = TRUE,
                 !.pc = IF Stored(t) THEN "dispatch" ELSE "prepare", !.ws = IF Stored(t) THEN t.ws ELSE 0]

\* The task is created from the candidate of the run when its step is first reached.
CreateTask ==
    /\ run.step \in Steps /\ tasks[run.step].state = "none"
    /\ tasks' = [tasks EXCEPT ![run.step] = [state |-> "READY", attempt |-> 1, in |-> run.candidate,
                                             ws |-> 0, wsAttempt |-> 0, success |-> 0]]
    /\ UNCHANGED <<disk, rows, run, call, ids, asked, faults, past>>

\* reserve makes the first operation directory that does not exist.
TaskForStep(c) ==
    LET t == tasks[run.step]
        free == {w \in Workspaces : trees[w].state = "free"}
        w == Min(free)
    IN /\ At(c, "idle") /\ run.step \in Steps /\ t.state = "READY"
       /\ Alone
       /\ Stored(t) \/ free # {}
       /\ IF Stored(t)
          THEN call' = [call EXCEPT ![c] = Asks(c, t)] /\ UNCHANGED trees
          ELSE /\ call' = [call EXCEPT ![c] = [Asks(c, t) EXCEPT !.ws = w]]
               /\ trees' = [trees EXCEPT ![w].state = "reserved"]
       /\ UNCHANGED <<commits, refs, restores, db, ids, asked, faults, past>>

\* git worktree add --detach at the input commit.
Prepare(c) ==
    /\ At(c, "prepare")
    /\ trees' = [trees EXCEPT ![call[c].ws] = [@ EXCEPT !.state = "tree", !.head = call[c].in]]
    /\ Goto(c, "record")
    /\ UNCHANGED <<commits, refs, restores, db, ids, asked, faults, past>>

\* The directory is given back, a human is asked (Workflow) and the task stays READY.
PreparationFails(c) ==
    /\ At(c, "prepare") /\ Fault("effect")
    /\ trees' = [trees EXCEPT ![call[c].ws] = NoTree]
    /\ Done(c)
    /\ UNCHANGED <<commits, refs, restores, db, ids, asked, past>>

RecordWorkspace(c) ==
    /\ At(c, "record")
    /\ tasks' = [tasks EXCEPT ![call[c].step].ws = call[c].ws,
                              ![call[c].step].wsAttempt = call[c].attempt]
    /\ Goto(c, "dispatch")
    /\ UNCHANGED <<disk, rows, run, ids, asked, faults, past>>

\* acquireLease, state RUNNING, and the agent starts.
Dispatch(c) ==
    /\ At(c, "dispatch")
    /\ IF tasks[call[c].step].state = "READY" /\ tasks[call[c].step].attempt = call[c].attempt
       THEN /\ tasks' = [tasks EXCEPT ![call[c].step].state = "RUNNING"]
            /\ trees' = [trees EXCEPT ![call[c].ws].busy = TRUE, ![call[c].ws].used = @ \cup {Attempt(c)}]
            /\ Goto(c, "run")
       ELSE Done(c) /\ UNCHANGED <<tasks, trees>>
    /\ UNCHANGED <<commits, refs, restores, rows, run, ids, asked, faults, past>>

-----------------------------------------------------------------------------
(* The agent in its worktree; it goes on when only the orchestrator dies. *)

Working(w) == trees[w].busy

AgentEdits(w) ==
    /\ Working(w) /\ ~trees[w].dirty
    /\ trees' = [trees EXCEPT ![w].dirty = TRUE]
    /\ UNCHANGED <<commits, refs, restores, db, call, ids, asked, faults, past>>

AgentCommits(w) ==
    /\ Working(w) /\ trees[w].dirty
    /\ Commit({trees[w].head})
    /\ trees' = [trees EXCEPT ![w].dirty = FALSE, ![w].head = NewCommit]
    /\ UNCHANGED <<refs, restores, db, call, ids, asked, faults, past>>

\* The agent goes to any other commit of the repository, another attempt's perhaps.
AgentChecksOut(w) ==
    /\ Working(w) /\ ~trees[w].dirty
    /\ \E c \in 1 .. Len(commits) \ {trees[w].head} : trees' = [trees EXCEPT ![w].head = c]
    /\ UNCHANGED <<commits, refs, restores, db, call, ids, asked, faults, past>>

AgentMerges(w) ==
    /\ Working(w) /\ ~trees[w].dirty
    /\ \E c \in 1 .. Len(commits) \ Ancestors(trees[w].head) : Commit({trees[w].head, c})
    /\ trees' = [trees EXCEPT ![w].head = NewCommit]
    /\ UNCHANGED <<refs, restores, db, call, ids, asked, faults, past>>

AgentEnds(c) == trees' = [trees EXCEPT ![call[c].ws].busy = FALSE]

\* A COMPLETED result that names a commit.
Completes(c) ==
    /\ At(c, "run")
    /\ \E out \in 1 .. Len(commits) :
           call' = [call EXCEPT ![c].pc = "verify", ![c].mode = "accept", ![c].out = out]
    /\ AgentEnds(c)
    /\ UNCHANGED <<commits, refs, restores, db, ids, asked, faults, past>>

\* Any other result: FAILED, BLOCKED and NEEDS_REWORK fail the task, a question does not.
Reports(c) ==
    /\ At(c, "run")
    /\ \E state \in {"FAILED", "SUCCEEDED"} :
           call' = [call EXCEPT ![c].pc = "capture", ![c].mode = "recover", ![c].result = state]
    /\ AgentEnds(c)
    /\ UNCHANGED <<commits, refs, restores, db, ids, asked, faults, past>>

\* Mutant of Rescue: the failure is recorded without a recovery snapshot.
FailAtOnce(c) == call' = [call EXCEPT ![c].pc = "fail", ![c].result = "FAILED"]

\* The catch of executeTask.
Rescue(c) == call' = [call EXCEPT ![c].pc = "capture", ![c].mode = "rescue", ![c].result = "FAILED",
                                  ![c].id = 0, ![c].out = 0]

\* The agent exits with an error, or its output cannot be ingested.
AgentFails(c) ==
    /\ At(c, "run")
    /\ Rescue(c) /\ AgentEnds(c)
    /\ UNCHANGED <<commits, refs, restores, db, ids, asked, faults, past>>

-----------------------------------------------------------------------------
(* accept and recover. *)

Verified(c) ==
    LET in == call[c].in  out == call[c].out
    IN in \in Ancestors(out) /\ Tree(c).head = out /\ ~Tree(c).dirty

\* Mutant of Authorized: any agent may change the repository.
AuthorizedAnyway(c) == TRUE

Authorized(c) == call[c].in = call[c].out \/ Agents[call[c].step] \in MUTATING_AGENTS

NewSnapshot(c, out) == call' = [call EXCEPT ![c].pc = "pin", ![c].id = ids + 1, ![c].out = out]

Verify(c) ==
    /\ At(c, "verify")
    /\ IF Verified(c) /\ Authorized(c)
       THEN ids < SnapshotBound /\ ids' = ids + 1 /\ NewSnapshot(c, call[c].out)
       ELSE Rescue(c) /\ UNCHANGED ids
    /\ UNCHANGED <<disk, db, asked, faults, past>>

\* What is in the worktree is committed, whoever it is from.
CaptureRecovery(c) ==
    /\ At(c, "capture") /\ ids < SnapshotBound
    /\ ids' = ids + 1
    /\ IF Tree(c).dirty
       THEN /\ Commit({Tree(c).head})
            /\ trees' = [trees EXCEPT ![call[c].ws].dirty = FALSE, ![call[c].ws].head = NewCommit]
            /\ NewSnapshot(c, NewCommit)
       ELSE NewSnapshot(c, Tree(c).head) /\ UNCHANGED <<commits, trees>>
    /\ UNCHANGED <<refs, restores, db, asked, faults, past>>

\* An error on the way of a snapshot: the attempt is rescued, once; a restore is
\* cleaned up; a revert leaves its commit.
Failed(c) ==
    CASE call[c].mode \in {"accept", "recover"} -> Rescue(c)
      [] call[c].mode = "rescue"                -> Goto(c, "fail")
      [] call[c].mode = "restore"               -> Goto(c, "cleanup")
      [] call[c].mode = "revert"                -> Done(c)

CaptureFails(c) ==
    /\ At(c, "capture") /\ Fault("effect")
    /\ Failed(c)
    /\ UNCHANGED <<disk, db, ids, asked, past>>

\* update-ref with an old value of zero: the ref is created, never moved.
PinSnapshot(c) ==
    /\ At(c, "pin") /\ \A r \in refs : r[1] # call[c].id
    /\ refs' = refs \cup {<<call[c].id, call[c].out>>}
    /\ Goto(c, "index")
    /\ UNCHANGED <<commits, trees, restores, db, ids, asked, faults, past>>

PinFails(c) ==
    /\ At(c, "pin") /\ Fault("effect")
    /\ Failed(c)
    /\ UNCHANGED <<disk, db, ids, asked, past>>

Kind(c) ==
    CASE call[c].mode = "restore" -> "RESTORE"
      [] call[c].mode = "revert"  -> "REVERT"
      [] OTHER -> IF call[c].in = call[c].out THEN "NO_CHANGE"
                  ELSE IF call[c].mode = "accept" THEN "ACCEPTED" ELSE "FAILED_RECOVERY"

CreateSnapshot(c) ==
    /\ At(c, "index")
    /\ rows' = Append(rows, [id |-> call[c].id, step |-> call[c].step, attempt |-> call[c].attempt,
                             kind |-> Kind(c), in |-> call[c].in, out |-> call[c].out])
    /\ CASE call[c].mode \in {"accept", "revert"} -> Goto(c, "candidate")
         [] call[c].mode = "recover"              -> Goto(c, "commit")
         [] call[c].mode = "rescue"               -> Goto(c, "fail")
         [] call[c].mode = "restore"              -> Done(c)
    /\ UNCHANGED <<disk, run, tasks, ids, asked, faults, past>>

\* Mutant of CreateSnapshotFails: nothing is taken back.
CreateSnapshotFailsOnly(c) ==
    /\ At(c, "index") /\ Fault("effect")
    /\ Failed(c)
    /\ UNCHANGED <<disk, db, ids, asked, past>>

\* The ref is taken back, unless that fails as well; the first error stays the error.
CreateSnapshotFails(c) ==
    /\ At(c, "index")
    /\ \/ Fault("effect") /\ refs' = refs \ {<<call[c].id, call[c].out>>}
       \/ Fault("undo") /\ UNCHANGED refs
    /\ Failed(c)
    /\ UNCHANGED <<commits, trees, restores, db, ids, asked, past>>

UpdateCandidate(c) ==
    /\ At(c, "candidate")
    /\ run' = [run EXCEPT !.candidate = call[c].out]
    /\ IF call[c].mode = "revert" THEN Done(c) ELSE Goto(c, "commit")
    /\ late' = IF call[c].held THEN late ELSE late \cup {Attempt(c)}
    /\ UNCHANGED <<disk, rows, tasks, ids, asked, faults, gone>>

\* Mutant of UpdateCandidateFails: the snapshot is unpinned again.
UpdateCandidateFailsAndUnpins(c) ==
    /\ At(c, "candidate") /\ Fault("effect")
    /\ refs' = refs \ {<<call[c].id, call[c].out>>}
    /\ IF call[c].mode = "revert" THEN Done(c) ELSE Goto(c, "fail")
    /\ UNCHANGED <<commits, trees, restores, db, ids, asked, past>>

\* Mutant of UpdateCandidateFails: the error is swallowed.
UpdateCandidateFailsUnseen(c) ==
    /\ At(c, "candidate") /\ Fault("effect")
    /\ IF call[c].mode = "revert" THEN Done(c) ELSE Goto(c, "commit")
    /\ UNCHANGED <<disk, db, ids, asked, past>>

\* The snapshot stays and is the one recorded with the failure.
UpdateCandidateFails(c) ==
    /\ At(c, "candidate") /\ Fault("effect")
    /\ IF call[c].mode = "revert" THEN Done(c) ELSE Goto(c, "fail")
    /\ UNCHANGED <<disk, db, ids, asked, past>>

-----------------------------------------------------------------------------
(* The end of the attempt. *)

Decide(c, state, success) ==
    /\ tasks' = IF call[c].held
                THEN [tasks EXCEPT ![call[c].step].state = state, ![call[c].step].success = success]
                ELSE tasks
    /\ Done(c)
    /\ UNCHANGED <<disk, rows, run, ids, asked, faults, past>>

Success(c) == tasks[call[c].step].success

\* Without the lease the call is abandoned, whatever it has snapshotted.
CommitResult(c) ==
    /\ At(c, "commit")
    /\ IF call[c].mode = "accept"
       THEN Decide(c, "SUCCEEDED", call[c].attempt)
       ELSE Decide(c, call[c].result, Success(c))

\* The lease cannot be asserted or the task not written: what was accepted stays in place
\* and the attempt is recorded as FAILED.
CommitResultFails(c) ==
    /\ At(c, "commit") /\ Fault("effect")
    /\ Goto(c, "fail")
    /\ UNCHANGED <<disk, db, ids, asked, past>>

CommitFailure(c) == At(c, "fail") /\ Decide(c, "FAILED", Success(c))

\* The lease runs out and is reaped; the next heartbeat ends the agent.
LoseLease(c) ==
    /\ call[c].held /\ ~Starting(c) /\ Fault("lease")
    /\ call' = [call EXCEPT ![c].held = FALSE]
    /\ tasks' = [tasks EXCEPT ![call[c].step].state = "FAILED"]
    /\ gone' = gone \cup {Attempt(c)}
    /\ UNCHANGED <<disk, rows, run, ids, asked, late>>

\* The process dies; its agent does not, and its lease is reaped later.
Crash(c) ==
    /\ ~At(c, "idle") /\ Fault("crash")
    /\ Done(c)
    /\ gone' = IF c = Operator THEN gone ELSE gone \cup {Attempt(c)}
    /\ UNCHANGED <<disk, db, ids, asked, late>>

Reap ==
    \E s \in Steps :
        /\ tasks[s].state = "RUNNING" /\ Alone
        /\ tasks' = [tasks EXCEPT ![s].state = "FAILED"]
        /\ UNCHANGED <<disk, rows, run, call, ids, asked, faults, past>>

\* The retry forgets the workspace, a human rework keeps the payload and goes on counting.
RetryReady ==
    /\ run.step \in Steps /\ tasks[run.step].state = "FAILED" /\ tasks[run.step].attempt < MaxAttempts
    /\ tasks' = [tasks EXCEPT ![run.step].state = "READY", ![run.step].attempt = @ + 1,
                              ![run.step].ws = 0, ![run.step].wsAttempt = 0]
    /\ UNCHANGED <<disk, rows, run, call, ids, asked, faults, past>>

ReworkTask ==
    /\ run.step \in Steps /\ tasks[run.step].state \in {"SUCCEEDED", "FAILED"}
    /\ tasks[run.step].attempt < MaxAttempts
    /\ tasks' = [tasks EXCEPT ![run.step].state = "READY", ![run.step].attempt = @ + 1]
    /\ UNCHANGED <<disk, rows, run, call, ids, asked, faults, past>>

Advance ==
    /\ run.step \in Steps /\ tasks[run.step].state = "SUCCEEDED"
    /\ run' = [run EXCEPT !.step = @ + 1]
    /\ UNCHANGED <<disk, rows, tasks, call, ids, asked, faults, past>>

-----------------------------------------------------------------------------
(* The operator: restore and revert. *)

Asked == At(Operator, "idle") /\ Alone /\ asked < OperatorBound /\ asked' = asked + 1

Source(k) == [Idle EXCEPT !.step = rows[k].step, !.attempt = rows[k].attempt, !.id = ids + 1, !.held = TRUE]

\* A branch at the commit of the source.
Restore ==
    /\ Asked /\ ids < SnapshotBound
    /\ \E k \in DOMAIN rows :
           /\ restores' = restores \cup {[id |-> ids + 1, commit |-> rows[k].out]}
           /\ call' = [call EXCEPT ![Operator] = [Source(k) EXCEPT !.pc = "add", !.mode = "restore",
                                                     !.in = rows[k].out, !.out = rows[k].out]]
    /\ ids' = ids + 1
    /\ UNCHANGED <<commits, trees, refs, db, faults, past>>

\* Its worktree.
AddRestoreTree ==
    /\ At(Operator, "add")
    /\ Goto(Operator, "pin")
    /\ UNCHANGED <<disk, db, ids, asked, faults, past>>

\* Without a worktree the branch is deleted again, unless that fails as well.
AddRestoreTreeFails ==
    /\ At(Operator, "add")
    /\ \/ Fault("effect") /\ restores' = {r \in restores : r.id # call[Operator].id}
       \/ Fault("undo") /\ UNCHANGED restores
    /\ Done(Operator)
    /\ UNCHANGED <<commits, trees, refs, db, ids, asked, past>>

\* The worktree stands, and its path or its summary cannot be read: no handler is left
\* that would remove it.
RestoreIsOrphaned ==
    /\ At(Operator, "add") /\ Fault("orphan")
    /\ Done(Operator)
    /\ UNCHANGED <<disk, db, ids, asked, past>>

CleanupRestore ==
    /\ At(Operator, "cleanup")
    /\ restores' = {r \in restores : r.id # call[Operator].id}
    /\ Done(Operator)
    /\ UNCHANGED <<commits, trees, refs, db, ids, asked, faults, past>>

\* The clean-up follows a failure, which FaultBound bounds.
CleanupRestoreFails ==
    /\ At(Operator, "cleanup") /\ faults' = [faults EXCEPT !.undo = @ + 1]
    /\ Done(Operator)
    /\ UNCHANGED <<disk, db, ids, asked, past>>

\* git revert in the user's repository, which must be clean and is at any commit that
\* contains the one of the source; a conflict is aborted and changes nothing.  An error
\* after the revert commit is one of the pin.
Revert ==
    /\ Asked /\ ids < SnapshotBound
    /\ \E k \in DOMAIN rows, head \in 1 .. Len(commits) :
           /\ rows[k].out \in Ancestors(head)
           /\ call' = [call EXCEPT ![Operator] = [Source(k) EXCEPT !.pc = "pin", !.mode = "revert",
                                                     !.in = head, !.out = NewCommit]]
           /\ Commit({head})
    /\ ids' = ids + 1
    /\ UNCHANGED <<trees, refs, restores, db, faults, past>>

-----------------------------------------------------------------------------
Init ==
    /\ commits = <<{}>>
    /\ trees = [w \in Workspaces |-> NoTree]
    /\ refs = {} /\ rows = <<>> /\ restores = {}
    /\ run = [step |-> 1, candidate |-> Base]
    /\ tasks = [s \in Steps |-> [state |-> "none", attempt |-> 0, in |-> 0, ws |-> 0,
                                 wsAttempt |-> 0, success |-> 0]]
    /\ call = [c \in Callers |-> Idle]
    /\ ids = 0 /\ asked = 0
    /\ faults = [crash |-> 0, lease |-> 0, effect |-> 0, undo |-> 0, orphan |-> 0]
    /\ gone = {} /\ late = {}

Snapshot(c) ==
    \/ PinSnapshot(c) \/ PinFails(c) \/ CreateSnapshot(c) \/ CreateSnapshotFails(c)
    \/ UpdateCandidate(c) \/ UpdateCandidateFails(c)

ExecuteTask(c) ==
    \/ TaskForStep(c) \/ Prepare(c) \/ PreparationFails(c) \/ RecordWorkspace(c) \/ Dispatch(c)
    \/ Completes(c) \/ Reports(c) \/ AgentFails(c)
    \/ Verify(c) \/ CaptureRecovery(c) \/ CaptureFails(c)
    \/ CommitResult(c) \/ CommitResultFails(c) \/ CommitFailure(c) \/ LoseLease(c)

Next ==
    \/ CreateTask \/ Reap \/ RetryReady \/ ReworkTask \/ Advance
    \/ \E c \in Calls : ExecuteTask(c)
    \/ \E c \in Callers : Snapshot(c) \/ Crash(c)
    \/ \E w \in Workspaces : AgentEdits(w) \/ AgentCommits(w) \/ AgentChecksOut(w) \/ AgentMerges(w)
    \/ Restore \/ AddRestoreTree \/ AddRestoreTreeFails \/ RestoreIsOrphaned
    \/ CleanupRestore \/ CleanupRestoreFails \/ Revert

Spec == Init /\ [][Next]_vars

-----------------------------------------------------------------------------
(* Correctness. *)

\* Every snapshot of the table can be read for ever: its ref is there and pins its commit.
IndexedSnapshotsArePinned == \A k \in DOMAIN rows : <<rows[k].id, rows[k].out>> \in refs

\* A ref or a restore branch that no row names, and nobody is about to index or to remove,
\* is accounted for by a crash, by a compensation that failed, or by an error after the
\* worktree of a restore was added, which nothing compensates.
Unindexed(id) == /\ \A k \in DOMAIN rows : rows[k].id # id
                 /\ \A c \in Callers : call[c].id # id

NothingIsLeftBehind ==
    Cardinality({id \in Ids : Unindexed(id) /\ (\/ \E r \in refs : r[1] = id
                                               \/ \E r \in restores : r.id = id)})
        <= faults.crash + faults.undo + faults.orphan

\* No agent works in a worktree in which another attempt has worked, and it finds
\* there its input commit; an agent that outlived its process included.
WorktreesAreFresh ==
    /\ \A w \in Workspaces : Cardinality(trees[w].used) <= 1
    /\ \A c \in Calls : At(c, "dispatch") => Tree(c).head = call[c].in /\ ~Tree(c).dirty

\* Among the first k snapshots one made n the candidate, unless n is the base.
Vouched(n, k) ==
    n = Base \/ \E j \in 1 .. k : rows[j].out = n /\ rows[j].kind \in {"ACCEPTED", "REVERT"}

\* The candidate comes down from the base, or from a revert, by accepted snapshots alone:
\* each of them by an agent that may change the repository and built on its input, which
\* was vouched for before.  No recovery and no restore becomes the candidate by itself.
CandidateIsAuthorized ==
    /\ Vouched(run.candidate, Len(rows))
    /\ \A k \in DOMAIN rows : rows[k].kind = "ACCEPTED" =>
           /\ Agents[rows[k].step] \in MUTATING_AGENTS
           /\ rows[k].in \in Ancestors(rows[k].out)
           /\ Vouched(rows[k].in, k - 1)

\* The last step that the run came to, and its present attempt has completed it.
Completed(s) ==
    /\ tasks[s].state = "SUCCEEDED" /\ tasks[s].success = tasks[s].attempt
    /\ \A r \in Steps : r > s => tasks[r].state = "none"

\* When an attempt has completed its step, the candidate that the next step starts from
\* is what that attempt handed in, whatever failed attempts left as the candidate before
\* it; only a revert, or a call that had lost its lease, has moved it since.
SuccessIsCandidate ==
    \A s \in Steps : Completed(s) =>
        \E k \in DOMAIN rows :
            /\ rows[k].out = run.candidate
            /\ \/ <<rows[k].step, rows[k].attempt>> \in {<<s, tasks[s].success>>} \cup late
               \/ rows[k].kind = "REVERT"

\* What an agent leaves behind when its attempt fails is kept in a snapshot, unless the
\* attempt lost its lease or its process, or the snapshot itself failed.
FailedWorkIsKept ==
    \A w \in Workspaces, s \in Steps, a \in 1 .. MaxAttempts :
        (/\ <<s, a>> \in trees[w].used \ gone
         /\ tasks[s].attempt > a \/ tasks[s].state = "FAILED"
         /\ \A c \in Calls : call[c].ws # w
         /\ faults.effect + faults.undo = 0) =>
            ~trees[w].dirty /\ \E k \in DOMAIN rows : rows[k].out = trees[w].head
=============================================================================
