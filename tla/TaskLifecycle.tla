--------------------------- MODULE TaskLifecycle ---------------------------
(***************************************************************************)
(* What the Control Kernel promises about one row of the tasks table,     *)
(* whatever process executes it: an attempt is started once, decided at    *)
(* most once, and followed only by the next attempt.  The executions table *)
(* and the processes that race for it are hidden here; TaskExecution is    *)
(* the program that has to implement this.                                 *)
(***************************************************************************)
EXTENDS Naturals

CONSTANTS
    Task,             \* the tasks of a run
    InitialAttempts,  \* tasks.max_attempts of a new row
    RetryBatch        \* attempts a human adds to an exhausted task

VARIABLE tasks

Init ==
    tasks = [t \in Task |->
                [state |-> "READY", attempt |-> 1, maxAttempts |-> InitialAttempts]]

Is(t, s) == tasks[t].state = s

Becomes(t, s) == tasks' = [tasks EXCEPT ![t].state = s]

NextAttempt(t, extra) ==
    tasks' = [tasks EXCEPT ![t] = [state |-> "READY",
                                   attempt |-> tasks[t].attempt + 1,
                                   maxAttempts |-> tasks[t].maxAttempts + extra]]

\* A ready attempt is handed to a worker.
Start(t) == Is(t, "READY") /\ Becomes(t, "RUNNING")

\* The running attempt is decided by the worker that ran it.
Decide(t) ==
    /\ Is(t, "RUNNING")
    /\ \E s \in {"SUCCEEDED", "FAILED"} : Becomes(t, s)

\* Running attempts whose workers are gone are decided against, together.
Expire(S) ==
    /\ \A t \in S : Is(t, "RUNNING")
    /\ tasks' = [t \in Task |-> IF t \in S THEN [tasks[t] EXCEPT !.state = "FAILED"]
                                           ELSE tasks[t]]

\* A failed attempt is followed by the next one while the budget lasts ...
Retry(t) ==
    /\ Is(t, "FAILED")
    /\ tasks[t].attempt < tasks[t].maxAttempts
    /\ NextAttempt(t, 0)

\* ... and by a question to a human when it is spent.
Exhaust(t) ==
    /\ Is(t, "FAILED")
    /\ tasks[t].attempt >= tasks[t].maxAttempts
    /\ Becomes(t, "WAITING_HUMAN")

\* The human grants another batch of attempts, or declines.
Grant(t)   == Is(t, "WAITING_HUMAN") /\ NextAttempt(t, RetryBatch)
Decline(t) == Is(t, "WAITING_HUMAN") /\ Becomes(t, "CANCELLED")

\* The human sends a finished task back.
Rework(t) == Is(t, "SUCCEEDED") /\ NextAttempt(t, 0)

Next ==
    \/ \E t \in Task : \/ Start(t) \/ Decide(t) \/ Retry(t) \/ Exhaust(t)
                       \/ Grant(t) \/ Decline(t) \/ Rework(t)
    \/ \E S \in SUBSET Task : Expire(S)

Spec == Init /\ [][Next]_tasks
=============================================================================
