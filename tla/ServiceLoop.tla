----------------------------- MODULE ServiceLoop -----------------------------
(***************************************************************************)
(* The foreground service: its poll loop, the three directories it serves  *)
(* (the Manager's requests, the Monitor's approval commands, the workflow  *)
(* control commands), the ticking of the active runs, and the outbox of    *)
(* notifications to the Manager.                                           *)
(*                                                                         *)
(* Every file goes through effect, announcement and receipt, with a wait   *)
(* between any two at which the process may die.  The inside of a tick and *)
(* of an answer is Workflow; here each is one step on a summary of the run.*)
(***************************************************************************)
EXTENDS Integers, Sequences, FiniteSetsExt

CONSTANTS
    Requests,       \* names (numbers: their sort order) of files in requests/
    Commands,       \* names of the CMD- files
    Controls,       \* names of the WFC- files
    Content,        \* [File -> what the file says]
    Workflows,      \* workflow identifiers
    Limit,          \* how many notifications one delivery round looks at (100)
    SubmitBound,    \* bound on the number of files
    QuestionBound,  \* bound on the questions a run asks
    FaultBound      \* bound on crashes, stop requests, failed deliveries and failed writes together

File == Requests \cup Commands \cup Controls

ASSUME ServiceAssumption ==
    /\ File \subseteq Nat
    /\ Requests \cap (Commands \cup Controls) = {} /\ Commands \cap Controls = {}
    /\ \A f \in File : Content[f].workflow \in Workflows
    /\ \A f \in Requests : Content[f].type \in {"CREATE", "CHANGE", "ANSWER", "INVALID", "UNSAFE"}
    /\ \A f \in Commands : Content[f].type \in {"ANSWER", "INVALID", "UNSAFE"}
    /\ \A f \in Controls : Content[f].type \in {"PAUSE", "RESUME", "INVALID", "UNSAFE"}
    /\ \A f \in File : Content[f].type = "ANSWER" => Content[f].decision \in Nat \ {0}
    /\ Limit \in Nat \ {0}
    /\ {SubmitBound, QuestionBound, FaultBound} \subseteq Nat

VARIABLES
    queued,   \* the files that have been written
    receipt,  \* the receipt of every file
    runs,     \* the runs, by workflow; pending is the open question, asked their count
    outbox,   \* the rows of the notifications table, in created_at order
    svc,      \* the service process: where it is and what it holds in memory
    stop,     \* is there a foreground.stop.json?
    applied,  \* history: how often the effect of a file took place
    faults    \* crashes, stop requests, failed deliveries (refusals) and failed writes so far

store == <<runs, outbox, applied>>
vars  == <<queued, receipt, store, svc, stop, faults>>

None  == "NONE"

\* Mutant of Phase: the runs are ticked before the Manager's requests are read.
PhaseTickFirst == <<"approvals", "controls", "tick", "requests", "deliver">>

\* Mutant of Phase: the runs are ticked before the commands are read.
PhaseTickEarly == <<"requests", "tick", "approvals", "controls", "deliver">>

\* scan of the Manager's requests, then tickAll.
Phase == <<"requests", "approvals", "controls", "tick", "deliver">>
End   == Len(Phase) + 1

\* Types the Manager is told of, and types that stay in the control plane.
Waking     == {"ROUTE_CONFIRMED", "ROUTE_REVISED", "HUMAN_APPROVAL_REQUIRED", "WORKFLOW_TERMINAL"}
Suppressed == {"HUMAN_APPROVAL_RESOLVED", "WORKFLOW_PAUSED", "WORKFLOW_RESUMED_FROM_HOLD"}

Notification == [workflow : Workflows, type : Waking \cup Suppressed,
                 status : {"PENDING", "FAILED", "DELIVERED"}, attempts : Nat, wakes : Nat]

Down == [pc |-> "down", phase |-> End, todo |-> {}, send |-> {}, note |-> None]

TypeOK ==
    /\ queued \subseteq File
    /\ receipt \in [File -> {None, "ACCEPTED", "REJECTED"}]
    /\ runs \in [Workflows -> [state : {None, "ACTIVE", "WAITING_HUMAN", "HOLD", "TERMINAL"},
                               pending : Nat, asked : Nat]]
    /\ outbox \in Seq(Notification)
    /\ svc \in [pc : {"down", "loop", "scan", "announce", "send", "woken", "receipt"},
                phase : 1 .. End, todo : SUBSET (File \cup Workflows), send : SUBSET DOMAIN outbox,
                note : Waking \cup Suppressed \cup {None}]
    /\ stop \in BOOLEAN
    /\ applied \in [File -> Nat]
    /\ faults \in [crashes : 0 .. FaultBound, stops : 0 .. FaultBound, refusals : 0 .. FaultBound,
                   writes : 0 .. FaultBound]

At(p)      == svc.pc = p
In(phase)  == svc.phase # End /\ Phase[svc.phase] = phase

\* Files are taken in the order of their names, and runs in any order.
This     == IF In("tick") THEN CHOOSE w \in svc.todo : TRUE ELSE Min(svc.todo)
NextItem == svc' = [svc EXCEPT !.pc = "scan", !.todo = @ \ {This}]

Fault(k) ==
    /\ faults.crashes + faults.stops + faults.refusals + faults.writes < FaultBound
    /\ faults' = [faults EXCEPT ![k] = @ + 1]

-----------------------------------------------------------------------------
(* The writers of the three directories and of the stop file. *)

\* Drafts go to requests/ where neither request nor receipt exists; answers and
\* controls are written against a status that was just read.
SubmitDraft(f)    == Content[f].type \in {"CREATE", "CHANGE", "INVALID", "UNSAFE"} /\ receipt[f] = None
SubmitApproval(f) == Content[f].type = "ANSWER" /\ runs[Content[f].workflow].pending = Content[f].decision
SubmitControl(f)  == Content[f].type \in {"PAUSE", "RESUME"} /\ runs[Content[f].workflow].state # None

Submit(f) ==
    /\ f \notin queued
    /\ SubmitDraft(f) \/ SubmitApproval(f) \/ SubmitControl(f)
    /\ Cardinality(queued) < SubmitBound
    /\ queued' = queued \cup {f}
    /\ UNCHANGED <<receipt, store, svc, stop, faults>>

\* requestForegroundServiceStop.  The interval watcher makes the service drain at
\* once, which shows only at the head of the loop: stop stands for both.
RequestStop ==
    /\ ~At("down") /\ Fault("stops")
    /\ stop' = TRUE
    /\ UNCHANGED <<queued, receipt, store, svc>>

-----------------------------------------------------------------------------
(* runForegroundService. *)

\* A stop request found at the start is not for this instance.
Start ==
    /\ At("down")
    /\ svc' = [Down EXCEPT !.pc = "loop"]
    /\ stop' = FALSE
    /\ UNCHANGED <<queued, receipt, store, faults>>

Stopped ==
    /\ At("loop") /\ stop
    /\ svc' = Down
    /\ stop' = FALSE
    /\ UNCHANGED <<queued, receipt, store, faults>>

\* listNotifications: the oldest rows that are not delivered.
Round ==
    LET open == {n \in DOMAIN outbox : outbox[n].status # "DELIVERED"}
    IN {n \in open : Cardinality({m \in open : m < n}) < Limit}

\* The files of a directory; those with a receipt are read and passed over.
Waiting(files) == {f \in queued \cap files : receipt[f] = None}

\* What a phase works through is listed when the phase begins.
Listed(p) ==
    CASE p = "requests"  -> Waiting(Requests)
      [] p = "approvals" -> Waiting(Commands)
      [] p = "controls"  -> Waiting(Controls)
      [] p = "tick"      -> {w \in Workflows : runs[w].state = "ACTIVE"}
      [] p = "deliver"   -> {}

Enter(i) ==
    svc' = IF i = End
           THEN [Down EXCEPT !.pc = "loop"]
           ELSE [svc EXCEPT !.phase = i, !.todo = Listed(Phase[i]),
                            !.pc   = IF Phase[i] = "deliver" THEN "send" ELSE "scan",
                            !.send = IF Phase[i] = "deliver" THEN Round ELSE {}]

Cycle ==
    /\ At("loop") /\ ~stop
    /\ Enter(1)
    /\ UNCHANGED <<queued, receipt, store, stop, faults>>

\* Mutant of NextPhase: one phase too far.
SkipPhase ==
    /\ At("scan") /\ svc.todo = {}
    /\ svc' = [svc EXCEPT !.phase = @ + 2, !.todo = {}]
    /\ UNCHANGED <<queued, receipt, store, stop, faults>>

NextPhase ==
    /\ \/ At("scan") /\ svc.todo = {}
       \/ At("send") /\ svc.send = {} /\ In("deliver")
    /\ Enter(svc.phase + 1)
    /\ UNCHANGED <<queued, receipt, store, stop, faults>>

Crash ==
    /\ ~At("down") /\ Fault("crashes")
    /\ svc' = Down
    /\ UNCHANGED <<queued, receipt, store, stop>>

-----------------------------------------------------------------------------
(* What a file asks for: whether it can be done, the run afterwards, and the type  *)
(* of the announcement.                                                            *)

OnFile == At("scan") /\ svc.todo # {} /\ ~In("tick")
Asks   == Content[This]
Run    == runs[Asks.workflow]

\* Mutant of CreateRun: WORKFLOW_EXISTS is not checked.
CreateRunAgain ==
    [can |-> TRUE, run |-> [Run EXCEPT !.state = "ACTIVE"], note |-> "ROUTE_CONFIRMED"]

CreateRun ==
    [can |-> Run.state = None, run |-> [Run EXCEPT !.state = "ACTIVE"], note |-> "ROUTE_CONFIRMED"]

ReviseRun ==
    [can |-> Run.state # None, run |-> [Run EXCEPT !.state = "ACTIVE"], note |-> "ROUTE_REVISED"]

\* Mutant of ResolveDecision: APPROVAL_NOT_PENDING is not checked.
ResolveDecisionAgain ==
    [can  |-> Run.state # None,
     run  |-> [Run EXCEPT !.pending = 0, !.state = IF Asks.declines THEN "TERMINAL" ELSE "ACTIVE"],
     note |-> IF Asks.declines THEN "WORKFLOW_TERMINAL" ELSE "HUMAN_APPROVAL_RESOLVED"]

ResolveDecision ==
    [can  |-> Run.pending = Asks.decision,
     run  |-> [Run EXCEPT !.pending = 0, !.state = IF Asks.declines THEN "TERMINAL" ELSE "ACTIVE"],
     note |-> IF Asks.declines THEN "WORKFLOW_TERMINAL" ELSE "HUMAN_APPROVAL_RESOLVED"]

PauseRun ==
    [can |-> Run.state = "ACTIVE", run |-> [Run EXCEPT !.state = "HOLD"],
     note |-> "WORKFLOW_PAUSED"]

ResumeRun ==
    [can |-> Run.state = "HOLD", run |-> [Run EXCEPT !.state = "ACTIVE"],
     note |-> "WORKFLOW_RESUMED_FROM_HOLD"]

\* A file that fails its validation, or is not a regular file.
Unusable == [can |-> FALSE, run |-> Run, note |-> None]

Effect ==
    CASE Asks.type = "CREATE" -> CreateRun
      [] Asks.type = "CHANGE" -> ReviseRun
      [] Asks.type = "ANSWER" -> ResolveDecision
      [] Asks.type = "PAUSE"  -> PauseRun
      [] Asks.type = "RESUME" -> ResumeRun
      [] Asks.type \in {"INVALID", "UNSAFE"} -> Unusable

\* Pausing a paused run, or resuming an active one, is accepted and changes nothing.
Already ==
    \/ Asks.type = "PAUSE"  /\ Run.state = "HOLD"
    \/ Asks.type = "RESUME" /\ Run.state = "ACTIVE"

\* A task that a crash left RUNNING refuses a revision.
Refused == (~Effect.can /\ ~Already) \/ (Asks.type = "CHANGE" /\ faults.crashes > 0)

-----------------------------------------------------------------------------
(* processFile: effect, announcement, receipt; an error becomes a REJECTED receipt. *)

Reject ==
    /\ Refused
    /\ receipt' = [receipt EXCEPT ![This] = "REJECTED"]
    /\ NextItem
    /\ UNCHANGED <<store, faults>>

NothingToChange ==
    /\ Already
    /\ svc' = [svc EXCEPT !.pc = "receipt"]
    /\ UNCHANGED <<receipt, store, faults>>

\* Mutant of Apply: the receipt is written first.
ReceiptBeforeEffect ==
    /\ Effect.can
    /\ receipt' = [receipt EXCEPT ![This] = "ACCEPTED"]
    /\ svc' = [svc EXCEPT !.pc = "receipt"]
    /\ UNCHANGED <<store, faults>>

Apply ==
    /\ Effect.can
    /\ runs' = [runs EXCEPT ![Asks.workflow] = Effect.run]
    /\ applied' = [applied EXCEPT ![This] = @ + 1]
    /\ svc' = [svc EXCEPT !.pc = "announce", !.note = Effect.note]
    /\ UNCHANGED <<receipt, outbox, faults>>

\* The request queue checks for a regular file outside its try: that error ends the
\* scan and with it the cycle.
UnsafeRequest == Enter(End) /\ UNCHANGED <<receipt, store, faults>>

ProcessRequest ==
    /\ OnFile /\ In("requests")
    /\ IF Asks.type = "UNSAFE" THEN UnsafeRequest ELSE Reject \/ Apply
    /\ UNCHANGED <<queued, stop>>

ProcessApprovalCommand ==
    /\ OnFile /\ In("approvals")
    /\ Reject \/ Apply
    /\ UNCHANGED <<queued, stop>>

ProcessControlCommand ==
    /\ OnFile /\ In("controls")
    /\ Reject \/ NothingToChange \/ Apply
    /\ UNCHANGED <<queued, stop>>

WriteReceipt ==
    /\ At("receipt")
    /\ receipt' = [receipt EXCEPT ![This] = "ACCEPTED"]
    /\ NextItem
    /\ UNCHANGED <<queued, store, stop, faults>>

-----------------------------------------------------------------------------
(* tickAll: the runs that were ACTIVE when it listed them. *)

Ticking == At("scan") /\ svc.todo # {} /\ In("tick")

\* A tick that leaves the run as it was, or finds it no longer active.
TickOnly ==
    /\ Ticking
    /\ NextItem
    /\ UNCHANGED <<queued, receipt, store, stop, faults>>

Ticked(r, type) ==
    /\ Ticking /\ runs[This].state = "ACTIVE"
    /\ runs' = [runs EXCEPT ![This] = r]
    /\ svc' = [svc EXCEPT !.pc = "announce", !.note = type]
    /\ UNCHANGED <<queued, receipt, outbox, applied, stop, faults>>

TickAsks ==
    /\ Ticking /\ runs[This].asked < QuestionBound
    /\ Ticked([state |-> "WAITING_HUMAN", pending |-> runs[This].asked + 1,
               asked |-> runs[This].asked + 1], "HUMAN_APPROVAL_REQUIRED")

TickFinishes == Ticking /\ Ticked([runs[This] EXCEPT !.state = "TERMINAL"], "WORKFLOW_TERMINAL")

\* The error leaves tickAll: no further run is ticked and nothing is delivered.
TickThrows ==
    /\ Ticking
    /\ Enter(End)
    /\ UNCHANGED <<queued, receipt, store, stop, faults>>

-----------------------------------------------------------------------------
(* announce and deliverNotifications. *)

Workflow == IF In("tick") THEN This ELSE Asks.workflow

\* queueNotification; the round that follows keeps of its rows only the new one.
Queue ==
    /\ At("announce")
    /\ outbox' = Append(outbox, [workflow |-> Workflow, type |-> svc.note, status |-> "PENDING",
                                 attempts |-> 0, wakes |-> 0])
    /\ svc' = [svc EXCEPT !.pc = "send", !.note = None,
                          !.send = IF Cardinality(Round) < Limit THEN {Len(outbox) + 1} ELSE {}]
    /\ UNCHANGED <<queued, receipt, runs, applied, stop, faults>>

Oldest  == Min(svc.send)
Row     == outbox[Oldest]
Sending == At("send") /\ svc.send # {}

\* Every update of a row counts as an attempt.
Update(status) ==
    /\ outbox' = [outbox EXCEPT ![Oldest].status = status, ![Oldest].attempts = @ + 1]
    /\ svc' = [svc EXCEPT !.pc = "send", !.send = @ \ {Oldest}]
    /\ UNCHANGED <<queued, receipt, runs, applied, stop>>

Suppress == Sending /\ Row.type \in Suppressed /\ Update("DELIVERED") /\ UNCHANGED faults

\* The Manager's turn runs; the row is updated when it has ended.
Wake ==
    /\ Sending /\ Row.type \in Waking
    /\ outbox' = [outbox EXCEPT ![Oldest].wakes = @ + 1]
    /\ svc' = [svc EXCEPT !.pc = "woken"]
    /\ UNCHANGED <<queued, receipt, runs, applied, stop, faults>>

\* Mutant of MarkDelivered: the row of a delivered notification is not updated.
ForgetDelivered ==
    /\ At("woken")
    /\ svc' = [svc EXCEPT !.pc = "send", !.send = @ \ {Oldest}]
    /\ UNCHANGED <<queued, receipt, store, stop, faults>>

MarkDelivered == At("woken") /\ Update("DELIVERED") /\ UNCHANGED faults

\* Without the Manager's session there is no turn; the turn cannot start, or runs and
\* then its exit code, its reply or a stop signal is an error.  The next round of the
\* outbox takes the row again.
DeliveryFails ==
    /\ (Sending /\ Row.type \in Waking) \/ At("woken")
    /\ Update("FAILED")
    /\ Fault("refusals")

\* The outbox itself cannot be written, after the turn perhaps: the error leaves the
\* announcement.  A file that took effect is REJECTED; a tick or a round ends the cycle.
AnnounceFails ==
    /\ At("announce") \/ Sending \/ At("woken")
    /\ Fault("writes")
    /\ IF In("tick") \/ In("deliver")
       THEN Enter(End) /\ UNCHANGED receipt
       ELSE /\ receipt' = [receipt EXCEPT ![This] = "REJECTED"]
            /\ svc' = [svc EXCEPT !.pc = "scan", !.todo = @ \ {This}, !.send = {}, !.note = None]
    /\ UNCHANGED <<queued, store, stop>>

Announced ==
    /\ At("send") /\ svc.send = {} /\ ~In("deliver")
    /\ IF In("tick") THEN NextItem ELSE svc' = [svc EXCEPT !.pc = "receipt"]
    /\ UNCHANGED <<queued, receipt, store, stop, faults>>

-----------------------------------------------------------------------------
(* What the Manager is told of a workflow. *)

\* requestStatusFromQueue: a request counts while it has no receipt, or a REJECTED one.
InQueue(w) ==
    {f \in queued \cap Requests : /\ Content[f].workflow = w
                                 /\ Content[f].type \notin {"INVALID", "UNSAFE"}
                                 /\ receipt[f] # "ACCEPTED"}

\* readOrchestratorStatus.
Status(w) ==
    CASE runs[w].state # None                      -> runs[w].state
      [] runs[w].state = None /\ InQueue(w) # {} -> "QUEUED_OR_REJECTED"
      [] OTHER                                     -> "WORKFLOW_NOT_FOUND"

-----------------------------------------------------------------------------
Init ==
    /\ queued = {}
    /\ receipt = [f \in File |-> None]
    /\ runs = [w \in Workflows |-> [state |-> None, pending |-> 0, asked |-> 0]]
    /\ outbox = <<>>
    /\ svc = Down
    /\ stop = FALSE
    /\ applied = [f \in File |-> 0]
    /\ faults = [crashes |-> 0, stops |-> 0, refusals |-> 0, writes |-> 0]

ServiceStep ==
    \/ Stopped \/ Cycle \/ NextPhase
    \/ ProcessRequest \/ ProcessApprovalCommand \/ ProcessControlCommand \/ WriteReceipt
    \/ TickOnly \/ TickAsks \/ TickFinishes \/ TickThrows
    \/ Queue \/ Suppress \/ Wake \/ MarkDelivered \/ DeliveryFails \/ AnnounceFails \/ Announced

Next ==
    \/ \E f \in File : Submit(f)
    \/ RequestStop \/ Start \/ Crash
    \/ ServiceStep

Spec == Init /\ [][Next]_vars

\* The process runs while it lives.
FairSpec == Spec /\ WF_vars(ServiceStep)

-----------------------------------------------------------------------------
(* Correctness. *)

\* A file takes effect once; only a revision may be repeated, and each repetition is
\* paid for by a crash between the effect and its receipt.
EffectsAreNotRepeated ==
    \A f \in File : applied[f] > 1 => /\ Content[f].type \in {"CHANGE", "PAUSE", "RESUME"}
                                     /\ applied[f] <= 1 + faults.crashes

\* Of all the files that answer one question, from the Manager and from the Monitor,
\* at most one takes effect.
OneAnswerPerQuestion ==
    \A f, g \in {h \in File : applied[h] > 0 /\ Content[h].type = "ANSWER"} :
        f # g => \/ Content[f].workflow # Content[g].workflow
                 \/ Content[f].decision # Content[g].decision

\* When runs are ticked every request that took effect has its receipt: a revision
\* that a crash makes the service repeat never undoes the work of a tick.
TickedRunsAreReceipted ==
    (In("tick") /\ At("scan")) => \A f \in Requests : applied[f] > 0 => receipt[f] # None

Failures(row) == row.attempts - (IF row.status = "DELIVERED" THEN 1 ELSE 0)

\* The Manager is woken again for a notification only when its delivery failed and was
\* recorded FAILED, or when a crash or a failing write came between its turn and the
\* record: what the outbox records as delivered is not delivered again.
OneWakePerNotification ==
    \A n \in DOMAIN outbox :
        outbox[n].wakes <= 1 + Failures(outbox[n]) + faults.crashes + faults.writes

\* From its submission on, a valid CREATE is never lost from sight: the status of its
\* workflow is the request's or the run's, whatever crashes come between.
SubmittedIsVisible ==
    \A f \in queued : Content[f].type = "CREATE" => Status(Content[f].workflow) # "WORKFLOW_NOT_FOUND"

Blocked == \E f \in queued \cap Requests : Content[f].type = "UNSAFE"

\* While the service runs every file gets its receipt, whatever ticks throw; a request
\* that is not a regular file is the only thing that keeps it from one.
FilesAreAnswered ==
    \A f \in File : (f \in queued) ~> (receipt[f] # None \/ At("down") \/ stop \/ Blocked)
=============================================================================
