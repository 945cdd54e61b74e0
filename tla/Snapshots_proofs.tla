-------------------------- MODULE Snapshots_proofs --------------------------
(***************************************************************************)
(* Theorems about Snapshots for any calls, agents, workspaces and bounds:  *)
(* type correctness and the six safety invariants of its run.  The         *)
(* invariant is proved in layers, each by itself and with the ones before  *)
(* it in hand: what the rows are (Rows), which tree belongs to whom        *)
(* (Owned), which id has a ref and a row (Pinned), what has been left      *)
(* behind (Counted), in which order tasks and attempts come (Ordered),     *)
(* which commits are authorized (Chained), what the candidate is from      *)
(* (Accounted) and what failed attempts leave (Kept).                      *)
(***************************************************************************)
EXTENDS Snapshots, Lemmas, FiniteSetTheorems

States   == {"none", "READY", "RUNNING", "FAILED", "SUCCEEDED"}
Attempts == 1 .. MaxAttempts

CommitRow == SUBSET Nat
TreeRow(n) == [state : {"free", "reserved", "tree"}, head : 0 .. n, dirty : BOOLEAN, busy : BOOLEAN,
               used : SUBSET (Steps \X Attempts)]
SnapRow(n) == [id : Ids, step : Steps, attempt : Attempts, kind : SnapshotKind, in : 0 .. n, out : 1 .. n]
TaskRow(n) == [state : States, attempt : 0 .. MaxAttempts, in : 0 .. n, ws : {0} \cup Workspaces,
               wsAttempt : 0 .. MaxAttempts, success : 0 .. MaxAttempts]
CallRow(n) == [pc : {"idle", "prepare", "record", "dispatch", "run", "verify", "capture", "pin", "index",
                     "candidate", "commit", "fail", "add", "cleanup"},
               mode : {"none", "accept", "recover", "rescue", "restore", "revert"},
               step : Nat, attempt : 0 .. MaxAttempts, ws : {0} \cup Workspaces, in : 0 .. n, out : 0 .. n,
               id : {0} \cup Ids, result : {"none", "FAILED", "SUCCEEDED"}, held : BOOLEAN]

-----------------------------------------------------------------------------
(* What the rows are. *)

Starts   == {"prepare", "record", "dispatch"}
Persists == {"add", "pin", "index"}

\* Where a caller that is doing something is, and what it is doing it for.
CallOfTask(r) ==
    /\ r.pc \notin {"add", "cleanup"} /\ r.ws \in Workspaces
    /\ r.pc \in Starts => r.held /\ r.in # 0
    /\ r.pc = "verify" => r.mode = "accept"
    /\ r.pc = "capture" => r.mode \in {"recover", "rescue"}
    /\ r.pc \in Persists => r.mode \in {"accept", "recover", "rescue"}
    /\ r.pc = "candidate" => r.mode = "accept"
    /\ r.pc = "commit" => r.mode \in {"accept", "recover"}
    /\ r.mode = "recover" => r.result # "none"

CallOfOperator(r) ==
    /\ r.held
    /\ \/ r.pc \in Persists \cup {"cleanup"} /\ r.mode = "restore"
       \/ r.pc \in {"pin", "index", "candidate"} /\ r.mode = "revert"

CallAt(c) ==
    LET r == call[c]
    IN IF r.pc = "idle" THEN r = Idle
       ELSE /\ r.step \in Steps /\ r.attempt \in Attempts
            /\ r.pc \in Persists => r.id \in Ids
            /\ r.pc \in Persists \cup {"verify", "candidate"} => r.out # 0
            /\ IF c = Operator THEN CallOfOperator(r) ELSE CallOfTask(r)

TaskAt(s) ==
    LET t == tasks[s]
    IN IF t.state = "none" THEN t.attempt = 0 /\ t.ws = 0
       ELSE t.attempt \in Attempts /\ t.in # 0

FaultRow == [crash : Nat, lease : Nat, effect : Nat, undo : Nat, orphan : Nat]

\* Nothing mentions a commit beyond the first n.
Upto(n) ==
    /\ trees \in [Workspaces -> TreeRow(n)]
    /\ refs \subseteq Ids \X (1 .. n)
    /\ rows \in Seq(SnapRow(n))
    /\ restores \subseteq [id : Ids, commit : 1 .. n]
    /\ run \in [step : 1 .. Len(Agents) + 1, candidate : 1 .. n]
    /\ tasks \in [Steps -> TaskRow(n)]
    /\ call \in [Callers -> CallRow(n)]

Rows ==
    /\ commits \in Seq(CommitRow) /\ Len(commits) # 0
    /\ \A n \in 1 .. Len(commits) : commits[n] \subseteq 1 .. Len(commits)
    /\ Upto(Len(commits))
    /\ ids \in 0 .. SnapshotBound /\ asked \in Nat /\ faults \in FaultRow
    /\ \A c \in Callers : CallAt(c)
    /\ \A s \in Steps : TaskAt(s)

-----------------------------------------------------------------------------
(* Which tree belongs to whom. *)

\* The tree of a call: made for it, then used by it alone.
TreeOfCall(c) ==
    LET r == call[c]  t == Tree(c)
    IN /\ r.pc = "prepare" => t.state = "reserved"
       /\ r.pc # "prepare" => t.state = "tree"
       /\ r.pc \in {"record", "dispatch"} => t.head = r.in
       /\ r.pc \in Starts => ~t.dirty /\ ~t.busy /\ t.used = {}
       /\ r.pc \notin Starts => t.used = {Attempt(c)} /\ (t.busy => r.pc = "run")

\* The task of a call, as long as the call has its lease.
TaskOfCall(c) ==
    LET r == call[c]  t == tasks[r.step]
    IN /\ r.held => t.attempt = r.attempt
       /\ r.pc \in Starts => t.state = "READY" /\ t.in = r.in
       /\ r.pc = "dispatch" => t.ws = r.ws /\ t.wsAttempt = r.attempt
       /\ r.pc \in {"prepare", "record"} => \A s \in Steps : tasks[s].ws # r.ws
       /\ r.held /\ r.pc \notin Starts => t.state = "RUNNING"

TreeAt(w) ==
    LET t == trees[w]
    IN /\ t.state # "tree" => ~t.dirty /\ ~t.busy /\ t.used = {}
       /\ t.state = "tree" => t.head # 0
       /\ t.busy => t.used # {}
       /\ \A x, y \in t.used : x = y

WorkspaceOfTask(s) ==
    LET t == tasks[s]  w == trees[t.ws]
    IN /\ t.success <= t.attempt /\ t.wsAttempt <= t.attempt
       /\ t.ws # 0 => w.state = "tree"
       /\ t.state = "READY" /\ Stored(t) => w.used = {} /\ w.head = t.in /\ ~w.dirty /\ ~w.busy

Owned ==
    /\ \A c, d \in Callers : call[c].held /\ call[d].held => c = d
    /\ \A c, d \in Calls : c # d /\ ~At(c, "idle") /\ ~At(d, "idle") => call[c].ws # call[d].ws
    /\ \A s, r \in Steps : s # r /\ tasks[s].ws # 0 => tasks[s].ws # tasks[r].ws
    /\ \A c \in Calls : ~At(c, "idle") => TreeOfCall(c) /\ TaskOfCall(c)
    /\ \A w \in Workspaces : TreeAt(w)
    /\ \A s \in Steps : WorkspaceOfTask(s)

-----------------------------------------------------------------------------
(* Which id has a ref and a row. *)

Persisting(c) == call[c].pc \in Persists

PinOfCall(c) ==
    LET r == call[c]
    IN /\ r.id <= ids
       /\ \A k \in DOMAIN rows : rows[k].id # r.id
       /\ \A d \in Callers : d # c /\ Persisting(d) => call[d].id # r.id
       /\ r.pc = "index" => <<r.id, r.out>> \in refs
       /\ \A p \in refs : p[1] = r.id => r.pc = "index" /\ p[2] = r.out
       /\ r.mode # "restore" => \A b \in restores : b.id # r.id

Pinned ==
    /\ \A k \in DOMAIN rows : rows[k].id <= ids
    /\ \A p \in refs : p[1] <= ids
    /\ \A b \in restores : b.id <= ids
    /\ \A c \in Callers : Persisting(c) => PinOfCall(c)
    /\ IndexedSnapshotsArePinned

-----------------------------------------------------------------------------
(* What has been left behind. *)

HasRef(id)   == \E p \in refs : p[1] = id
HasTrace(id) == HasRef(id) \/ \E b \in restores : b.id = id

\* Somebody is about to index the id, or to remove the only thing that is left of it.
InHand(id) == \E c \in Callers : /\ call[c].id = id
                                 /\ Persisting(c) \/ (At(c, "cleanup") /\ ~HasRef(id))

Leftover == {id \in Ids : (\A k \in DOMAIN rows : rows[k].id # id) /\ HasTrace(id) /\ ~InHand(id)}

Counted == Cardinality(Leftover) <= faults.crash + faults.undo + faults.orphan

-----------------------------------------------------------------------------
(* In which order tasks and attempts come. *)

TaskIsOrdered(s) ==
    /\ s > run.step => tasks[s].state = "none"
    /\ tasks[s].state \in {"READY", "RUNNING"} => tasks[s].success < tasks[s].attempt

Ordered ==
    /\ \A c \in Calls : call[c].held => call[c].step = run.step
    /\ \A s \in Steps : TaskIsOrdered(s)

-----------------------------------------------------------------------------
(* Which commits are authorized. *)

CallIsChained(c) ==
    LET r == call[c]
    IN /\ c # Operator /\ r.pc # "idle" => Vouched(r.in, Len(rows))
       /\ r.pc \in {"pin", "index"} /\ r.mode = "accept" => r.in \in Ancestors(r.out) /\ Authorized(c)
       /\ r.pc = "candidate" => Vouched(r.out, Len(rows))

Chained ==
    /\ \A s \in Steps : tasks[s].state # "none" => Vouched(tasks[s].in, Len(rows))
    /\ \A c \in Callers : CallIsChained(c)
    /\ CandidateIsAuthorized

-----------------------------------------------------------------------------
(* What the candidate is from. *)

\* The candidate is what the attempt x handed in, or what nothing could keep from being it.
HandedIn(x) ==
    \E k \in DOMAIN rows : /\ rows[k].out = run.candidate
                           /\ \/ <<rows[k].step, rows[k].attempt>> \in {x} \cup late
                              \/ rows[k].kind = "REVERT"

RowOfCall(c) ==
    \E k \in DOMAIN rows : /\ rows[k].out = call[c].out
                           /\ IF c = Operator THEN rows[k].kind = "REVERT"
                              ELSE <<rows[k].step, rows[k].attempt>> = Attempt(c)

CallIsAccounted(c) ==
    /\ At(c, "candidate") => RowOfCall(c)
    /\ c # Operator /\ At(c, "commit") /\ call[c].mode = "accept" /\ call[c].held => HandedIn(Attempt(c))

Accounted ==
    /\ \A c \in Callers : CallIsAccounted(c)
    /\ \A s \in Steps : Completed(s) => HandedIn(<<s, tasks[s].success>>)

-----------------------------------------------------------------------------
(* What failed attempts leave. *)

Faultless == faults.effect + faults.undo = 0
Saved(n)  == \E k \in DOMAIN rows : rows[k].out = n

TreeIsKept(w) ==
    (trees[w].used \ gone # {} /\ \A c \in Calls : call[c].ws # w) =>
        ~trees[w].dirty /\ ~trees[w].busy /\ Saved(trees[w].head)

CallKeeps(c) ==
    /\ call[c].pc \in Persists => ~Tree(c).dirty /\ Tree(c).head = call[c].out
    /\ call[c].pc \in {"candidate", "commit", "fail"} => ~Tree(c).dirty /\ Saved(Tree(c).head)

Kept == Faultless => /\ \A w \in Workspaces : TreeIsKept(w)
                     /\ \A c \in Calls : CallKeeps(c)

-----------------------------------------------------------------------------
(* Parts of a step: what becomes of the row of a caller. *)

Pcs == {"idle", "prepare", "record", "dispatch", "run", "verify", "capture", "pin", "index", "candidate",
        "commit", "fail", "add", "cleanup"}

\* Only the row of c changes, to one that is again a row.
OnlyCall(c, n) ==
    /\ call' \in [Callers -> CallRow(n)]
    /\ \A d \in Callers : d # c => call'[d] = call[d]

\* What becomes of the bookkeeping of a row: the step, the attempt and the workspace.
SamePlace(c) == /\ call'[c].step = call[c].step /\ call'[c].attempt = call[c].attempt
                /\ call'[c].ws = call[c].ws /\ call'[c].in = call[c].in

\* Only the pc of a caller moves on.
LEMMA Went ==
    ASSUME NEW n \in Nat, call \in [Callers -> CallRow(n)], NEW c \in Callers, NEW p \in Pcs, Goto(c, p)
    PROVE  /\ OnlyCall(c, n) /\ SamePlace(c)
           /\ call'[c].pc = p /\ call'[c].mode = call[c].mode /\ call'[c].out = call[c].out
           /\ call'[c].id = call[c].id /\ call'[c].result = call[c].result /\ call'[c].held = call[c].held
  BY DEF Goto, OnlyCall, SamePlace, CallRow, Pcs

\* The row of an idle caller is a row.
LEMMA IdleRow ==
    ASSUME NEW n \in Nat
    PROVE  /\ Idle \in CallRow(n)
           /\ Idle.pc = "idle" /\ Idle.mode = "none" /\ Idle.attempt = 0 /\ Idle.ws = 0 /\ Idle.in = 0
           /\ Idle.out = 0 /\ Idle.id = 0 /\ Idle.result = "none" /\ Idle.held = FALSE
<1>1. 0 \in 0 .. n /\ 0 \in 0 .. MaxAttempts /\ 1 \in Nat
  BY SnapshotsAssumption
<1> QED
  BY <1>1 DEF Idle, CallRow

\* A caller that is done has the row it began with.
LEMMA WasDone ==
    ASSUME NEW n \in Nat, call \in [Callers -> CallRow(n)], NEW c \in Callers, Done(c)
    PROVE  OnlyCall(c, n) /\ call'[c] = Idle
<1>1. Idle \in CallRow(n)
  BY IdleRow
<1> QED
  BY <1>1 DEF Done, OnlyCall

\* The rescue of an attempt forgets the snapshot that failed.
LEMMA WasRescued ==
    ASSUME NEW n \in Nat, call \in [Callers -> CallRow(n)], NEW c \in Callers, Rescue(c)
    PROVE  /\ OnlyCall(c, n) /\ SamePlace(c)
           /\ call'[c].pc = "capture" /\ call'[c].mode = "rescue" /\ call'[c].out = 0
           /\ call'[c].id = 0 /\ call'[c].result = "FAILED" /\ call'[c].held = call[c].held
<1> DEFINE With(q) ==
       [q EXCEPT !.pc = "capture", !.mode = "rescue", !.result = "FAILED", !.id = 0, !.out = 0]
<1>1. ASSUME NEW q \in CallRow(n)
      PROVE  /\ With(q) \in CallRow(n)
             /\ With(q).step = q.step /\ With(q).attempt = q.attempt /\ With(q).ws = q.ws /\ With(q).in = q.in
             /\ With(q).pc = "capture" /\ With(q).mode = "rescue" /\ With(q).out = 0
             /\ With(q).id = 0 /\ With(q).result = "FAILED" /\ With(q).held = q.held
  <2>1. 0 \in 0 .. n
    OBVIOUS
  <2> QED
    BY <2>1 DEF CallRow
<1>2. call' = [call EXCEPT ![c] = With(call[c])]
  BY DEF Rescue
<1> HIDE DEF With
<1>3. call[c] \in CallRow(n)
  OBVIOUS
<1>4. OnlyCall(c, n) /\ call'[c] = With(call[c])
  BY <1>1, <1>2, <1>3 DEF OnlyCall
<1> QED
  BY <1>1, <1>3, <1>4 DEF SamePlace

\* A new snapshot has the next id and the commit it is to keep.
LEMMA SnapshotBegan ==
    ASSUME NEW n \in Nat, call \in [Callers -> CallRow(n)], NEW c \in Callers, NEW out \in 0 .. n,
           ids + 1 \in Ids, NewSnapshot(c, out)
    PROVE  /\ OnlyCall(c, n) /\ SamePlace(c)
           /\ call'[c].pc = "pin" /\ call'[c].mode = call[c].mode /\ call'[c].out = out
           /\ call'[c].id = ids + 1 /\ call'[c].result = call[c].result /\ call'[c].held = call[c].held
<1> DEFINE With(q) == [q EXCEPT !.pc = "pin", !.id = ids + 1, !.out = out]
<1>1. ASSUME NEW q \in CallRow(n)
      PROVE  /\ With(q) \in CallRow(n)
             /\ With(q).step = q.step /\ With(q).attempt = q.attempt /\ With(q).ws = q.ws /\ With(q).in = q.in
             /\ With(q).pc = "pin" /\ With(q).mode = q.mode /\ With(q).out = out
             /\ With(q).id = ids + 1 /\ With(q).result = q.result /\ With(q).held = q.held
  <2>1. ids + 1 \in {0} \cup Ids
    OBVIOUS
  <2> QED
    BY <2>1 DEF CallRow
<1>2. call' = [call EXCEPT ![c] = With(call[c])]
  BY DEF NewSnapshot
<1> HIDE DEF With
<1>3. call[c] \in CallRow(n)
  OBVIOUS
<1>4. OnlyCall(c, n) /\ call'[c] = With(call[c])
  BY <1>1, <1>2, <1>3 DEF OnlyCall
<1> QED
  BY <1>1, <1>3, <1>4 DEF SamePlace

\* A completed result names a commit.
LEMMA WasCompleted ==
    ASSUME NEW n \in Nat, call \in [Callers -> CallRow(n)], NEW c \in Callers, NEW out \in 0 .. n,
           call' = [call EXCEPT ![c].pc = "verify", ![c].mode = "accept", ![c].out = out]
    PROVE  /\ OnlyCall(c, n) /\ SamePlace(c)
           /\ call'[c].pc = "verify" /\ call'[c].mode = "accept" /\ call'[c].out = out
           /\ call'[c].id = call[c].id /\ call'[c].result = call[c].result /\ call'[c].held = call[c].held
<1> DEFINE With(q) == [q EXCEPT !.pc = "verify", !.mode = "accept", !.out = out]
<1>1. ASSUME NEW q \in CallRow(n)
      PROVE  /\ With(q) \in CallRow(n)
             /\ With(q).step = q.step /\ With(q).attempt = q.attempt /\ With(q).ws = q.ws /\ With(q).in = q.in
             /\ With(q).pc = "verify" /\ With(q).mode = "accept" /\ With(q).out = out
             /\ With(q).id = q.id /\ With(q).result = q.result /\ With(q).held = q.held
  <2>1. "accept" \in {"none", "accept", "recover", "rescue", "restore", "revert"}
    OBVIOUS
  <2> QED
    BY <2>1 DEF CallRow
<1>2. call' = [call EXCEPT ![c] = With(call[c])]
  OBVIOUS
<1> HIDE DEF With
<1>3. call[c] \in CallRow(n)
  OBVIOUS
<1>4. OnlyCall(c, n) /\ call'[c] = With(call[c])
  BY <1>1, <1>2, <1>3 DEF OnlyCall
<1> QED
  BY <1>1, <1>3, <1>4 DEF SamePlace

\* Any other result is kept with what the agent left.
LEMMA WasReported ==
    ASSUME NEW n \in Nat, call \in [Callers -> CallRow(n)], NEW c \in Callers, NEW s \in {"FAILED", "SUCCEEDED"},
           call' = [call EXCEPT ![c].pc = "capture", ![c].mode = "recover", ![c].result = s]
    PROVE  /\ OnlyCall(c, n) /\ SamePlace(c)
           /\ call'[c].pc = "capture" /\ call'[c].mode = "recover" /\ call'[c].out = call[c].out
           /\ call'[c].id = call[c].id /\ call'[c].result = s /\ call'[c].held = call[c].held
<1> DEFINE With(q) == [q EXCEPT !.pc = "capture", !.mode = "recover", !.result = s]
<1>1. ASSUME NEW q \in CallRow(n)
      PROVE  /\ With(q) \in CallRow(n)
             /\ With(q).step = q.step /\ With(q).attempt = q.attempt /\ With(q).ws = q.ws /\ With(q).in = q.in
             /\ With(q).pc = "capture" /\ With(q).mode = "recover" /\ With(q).out = q.out
             /\ With(q).id = q.id /\ With(q).result = s /\ With(q).held = q.held
  <2>1. s \in {"none", "FAILED", "SUCCEEDED"}
    OBVIOUS
  <2> QED
    BY <2>1 DEF CallRow
<1>2. call' = [call EXCEPT ![c] = With(call[c])]
  OBVIOUS
<1> HIDE DEF With
<1>3. call[c] \in CallRow(n)
  OBVIOUS
<1>4. OnlyCall(c, n) /\ call'[c] = With(call[c])
  BY <1>1, <1>2, <1>3 DEF OnlyCall
<1> QED
  BY <1>1, <1>3, <1>4 DEF SamePlace

\* A lost lease changes nothing else of a row.
LEMMA LeaseWasLost ==
    ASSUME NEW n \in Nat, call \in [Callers -> CallRow(n)], NEW c \in Callers,
           call' = [call EXCEPT ![c].held = FALSE]
    PROVE  /\ OnlyCall(c, n) /\ SamePlace(c)
           /\ call'[c].pc = call[c].pc /\ call'[c].mode = call[c].mode /\ call'[c].out = call[c].out
           /\ call'[c].id = call[c].id /\ call'[c].result = call[c].result /\ call'[c].held = FALSE
  BY ZenonT(60) DEF OnlyCall, SamePlace, CallRow

\* The row a call begins with when it has a worktree, and before it has one.
LEMMA AskRow ==
    ASSUME NEW n \in Nat, NEW t \in TaskRow(n), NEW c \in Calls, run.step \in Nat
    PROVE  /\ Asks(c, t) \in CallRow(n)
           /\ Asks(c, t).step = run.step /\ Asks(c, t).attempt = t.attempt /\ Asks(c, t).in = t.in
           /\ Asks(c, t).pc = (IF Stored(t) THEN "dispatch" ELSE "prepare")
           /\ Asks(c, t).ws = (IF Stored(t) THEN t.ws ELSE 0)
           /\ Asks(c, t).mode = "none" /\ Asks(c, t).out = 0 /\ Asks(c, t).id = 0
           /\ Asks(c, t).result = "none" /\ Asks(c, t).held = TRUE
<1> DEFINE s == run.step
           a == t.attempt
           i == t.in
           p == IF Stored(t) THEN "dispatch" ELSE "prepare"
           v == IF Stored(t) THEN t.ws ELSE 0
           r == [Idle EXCEPT !.step = s, !.attempt = a, !.in = i, !.held = TRUE, !.pc = p, !.ws = v]
<1>1. /\ s \in Nat /\ a \in 0 .. MaxAttempts /\ i \in 0 .. n /\ p \in {"dispatch", "prepare"}
      /\ v \in {0} \cup Workspaces
  BY DEF TaskRow
<1>2. Asks(c, t) = r
  BY DEF Asks
<1>3. /\ Idle \in CallRow(n) /\ Idle.mode = "none" /\ Idle.out = 0 /\ Idle.id = 0 /\ Idle.result = "none"
  BY IdleRow
<1> HIDE DEF s, a, i, p, v
<1>4. /\ r \in CallRow(n) /\ r.step = s /\ r.attempt = a /\ r.in = i /\ r.pc = p /\ r.ws = v /\ r.held = TRUE
      /\ r.mode = Idle.mode /\ r.out = Idle.out /\ r.id = Idle.id /\ r.result = Idle.result
  <2>1. ASSUME NEW q \in CallRow(n)
        PROVE  LET z == [q EXCEPT !.step = s, !.attempt = a, !.in = i, !.held = TRUE, !.pc = p, !.ws = v]
               IN /\ z \in CallRow(n) /\ z.step = s /\ z.attempt = a /\ z.in = i /\ z.pc = p /\ z.ws = v
                  /\ z.held = TRUE
                  /\ z.mode = q.mode /\ z.out = q.out /\ z.id = q.id /\ z.result = q.result
    BY <1>1 DEF CallRow
  <2> QED
    BY <1>3, <2>1
<1> HIDE DEF r
<1>5. /\ Asks(c, t) \in CallRow(n)
      /\ Asks(c, t).step = s /\ Asks(c, t).attempt = a /\ Asks(c, t).in = i
      /\ Asks(c, t).pc = p /\ Asks(c, t).ws = v
      /\ Asks(c, t).mode = "none" /\ Asks(c, t).out = 0 /\ Asks(c, t).id = 0
      /\ Asks(c, t).result = "none" /\ Asks(c, t).held = TRUE
  BY <1>2, <1>3, <1>4
<1> QED
  BY <1>5 DEF s, a, i, p, v

\* A row that is given a workspace.
LEMMA WorkspaceRow ==
    ASSUME NEW n \in Nat, NEW q \in CallRow(n), NEW w \in Workspaces
    PROVE  LET r == [q EXCEPT !.ws = w]
           IN /\ r \in CallRow(n) /\ r.step = q.step /\ r.attempt = q.attempt /\ r.in = q.in /\ r.pc = q.pc
              /\ r.mode = q.mode /\ r.out = q.out /\ r.id = q.id /\ r.result = q.result /\ r.held = q.held
              /\ r.ws = w
  BY DEF CallRow

\* The row the operator begins with: for step s, attempt a and the new id j.
SourceOf(s, a, j, p, m, i, o) ==
    [[Idle EXCEPT !.step = s, !.attempt = a, !.id = j, !.held = TRUE]
        EXCEPT !.pc = p, !.mode = m, !.in = i, !.out = o]

Says(r, s, a, j, p, m, i, o) ==
    /\ r.step = s /\ r.attempt = a /\ r.pc = p /\ r.mode = m /\ r.in = i /\ r.out = o
    /\ r.id = j /\ r.held = TRUE

\* It is a row, and says what the operator is doing.
LEMMA SourceRow ==
    ASSUME NEW n \in Nat, NEW s \in Nat, NEW a \in 0 .. MaxAttempts, NEW j \in {0} \cup Ids,
           NEW p \in Pcs, NEW m \in {"restore", "revert"}, NEW i \in 0 .. n, NEW o \in 0 .. n
    PROVE  /\ SourceOf(s, a, j, p, m, i, o) \in CallRow(n)
           /\ Says(SourceOf(s, a, j, p, m, i, o), s, a, j, p, m, i, o)
<1> DEFINE Also(q) == [q EXCEPT !.pc = p, !.mode = m, !.in = i, !.out = o]
           New(q)  == [q EXCEPT !.step = s, !.attempt = a, !.id = j, !.held = TRUE]
<1>1. ASSUME NEW q \in CallRow(n)
      PROVE  /\ Also(q) \in CallRow(n)
             /\ Also(q).step = q.step /\ Also(q).attempt = q.attempt /\ Also(q).ws = q.ws
             /\ Also(q).pc = p /\ Also(q).mode = m /\ Also(q).in = i /\ Also(q).out = o
             /\ Also(q).id = q.id /\ Also(q).held = q.held
  BY ZenonT(60) DEF CallRow, Pcs
<1>2. ASSUME NEW q \in CallRow(n)
      PROVE  /\ New(q) \in CallRow(n)
             /\ New(q).step = s /\ New(q).attempt = a /\ New(q).id = j /\ New(q).held = TRUE
             /\ New(q).ws = q.ws
  BY DEF CallRow
<1>3. Idle \in CallRow(n) /\ Idle.ws = 0
  BY IdleRow
<1>4. SourceOf(s, a, j, p, m, i, o) = Also(New(Idle))
  BY DEF SourceOf
<1> HIDE DEF Also, New
<1>5. PICK q \in CallRow(n) : /\ q = New(Idle) /\ q.step = s /\ q.attempt = a /\ q.id = j /\ q.held = TRUE
                              /\ q.ws = 0
  BY <1>2, <1>3
<1>6. PICK r \in CallRow(n) : /\ r = Also(q) /\ r.step = q.step /\ r.attempt = q.attempt /\ r.ws = q.ws
                              /\ r.pc = p /\ r.mode = m /\ r.in = i /\ r.out = o
                              /\ r.id = q.id /\ r.held = q.held
  BY <1>1, <1>5
<1>7. r = SourceOf(s, a, j, p, m, i, o)
  BY <1>4, <1>5, <1>6
<1> QED
  BY <1>5, <1>6, <1>7 DEF Says

\* Only the tree w changes, to one that is again a tree; and only the task of s.
OnlyTree(w, n) ==
    /\ trees' \in [Workspaces -> TreeRow(n)]
    /\ \A v \in Workspaces : v # w => trees'[v] = trees[v]

OnlyTask(s, n) ==
    /\ tasks' \in [Steps -> TaskRow(n)]
    /\ \A r \in Steps : r # s => tasks'[r] = tasks[r]

\* A directory is made.
LEMMA TreeReserved ==
    ASSUME NEW n \in Nat, trees \in [Workspaces -> TreeRow(n)], NEW w \in Workspaces,
           trees' = [trees EXCEPT ![w].state = "reserved"]
    PROVE  /\ OnlyTree(w, n)
           /\ trees'[w].state = "reserved" /\ trees'[w].head = trees[w].head
           /\ trees'[w].dirty = trees[w].dirty /\ trees'[w].busy = trees[w].busy
           /\ trees'[w].used = trees[w].used
  BY DEF OnlyTree, TreeRow

\* A worktree is added at a commit.
LEMMA TreePrepared ==
    ASSUME NEW n \in Nat, trees \in [Workspaces -> TreeRow(n)], NEW w \in Workspaces, NEW h \in 0 .. n,
           trees' = [trees EXCEPT ![w] = [@ EXCEPT !.state = "tree", !.head = h]]
    PROVE  /\ OnlyTree(w, n)
           /\ trees'[w].state = "tree" /\ trees'[w].head = h
           /\ trees'[w].dirty = trees[w].dirty /\ trees'[w].busy = trees[w].busy
           /\ trees'[w].used = trees[w].used
  BY DEF OnlyTree, TreeRow

\* An agent starts in a worktree.
LEMMA TreeStarted ==
    ASSUME NEW n \in Nat, trees \in [Workspaces -> TreeRow(n)], NEW w \in Workspaces, NEW x \in Steps \X Attempts,
           trees' = [trees EXCEPT ![w].busy = TRUE, ![w].used = @ \cup {x}]
    PROVE  /\ OnlyTree(w, n)
           /\ trees'[w].state = trees[w].state /\ trees'[w].head = trees[w].head
           /\ trees'[w].dirty = trees[w].dirty /\ trees'[w].busy = TRUE
           /\ trees'[w].used = trees[w].used \cup {x}
  BY ZenonT(60) DEF OnlyTree, TreeRow

\* An agent ends.
LEMMA TreeEnded ==
    ASSUME NEW n \in Nat, trees \in [Workspaces -> TreeRow(n)], NEW w \in Workspaces,
           trees' = [trees EXCEPT ![w].busy = FALSE]
    PROVE  /\ OnlyTree(w, n)
           /\ trees'[w].state = trees[w].state /\ trees'[w].head = trees[w].head
           /\ trees'[w].dirty = trees[w].dirty /\ trees'[w].busy = FALSE
           /\ trees'[w].used = trees[w].used
  BY DEF OnlyTree, TreeRow

\* An agent edits its worktree.
LEMMA TreeEdited ==
    ASSUME NEW n \in Nat, trees \in [Workspaces -> TreeRow(n)], NEW w \in Workspaces,
           trees' = [trees EXCEPT ![w].dirty = TRUE]
    PROVE  /\ OnlyTree(w, n)
           /\ trees'[w].state = trees[w].state /\ trees'[w].head = trees[w].head
           /\ trees'[w].dirty = TRUE /\ trees'[w].busy = trees[w].busy
           /\ trees'[w].used = trees[w].used
  BY DEF OnlyTree, TreeRow

\* What is in a worktree is committed.
LEMMA TreeCommitted ==
    ASSUME NEW n \in Nat, trees \in [Workspaces -> TreeRow(n)], NEW w \in Workspaces, NEW h \in 0 .. n,
           trees' = [trees EXCEPT ![w].dirty = FALSE, ![w].head = h]
    PROVE  /\ OnlyTree(w, n)
           /\ trees'[w].state = trees[w].state /\ trees'[w].head = h
           /\ trees'[w].dirty = FALSE /\ trees'[w].busy = trees[w].busy
           /\ trees'[w].used = trees[w].used
  BY DEF OnlyTree, TreeRow

\* An agent checks out a commit.
LEMMA TreeMoved ==
    ASSUME NEW n \in Nat, trees \in [Workspaces -> TreeRow(n)], NEW w \in Workspaces, NEW h \in 0 .. n,
           trees' = [trees EXCEPT ![w].head = h]
    PROVE  /\ OnlyTree(w, n)
           /\ trees'[w].state = trees[w].state /\ trees'[w].head = h
           /\ trees'[w].dirty = trees[w].dirty /\ trees'[w].busy = trees[w].busy
           /\ trees'[w].used = trees[w].used
  BY DEF OnlyTree, TreeRow

\* A directory is given back.
LEMMA TreeFreed ==
    ASSUME NEW n \in Nat, trees \in [Workspaces -> TreeRow(n)], NEW w \in Workspaces,
           trees' = [trees EXCEPT ![w] = NoTree]
    PROVE  OnlyTree(w, n) /\ trees'[w] = NoTree
<1>1. NoTree \in TreeRow(n)
  BY DEF NoTree, TreeRow
<1> QED
  BY <1>1 DEF OnlyTree

\* A task changes its state.
LEMMA TaskMoved ==
    ASSUME NEW n \in Nat, tasks \in [Steps -> TaskRow(n)], NEW s \in Steps, NEW v \in States,
           tasks' = [tasks EXCEPT ![s].state = v]
    PROVE  /\ OnlyTask(s, n)
           /\ tasks'[s].state = v /\ tasks'[s].attempt = tasks[s].attempt
           /\ tasks'[s].in = tasks[s].in /\ tasks'[s].ws = tasks[s].ws
           /\ tasks'[s].wsAttempt = tasks[s].wsAttempt /\ tasks'[s].success = tasks[s].success
  BY DEF OnlyTask, TaskRow

\* A task records the workspace of an attempt.
LEMMA TaskRecorded ==
    ASSUME NEW n \in Nat, tasks \in [Steps -> TaskRow(n)], NEW s \in Steps, NEW w \in Workspaces, NEW a \in 0 .. MaxAttempts,
           tasks' = [tasks EXCEPT ![s].ws = w, ![s].wsAttempt = a]
    PROVE  /\ OnlyTask(s, n)
           /\ tasks'[s].state = tasks[s].state /\ tasks'[s].attempt = tasks[s].attempt
           /\ tasks'[s].in = tasks[s].in /\ tasks'[s].ws = w
           /\ tasks'[s].wsAttempt = a /\ tasks'[s].success = tasks[s].success
  BY DEF OnlyTask, TaskRow

\* A task is decided.
LEMMA TaskDecided ==
    ASSUME NEW n \in Nat, tasks \in [Steps -> TaskRow(n)], NEW s \in Steps, NEW v \in States, NEW a \in 0 .. MaxAttempts,
           tasks' = [tasks EXCEPT ![s].state = v, ![s].success = a]
    PROVE  /\ OnlyTask(s, n)
           /\ tasks'[s].state = v /\ tasks'[s].attempt = tasks[s].attempt
           /\ tasks'[s].in = tasks[s].in /\ tasks'[s].ws = tasks[s].ws
           /\ tasks'[s].wsAttempt = tasks[s].wsAttempt /\ tasks'[s].success = a
  BY DEF OnlyTask, TaskRow

\* The row of one task is replaced.
LEMMA TaskSet ==
    ASSUME NEW n \in Nat, tasks \in [Steps -> TaskRow(n)], NEW s \in Steps, NEW t \in TaskRow(n),
           tasks' = [tasks EXCEPT ![s] = t]
    PROVE  OnlyTask(s, n) /\ tasks'[s] = t
  BY DEF OnlyTask

\* A task gets another attempt and forgets its workspace.
LEMMA TaskRetried ==
    ASSUME NEW n \in Nat, tasks \in [Steps -> TaskRow(n)], NEW s \in Steps, tasks[s].attempt + 1 \in 0 .. MaxAttempts,
           tasks' = [tasks EXCEPT ![s].state = "READY", ![s].attempt = @ + 1, ![s].ws = 0, ![s].wsAttempt = 0]
    PROVE  /\ OnlyTask(s, n)
           /\ tasks'[s].state = "READY" /\ tasks'[s].attempt = tasks[s].attempt + 1
           /\ tasks'[s].in = tasks[s].in /\ tasks'[s].ws = 0
           /\ tasks'[s].wsAttempt = 0 /\ tasks'[s].success = tasks[s].success
<1> DEFINE With(q) == [q EXCEPT !.state = "READY", !.attempt = q.attempt + 1, !.ws = 0, !.wsAttempt = 0]
<1>1. ASSUME NEW q \in TaskRow(n), q.attempt + 1 \in 0 .. MaxAttempts
      PROVE  /\ With(q) \in TaskRow(n)
             /\ With(q).state = "READY" /\ With(q).attempt = q.attempt + 1 /\ With(q).in = q.in
             /\ With(q).ws = 0 /\ With(q).wsAttempt = 0 /\ With(q).success = q.success
  <2>1. 0 \in 0 .. MaxAttempts
    BY SnapshotsAssumption
  <2> QED
    BY <1>1, <2>1 DEF TaskRow, States
<1>2. tasks' = [tasks EXCEPT ![s] = With(tasks[s])]
  OBVIOUS
<1> HIDE DEF With
<1>3. tasks[s] \in TaskRow(n) /\ tasks[s].attempt + 1 \in 0 .. MaxAttempts
  OBVIOUS
<1>4. With(tasks[s]) \in TaskRow(n)
  BY <1>1, <1>3
<1>5. OnlyTask(s, n) /\ tasks'[s] = With(tasks[s])
  BY <1>2, <1>4, TaskSet
<1> QED
  BY <1>1, <1>3, <1>5

\* A task gets another attempt.
LEMMA TaskReworked ==
    ASSUME NEW n \in Nat, tasks \in [Steps -> TaskRow(n)], NEW s \in Steps, tasks[s].attempt + 1 \in 0 .. MaxAttempts,
           tasks' = [tasks EXCEPT ![s].state = "READY", ![s].attempt = @ + 1]
    PROVE  /\ OnlyTask(s, n)
           /\ tasks'[s].state = "READY" /\ tasks'[s].attempt = tasks[s].attempt + 1
           /\ tasks'[s].in = tasks[s].in /\ tasks'[s].ws = tasks[s].ws
           /\ tasks'[s].wsAttempt = tasks[s].wsAttempt /\ tasks'[s].success = tasks[s].success
<1> DEFINE With(q) == [q EXCEPT !.state = "READY", !.attempt = q.attempt + 1]
<1>1. ASSUME NEW q \in TaskRow(n), q.attempt + 1 \in 0 .. MaxAttempts
      PROVE  /\ With(q) \in TaskRow(n)
             /\ With(q).state = "READY" /\ With(q).attempt = q.attempt + 1 /\ With(q).in = q.in
             /\ With(q).ws = q.ws /\ With(q).wsAttempt = q.wsAttempt /\ With(q).success = q.success
  <2>1. 0 \in 0 .. MaxAttempts
    BY SnapshotsAssumption
  <2> QED
    BY <1>1, <2>1 DEF TaskRow, States
<1>2. tasks' = [tasks EXCEPT ![s] = With(tasks[s])]
  OBVIOUS
<1> HIDE DEF With
<1>3. tasks[s] \in TaskRow(n) /\ tasks[s].attempt + 1 \in 0 .. MaxAttempts
  OBVIOUS
<1>4. With(tasks[s]) \in TaskRow(n)
  BY <1>1, <1>3
<1>5. OnlyTask(s, n) /\ tasks'[s] = With(tasks[s])
  BY <1>2, <1>4, TaskSet
<1> QED
  BY <1>1, <1>3, <1>5


-----------------------------------------------------------------------------
(* Rows stay what they are. *)

\* The number of commits, of steps and of attempts are numbers.
LEMMA Numbers ==
    /\ Len(Agents) \in Nat /\ SnapshotBound \in Nat /\ MaxAttempts \in Nat
    /\ Steps \subseteq Nat /\ Attempts \subseteq 0 .. MaxAttempts /\ 1 \in Attempts
    /\ Calls \subseteq Callers /\ Operator \in Callers /\ Operator \notin Calls
    /\ \A w \in Workspaces : w \in Nat /\ w # 0
    /\ commits \in Seq(CommitRow) => Len(commits) \in Nat
<1>1. Len(Agents) \in Nat /\ SnapshotBound \in Nat /\ MaxAttempts \in Nat
  BY SnapshotsAssumption, LenProperties
<1> QED
  BY <1>1, SnapshotsAssumption, LenProperties DEF Steps, Attempts, Callers

\* More commits make no row wrong.
LEMMA Grown ==
    ASSUME NEW n \in Nat, NEW m \in Nat, n <= m, Upto(n)
    PROVE  Upto(m)
<1>1. TreeRow(n) \subseteq TreeRow(m)
  BY DEF TreeRow
<1>2. SnapRow(n) \subseteq SnapRow(m)
  BY DEF SnapRow
<1>3. TaskRow(n) \subseteq TaskRow(m)
  BY DEF TaskRow
<1>4. CallRow(n) \subseteq CallRow(m)
  BY DEF CallRow
<1>5. rows \in Seq(SnapRow(m))
  BY <1>2 DEF Upto
<1>6. restores \subseteq [id : Ids, commit : 1 .. m] /\ refs \subseteq Ids \X (1 .. m)
  BY DEF Upto
<1>7. trees \in [Workspaces -> TreeRow(m)]
  BY <1>1 DEF Upto
<1>8. tasks \in [Steps -> TaskRow(m)] /\ call \in [Callers -> CallRow(m)]
  BY <1>3, <1>4 DEF Upto
<1> QED
  BY <1>5, <1>6, <1>7, <1>8 DEF Upto

\* A commit on top of others is the next commit.
LEMMA Committed ==
    ASSUME Rows, NEW p \in SUBSET (1 .. Len(commits)), Commit(p)
    PROVE  /\ commits' \in Seq(CommitRow) /\ Len(commits') = Len(commits) + 1
           /\ NewCommit = Len(commits) + 1 /\ NewCommit \in 1 .. Len(commits')
           /\ \A n \in 1 .. Len(commits) : commits'[n] = commits[n]
           /\ commits'[NewCommit] = p
           /\ \A n \in 1 .. Len(commits') : commits'[n] \subseteq 1 .. Len(commits')
           /\ Upto(Len(commits'))
<1>2. Len(commits) \in Nat
  BY Numbers DEF Rows
<1>1. p \in CommitRow
  BY <1>2 DEF CommitRow
<1>3. /\ commits' \in Seq(CommitRow) /\ Len(commits') = Len(commits) + 1
      /\ \A n \in 1 .. Len(commits) : commits'[n] = commits[n]
      /\ commits'[Len(commits) + 1] = p
  BY <1>1, AppendProperties DEF Commit, Rows
<1>4. ASSUME NEW n \in 1 .. Len(commits')
      PROVE  commits'[n] \subseteq 1 .. Len(commits')
  <2>1. CASE n = Len(commits) + 1
    <3>1. 1 .. Len(commits) \subseteq 1 .. Len(commits')
      BY <1>2, <1>3
    <3>2. commits'[n] = p
      BY <1>3, <2>1
    <3> QED
      BY <3>1, <3>2
  <2>2. CASE n \in 1 .. Len(commits)
    <3>1. commits[n] \subseteq 1 .. Len(commits) /\ commits'[n] = commits[n]
      BY <1>3, <2>2 DEF Rows
    <3> QED
      BY <1>2, <1>3, <3>1
  <2> QED
    BY <1>2, <1>3, <2>1, <2>2
<1>5. Upto(Len(commits'))
  BY <1>2, <1>3, Grown DEF Rows
<1> QED
  BY <1>2, <1>3, <1>4, <1>5 DEF NewCommit

\* A fault is counted.
LEMMA Faulted ==
    ASSUME faults \in FaultRow, NEW k \in {"crash", "lease", "effect", "undo", "orphan"}, Fault(k)
    PROVE  /\ faults' \in FaultRow
           /\ faults'.crash = faults.crash + (IF k = "crash" THEN 1 ELSE 0)
           /\ faults'.effect = faults.effect + (IF k = "effect" THEN 1 ELSE 0)
           /\ faults'.undo = faults.undo + (IF k = "undo" THEN 1 ELSE 0)
           /\ faults'.orphan = faults.orphan + (IF k = "orphan" THEN 1 ELSE 0)
<1>1. CASE k = "crash"
  BY <1>1 DEF Fault, FaultRow
<1>2. CASE k = "lease"
  BY <1>2 DEF Fault, FaultRow
<1>3. CASE k = "effect"
  BY <1>3 DEF Fault, FaultRow
<1>4. CASE k = "undo"
  BY <1>4 DEF Fault, FaultRow
<1>5. CASE k = "orphan"
  BY <1>5 DEF Fault, FaultRow
<1> QED
  BY <1>1, <1>2, <1>3, <1>4, <1>5

\* A step that changes the row of one caller, to one that such a caller may have.
LEMMA CallsStay ==
    ASSUME \A d \in Callers : CallAt(d), NEW c \in Callers, NEW n \in Nat, OnlyCall(c, n), CallAt(c)'
    PROVE  \A d \in Callers : CallAt(d)'
  BY DEF OnlyCall, CallAt

\* The same for the task of one step.
LEMMA TasksStay ==
    ASSUME \A r \in Steps : TaskAt(r), NEW s \in Steps, NEW n \in Nat, OnlyTask(s, n), TaskAt(s)'
    PROVE  \A r \in Steps : TaskAt(r)'
  BY DEF OnlyTask, TaskAt

\* A step of one caller that leaves the disk, the database and the ids alone.
LEMMA OnlyCallMoves ==
    ASSUME Rows, NEW c \in Callers, OnlyCall(c, Len(commits)), CallAt(c)',
           UNCHANGED <<disk, db>>, ids' \in 0 .. SnapshotBound, asked' \in Nat, faults' \in FaultRow
    PROVE  Rows'
<1>1. \A d \in Callers : CallAt(d)'
  BY CallsStay, Numbers DEF Rows
<1>2. \A s \in Steps : TaskAt(s)'
  BY DEF Rows, TaskAt, db
<1> QED
  BY <1>1, <1>2 DEF Rows, Upto, OnlyCall, disk, db

\* A step of a call that also touches a tree or a task.
LEMMA CallMoves ==
    ASSUME Rows, NEW c \in Callers, OnlyCall(c, Len(commits)), CallAt(c)',
           trees' \in [Workspaces -> TreeRow(Len(commits))],
           tasks' \in [Steps -> TaskRow(Len(commits))], \A s \in Steps : TaskAt(s)',
           UNCHANGED <<commits, refs, restores, rows, run, asked>>,
           ids' \in 0 .. SnapshotBound, faults' \in FaultRow
    PROVE  Rows'
<1>1. \A d \in Callers : CallAt(d)'
  BY CallsStay, Numbers DEF Rows
<1> QED
  BY <1>1 DEF Rows, Upto, OnlyCall

\* A step that leaves the tasks alone.
LEMMA TasksAlone ==
    ASSUME Rows, UNCHANGED tasks
    PROVE  tasks' \in [Steps -> TaskRow(Len(commits))] /\ \A s \in Steps : TaskAt(s)'
  BY DEF Rows, Upto, TaskAt

\* A step that leaves the callers alone.
LEMMA CallsAlone ==
    ASSUME Rows, UNCHANGED call
    PROVE  call' \in [Callers -> CallRow(Len(commits))] /\ \A c \in Callers : CallAt(c)'
  BY DEF Rows, Upto, CallAt

\* A caller that is done.
LEMMA DoneAt ==
    ASSUME Rows, NEW c \in Callers, Done(c)
    PROVE  OnlyCall(c, Len(commits)) /\ CallAt(c)' /\ call'[c] = Idle
<1>1. Len(commits) \in Nat /\ call \in [Callers -> CallRow(Len(commits))]
  BY Numbers DEF Rows, Upto
<1>2. OnlyCall(c, Len(commits)) /\ call'[c] = Idle
  BY <1>1, WasDone
<1> QED
  BY <1>1, <1>2, IdleRow DEF CallAt

\* What may be used of a caller and of what is its own.
LEMMA CallTypes ==
    ASSUME Rows, NEW c \in Callers
    PROVE  /\ Len(commits) \in Nat /\ call \in [Callers -> CallRow(Len(commits))]
           /\ call[c] \in CallRow(Len(commits)) /\ CallAt(c)
           /\ call[c].attempt \in 0 .. MaxAttempts /\ call[c].in \in 0 .. Len(commits)
           /\ call[c].out \in 0 .. Len(commits) /\ call[c].pc \in Pcs
           /\ trees \in [Workspaces -> TreeRow(Len(commits))] /\ tasks \in [Steps -> TaskRow(Len(commits))]
           /\ ~At(c, "idle") => call[c].step \in Steps /\ call[c].attempt \in Attempts
           /\ ~At(c, "idle") /\ c # Operator => call[c].ws \in Workspaces
<1>1. Len(commits) \in Nat /\ call[c] \in CallRow(Len(commits)) /\ CallAt(c)
  BY Numbers DEF Rows, Upto
<1> QED
  BY <1>1 DEF Rows, Upto, CallAt, At, CallRow, Pcs, CallOfTask

\* The rescue of a call.
LEMMA RescueAt ==
    ASSUME Rows, NEW c \in Calls, ~At(c, "idle"), ~Starting(c), Rescue(c)
    PROVE  OnlyCall(c, Len(commits)) /\ CallAt(c)'
<1>1. c \in Callers /\ c # Operator
  BY Numbers
<1>2. /\ OnlyCall(c, Len(commits)) /\ SamePlace(c)
      /\ call'[c].pc = "capture" /\ call'[c].mode = "rescue" /\ call'[c].result = "FAILED"
      /\ call'[c].held = call[c].held
  BY <1>1, CallTypes, WasRescued
<1>3. call[c].step \in Steps /\ call[c].attempt \in Attempts /\ call[c].ws \in Workspaces
  BY <1>1, CallTypes
<1> QED
  BY <1>1, <1>2, <1>3 DEF CallAt, CallOfTask, SamePlace, Starts, Persists

\* Whatever a caller does about an error.
LEMMA FailedAt ==
    ASSUME Rows, NEW c \in Callers, Persisting(c) \/ (c # Operator /\ At(c, "capture")), Failed(c)
    PROVE  OnlyCall(c, Len(commits)) /\ CallAt(c)'
<1>0. ~At(c, "idle") /\ ~Starting(c) /\ CallAt(c) /\ Len(commits) \in Nat /\ call \in [Callers -> CallRow(Len(commits))]
  BY CallTypes DEF At, Starting, Persisting, Persists
<1>1. CASE c = Operator
  <2>1. call[c].mode = "restore" \/ call[c].mode = "revert"
    BY <1>0, <1>1 DEF CallAt, CallOfOperator, At
  <2>2. CASE call[c].mode = "restore"
    <3>1. Goto(c, "cleanup")
      BY <2>2 DEF Failed
    <3>2. /\ OnlyCall(c, Len(commits)) /\ SamePlace(c) /\ call'[c].pc = "cleanup" /\ call'[c].mode = "restore"
          /\ call'[c].held = call[c].held
      BY <1>0, <2>2, <3>1, Went DEF Pcs
    <3> QED
      BY <1>0, <1>1, <3>2 DEF CallAt, CallOfOperator, SamePlace, At, Persists
  <2>3. CASE call[c].mode = "revert"
    <3>1. Done(c)
      BY <2>3 DEF Failed
    <3> QED
      BY <3>1, DoneAt
  <2> QED
    BY <2>1, <2>2, <2>3
<1>2. CASE c \in Calls
  <2>1. call[c].mode \in {"accept", "recover", "rescue"} /\ c # Operator
    BY <1>0, <1>2, Numbers DEF CallAt, CallOfTask, At, Persisting, Persists
  <2>2. CASE call[c].mode \in {"accept", "recover"}
    <3>1. Rescue(c)
      BY <2>2 DEF Failed
    <3> QED
      BY <1>0, <1>2, <3>1, RescueAt
  <2>3. CASE call[c].mode = "rescue"
    <3>1. Goto(c, "fail")
      BY <2>3 DEF Failed
    <3>2. /\ OnlyCall(c, Len(commits)) /\ SamePlace(c) /\ call'[c].pc = "fail" /\ call'[c].mode = "rescue"
          /\ call'[c].held = call[c].held
      BY <1>0, <2>3, <3>1, Went DEF Pcs
    <3> QED
      BY <1>0, <2>1, <3>2 DEF CallAt, CallOfTask, SamePlace, At, Starts, Persists
  <2> QED
    BY <2>1, <2>2, <2>3
<1> QED
  BY <1>1, <1>2 DEF Callers

\* The start of an attempt.
LEMMA RowsStarting ==
    ASSUME Rows, Owned, NEW c \in Calls,
           TaskForStep(c) \/ Prepare(c) \/ PreparationFails(c) \/ RecordWorkspace(c) \/ Dispatch(c)
    PROVE  Rows'
<1> DEFINE N == Len(commits)
<1>0. /\ c \in Callers /\ c # Operator /\ N \in Nat /\ call \in [Callers -> CallRow(N)] /\ CallAt(c)
      /\ call[c].in \in 0 .. N /\ call[c].attempt \in 0 .. MaxAttempts
      /\ trees \in [Workspaces -> TreeRow(N)] /\ tasks \in [Steps -> TaskRow(N)]
      /\ ~At(c, "idle") => call[c].step \in Steps /\ call[c].attempt \in Attempts /\ call[c].ws \in Workspaces
      /\ ids \in 0 .. SnapshotBound /\ faults \in FaultRow /\ asked \in Nat
  BY CallTypes, Numbers DEF Rows
<1> HIDE DEF N
<1>1. CASE TaskForStep(c)
  <2> DEFINE t == tasks[run.step]
             free == {v \in Workspaces : trees[v].state = "free"}
             w == Min(free)
  <2>1. /\ run.step \in Steps /\ t.state = "READY" /\ (Stored(t) \/ free # {})
        /\ IF Stored(t) THEN call' = [call EXCEPT ![c] = Asks(c, t)] /\ UNCHANGED trees
           ELSE /\ call' = [call EXCEPT ![c] = [Asks(c, t) EXCEPT !.ws = w]]
                /\ trees' = [trees EXCEPT ![w].state = "reserved"]
        /\ UNCHANGED <<commits, refs, restores, db, ids, asked, faults, past>>
    BY <1>1 DEF TaskForStep
  <2>2. t \in TaskRow(N) /\ t.attempt \in Attempts /\ t.in # 0 /\ run.step \in Nat
    BY <1>0, <2>1, Numbers DEF Rows, TaskAt
  <2>3. Stored(t) \/ (free # {} /\ w \in Workspaces)
    BY <2>1, MinOfNat, Numbers
  <2> HIDE DEF t, w, free
  <2>4. /\ Asks(c, t) \in CallRow(N) /\ Asks(c, t).step = run.step /\ Asks(c, t).attempt = t.attempt
        /\ Asks(c, t).in = t.in /\ Asks(c, t).pc \in Starts /\ Asks(c, t).held = TRUE
        /\ Asks(c, t).mode = "none" /\ (Stored(t) => Asks(c, t).ws = t.ws)
    <3>1. N \in Nat /\ t \in TaskRow(N) /\ c \in Calls /\ run.step \in Nat
      BY <1>0, <2>2
    <3>2. Asks(c, t).pc = (IF Stored(t) THEN "dispatch" ELSE "prepare")
      BY <3>1, AskRow
    <3>3. Asks(c, t).ws = (IF Stored(t) THEN t.ws ELSE 0)
      BY <3>1, AskRow
    <3>4. /\ Asks(c, t) \in CallRow(N)
          /\ Asks(c, t).step = run.step /\ Asks(c, t).attempt = t.attempt /\ Asks(c, t).in = t.in
          /\ Asks(c, t).mode = "none" /\ Asks(c, t).held = TRUE
      BY <3>1, AskRow, ZenonT(60)
    <3> QED
      BY <3>2, <3>3, <3>4 DEF Starts
  <2>5. PICK r \in CallRow(N) : /\ call' = [call EXCEPT ![c] = r] /\ r.step = run.step /\ r.attempt = t.attempt
                                /\ r.in = t.in /\ r.pc \in Starts /\ r.held = TRUE /\ r.mode = "none"
                                /\ r.ws \in Workspaces
    <3>1. CASE Stored(t)
      <4>1. Asks(c, t).ws \in Workspaces
        BY <2>2, <2>4, <3>1 DEF Stored, TaskRow
      <4> QED
        BY <2>1, <2>4, <3>1, <4>1
    <3>2. CASE ~Stored(t)
      <4> DEFINE r == [Asks(c, t) EXCEPT !.ws = w]
      <4>1. /\ r \in CallRow(N) /\ r.step = run.step /\ r.attempt = t.attempt /\ r.in = t.in
            /\ r.pc \in Starts /\ r.held = TRUE /\ r.mode = "none" /\ r.ws \in Workspaces
        BY <1>0, <2>3, <2>4, <3>2, WorkspaceRow
      <4>2. call' = [call EXCEPT ![c] = r]
        BY <2>1, <3>2
      <4> HIDE DEF r
      <4> QED
        BY <4>1, <4>2
    <3> QED
      BY <3>1, <3>2
  <2>6. OnlyCall(c, N) /\ call'[c] = r
    BY <1>0, <2>5 DEF OnlyCall
  <2>7. CallAt(c)'
    BY <1>0, <2>1, <2>2, <2>5, <2>6 DEF CallAt, CallOfTask, Starts, Persists
  <2>8. trees' \in [Workspaces -> TreeRow(N)]
    <3>1. CASE Stored(t)
      BY <1>0, <2>1, <3>1
    <3>2. CASE ~Stored(t)
      BY <1>0, <2>1, <2>3, <3>2, TreeReserved DEF OnlyTree
    <3> QED
      BY <3>1, <3>2
  <2>9. tasks' \in [Steps -> TaskRow(N)] /\ (\A s \in Steps : TaskAt(s)') /\ UNCHANGED <<rows, run>>
    BY <2>1, TasksAlone DEF N, db
  <2> QED
    BY <1>0, <2>1, <2>6, <2>7, <2>8, <2>9, CallMoves DEF N
<1>2. CASE Prepare(c)
  <2>1. /\ OnlyCall(c, N) /\ SamePlace(c) /\ call'[c].pc = "record" /\ call'[c].mode = call[c].mode
        /\ call'[c].held = call[c].held /\ call'[c].result = call[c].result /\ At(c, "prepare")
    BY <1>0, <1>2, Went DEF Prepare, Pcs
  <2>2. CallAt(c)'
    BY <1>0, <2>1 DEF CallAt, CallOfTask, Starts, Persists, SamePlace, At
  <2>3. trees' \in [Workspaces -> TreeRow(N)]
    BY <1>0, <1>2, TreePrepared DEF Prepare, OnlyTree, At
  <2>4. tasks' \in [Steps -> TaskRow(N)] /\ (\A s \in Steps : TaskAt(s)')
    BY <1>2, TasksAlone DEF Prepare, N, db
  <2> QED
    BY <1>0, <1>2, <2>1, <2>2, <2>3, <2>4, CallMoves DEF Prepare, N, db
<1>3. CASE PreparationFails(c)
  <2>1. OnlyCall(c, N) /\ CallAt(c)'
    BY <1>0, <1>3, DoneAt DEF PreparationFails, N
  <2>2. trees' \in [Workspaces -> TreeRow(N)]
    BY <1>0, <1>3, TreeFreed DEF PreparationFails, OnlyTree, At
  <2>3. tasks' \in [Steps -> TaskRow(N)] /\ (\A s \in Steps : TaskAt(s)')
    BY <1>3, TasksAlone DEF PreparationFails, N, db
  <2>4. faults' \in FaultRow
    BY <1>0, <1>3, Faulted DEF PreparationFails
  <2> QED
    BY <1>0, <1>3, <2>1, <2>2, <2>3, <2>4, CallMoves DEF PreparationFails, N, db
<1>4. CASE RecordWorkspace(c)
  <2>1. /\ OnlyCall(c, N) /\ SamePlace(c) /\ call'[c].pc = "dispatch" /\ call'[c].mode = call[c].mode
        /\ call'[c].held = call[c].held /\ call'[c].result = call[c].result /\ At(c, "record")
    BY <1>0, <1>4, Went DEF RecordWorkspace, Pcs
  <2>2. CallAt(c)'
    BY <1>0, <2>1 DEF CallAt, CallOfTask, Starts, Persists, SamePlace, At
  <2>3. PICK s \in Steps : s = call[c].step
    BY <1>0, <2>1 DEF At
  <2>4. /\ OnlyTask(s, N) /\ tasks'[s].state = tasks[s].state /\ tasks'[s].attempt = tasks[s].attempt
        /\ tasks'[s].in = tasks[s].in /\ tasks'[s].ws = call[c].ws
    <3>1. /\ call[c].ws \in Workspaces /\ call[c].attempt \in 0 .. MaxAttempts
          /\ tasks' = [tasks EXCEPT ![s].ws = call[c].ws, ![s].wsAttempt = call[c].attempt]
      BY <1>0, <1>4, <2>1, <2>3 DEF RecordWorkspace, At
    <3> QED
      BY <1>0, <3>1, TaskRecorded
  <2>5. tasks[s].state = "READY"
    BY <1>0, <2>1, <2>3 DEF Owned, TaskOfCall, At, Starts
  <2>6. \A r \in Steps : TaskAt(r)'
    <3>1. TaskAt(s)'
      BY <2>3, <2>4, <2>5 DEF Rows, TaskAt
    <3> QED
      BY <1>0, <2>3, <2>4, <3>1, TasksStay DEF Rows
  <2> QED
    BY <1>0, <1>4, <2>1, <2>2, <2>4, <2>6, CallMoves DEF RecordWorkspace, OnlyTask, N, disk
<1>5. CASE Dispatch(c)
  <2>0. PICK s \in Steps, w \in Workspaces : s = call[c].step /\ w = call[c].ws
    BY <1>0, <1>5 DEF Dispatch, At
  <2>1. /\ At(c, "dispatch") /\ ~At(c, "idle")
        /\ UNCHANGED <<commits, refs, restores, rows, run, ids, asked, faults>>
    BY <1>5 DEF Dispatch, At
  <2>2. CASE tasks[s].state = "READY" /\ tasks[s].attempt = call[c].attempt
    <3>1. /\ tasks' = [tasks EXCEPT ![s].state = "RUNNING"]
          /\ trees' = [trees EXCEPT ![w].busy = TRUE, ![w].used = @ \cup {Attempt(c)}]
          /\ Goto(c, "run")
      BY <1>5, <2>0, <2>2 DEF Dispatch
    <3>2. /\ OnlyCall(c, N) /\ SamePlace(c) /\ call'[c].pc = "run" /\ call'[c].mode = call[c].mode
          /\ call'[c].held = call[c].held /\ call'[c].result = call[c].result
      BY <1>0, <3>1, Went DEF Pcs
    <3>3. CallAt(c)'
      BY <1>0, <2>1, <3>2 DEF CallAt, CallOfTask, Starts, Persists, SamePlace, At
    <3>4. Attempt(c) \in Steps \X Attempts
      BY <1>0, <2>1 DEF Attempt, At
    <3>5. trees' \in [Workspaces -> TreeRow(N)]
      BY <1>0, <2>1, <3>1, <3>4, TreeStarted DEF OnlyTree
    <3>6. /\ OnlyTask(s, N) /\ tasks'[s].state = "RUNNING" /\ tasks'[s].attempt = tasks[s].attempt
          /\ tasks'[s].in = tasks[s].in
      BY <1>0, <2>1, <3>1, TaskMoved DEF States
    <3>7. TaskAt(s)'
      BY <2>1, <2>2, <3>6 DEF Rows, TaskAt
    <3>8. \A r \in Steps : TaskAt(r)'
      BY <1>0, <2>1, <3>6, <3>7, TasksStay DEF Rows
    <3> QED
      BY <1>0, <2>1, <3>2, <3>3, <3>5, <3>6, <3>8, CallMoves DEF OnlyTask, N
  <2>3. CASE ~(tasks[s].state = "READY" /\ tasks[s].attempt = call[c].attempt)
    <3>1. Done(c) /\ UNCHANGED <<tasks, trees>>
      BY <1>5, <2>0, <2>3 DEF Dispatch
    <3>2. OnlyCall(c, N) /\ CallAt(c)'
      BY <1>0, <3>1, DoneAt DEF N
    <3>3. tasks' \in [Steps -> TaskRow(N)] /\ \A r \in Steps : TaskAt(r)'
      BY <3>1, TasksAlone DEF N
    <3> QED
      BY <1>0, <2>1, <3>1, <3>2, <3>3, CallMoves DEF N
  <2> QED
    BY <2>2, <2>3
<1> QED
  BY <1>1, <1>2, <1>3, <1>4, <1>5

\* The turn of the agent and its end.
LEMMA RowsTurning ==
    ASSUME Rows, NEW c \in Calls, Completes(c) \/ Reports(c) \/ AgentFails(c)
    PROVE  Rows'
<1> DEFINE N == Len(commits)
<1>0. /\ c \in Callers /\ c # Operator /\ N \in Nat /\ call \in [Callers -> CallRow(N)] /\ CallAt(c)
      /\ trees \in [Workspaces -> TreeRow(N)]
      /\ call[c].step \in Steps /\ call[c].attempt \in Attempts /\ call[c].ws \in Workspaces
      /\ ids \in 0 .. SnapshotBound /\ faults \in FaultRow /\ asked \in Nat
      /\ ~At(c, "idle") /\ ~Starting(c) /\ CallOfTask(call[c]) /\ At(c, "run")
  <2>1. At(c, "run")
    BY DEF Completes, Reports, AgentFails
  <2>2. ~At(c, "idle") /\ ~Starting(c) /\ c \in Callers /\ c # Operator
    BY <2>1, Numbers DEF At, Starting
  <2> QED
    BY <2>1, <2>2, CallTypes DEF Rows, CallAt, At
<1>1. trees' \in [Workspaces -> TreeRow(N)]
  BY <1>0, TreeEnded DEF Completes, Reports, AgentFails, AgentEnds, OnlyTree
<1>2. UNCHANGED <<commits, refs, restores, rows, run, tasks, ids, asked, faults>>
  BY DEF Completes, Reports, AgentFails, db
<1>3. tasks' \in [Steps -> TaskRow(N)] /\ (\A s \in Steps : TaskAt(s)')
  BY <1>2, TasksAlone DEF N
<1>4. OnlyCall(c, N) /\ CallAt(c)'
  <2>1. CASE Completes(c)
    <3>1. PICK out \in 1 .. N : call' = [call EXCEPT ![c].pc = "verify", ![c].mode = "accept", ![c].out = out]
      BY <2>1 DEF Completes
    <3>2. out \in 0 .. N
      BY <1>0, <3>1
    <3>3. /\ OnlyCall(c, N) /\ SamePlace(c) /\ call'[c].pc = "verify" /\ call'[c].mode = "accept"
          /\ call'[c].out = out
      BY <1>0, <3>1, <3>2, WasCompleted, ZenonT(60)
    <3>4. out # 0
      BY <1>0, <3>1
    <3> QED
      BY <1>0, <3>3, <3>4 DEF CallAt, CallOfTask, SamePlace, Starts, Persists
  <2>2. CASE Reports(c)
    <3>1. PICK s \in {"FAILED", "SUCCEEDED"} :
             call' = [call EXCEPT ![c].pc = "capture", ![c].mode = "recover", ![c].result = s]
      BY <2>2 DEF Reports
    <3>2. /\ OnlyCall(c, N) /\ SamePlace(c) /\ call'[c].pc = "capture" /\ call'[c].mode = "recover"
          /\ call'[c].result = s
      BY <1>0, <3>1, WasReported
    <3> QED
      BY <1>0, <3>1, <3>2 DEF CallAt, CallOfTask, SamePlace, Starts, Persists
  <2>3. CASE AgentFails(c)
    BY <1>0, <2>3, RescueAt DEF AgentFails, N
  <2> QED
    BY <2>1, <2>2, <2>3
<1> QED
  BY <1>0, <1>1, <1>2, <1>3, <1>4, CallMoves DEF N

\* What a call checks and captures before it persists.
LEMMA RowsCapturing ==
    ASSUME Rows, Owned, NEW c \in Calls, Verify(c) \/ CaptureRecovery(c) \/ CaptureFails(c)
    PROVE  Rows'
<1> DEFINE N == Len(commits)
<1>0. /\ c \in Callers /\ c # Operator /\ N \in Nat /\ call \in [Callers -> CallRow(N)] /\ CallAt(c)
      /\ trees \in [Workspaces -> TreeRow(N)] /\ call[c].out \in 0 .. N
      /\ call[c].step \in Steps /\ call[c].attempt \in Attempts /\ call[c].ws \in Workspaces
      /\ ids \in 0 .. SnapshotBound /\ faults \in FaultRow /\ asked \in Nat /\ SnapshotBound \in Nat
      /\ ~At(c, "idle") /\ ~Starting(c) /\ CallOfTask(call[c])
  <2>1. ~At(c, "idle") /\ ~Starting(c) /\ c \in Callers /\ c # Operator
    BY Numbers DEF At, Starting, Verify, CaptureRecovery, CaptureFails
  <2> QED
    BY <2>1, CallTypes, Numbers DEF Rows, CallAt, At
<1>5. UNCHANGED tasks => tasks' \in [Steps -> TaskRow(N)] /\ (\A s \in Steps : TaskAt(s)')
  BY TasksAlone DEF N
<1>6. ids < SnapshotBound => ids + 1 \in Ids
  BY <1>0 DEF Ids
<1>1. CASE Verify(c)
  <2>0. UNCHANGED <<disk, db, asked, faults>> /\ At(c, "verify")
    BY <1>1 DEF Verify
  <2>1. CASE Verified(c) /\ Authorized(c)
    <3>1. ids < SnapshotBound /\ ids' = ids + 1 /\ NewSnapshot(c, call[c].out)
      BY <1>1, <2>1 DEF Verify
    <3>2. /\ OnlyCall(c, N) /\ SamePlace(c) /\ call'[c].pc = "pin" /\ call'[c].mode = call[c].mode
          /\ call'[c].out = call[c].out /\ call'[c].id = ids + 1 /\ call'[c].result = call[c].result
      BY <1>0, <1>6, <3>1, SnapshotBegan
    <3>3. CallAt(c)'
      BY <1>0, <1>6, <2>0, <3>1, <3>2 DEF CallAt, CallOfTask, SamePlace, Starts, Persists, At
    <3>4. ids' \in 0 .. SnapshotBound
      BY <1>0, <3>1
    <3> QED
      BY <1>0, <2>0, <3>2, <3>3, <3>4, OnlyCallMoves DEF N
  <2>2. CASE ~(Verified(c) /\ Authorized(c))
    <3>1. Rescue(c) /\ UNCHANGED ids
      BY <1>1, <2>2 DEF Verify
    <3> QED
      BY <1>0, <2>0, <3>1, RescueAt, OnlyCallMoves DEF N
  <2> QED
    BY <2>1, <2>2
<1>2. CASE CaptureRecovery(c)
  <2>0. /\ ids < SnapshotBound /\ ids' = ids + 1 /\ At(c, "capture")
        /\ UNCHANGED <<refs, restores, rows, run, tasks, asked, faults>>
    BY <1>2 DEF CaptureRecovery, db
  <2>1. ids' \in 0 .. SnapshotBound /\ ids + 1 \in Ids
    BY <1>0, <1>6, <2>0
  <2>2. Tree(c) \in TreeRow(N) /\ Tree(c).head \in 0 .. N
    BY <1>0 DEF Tree, TreeRow
  <2>5. Tree(c).head # 0
    BY <1>0, <2>0 DEF Owned, TreeOfCall, TreeAt, Tree, At
  <2>a. ASSUME NEW n \in Nat, NEW out \in 1 .. n, call \in [Callers -> CallRow(n)], NewSnapshot(c, out)
        PROVE  OnlyCall(c, n) /\ CallAt(c)'
    <3>1. out \in 0 .. n /\ out # 0
      BY <2>a
    <3>2. /\ OnlyCall(c, n) /\ SamePlace(c) /\ call'[c].pc = "pin" /\ call'[c].mode = call[c].mode
          /\ call'[c].out = out /\ call'[c].id = ids + 1 /\ call'[c].result = call[c].result
      BY <1>0, <2>1, <2>a, <3>1, SnapshotBegan
    <3> QED
      BY <1>0, <2>0, <2>1, <3>1, <3>2 DEF CallAt, CallOfTask, SamePlace, Starts, Persists, At
  <2>3. CASE Tree(c).dirty
    <3>1. /\ Commit({Tree(c).head}) /\ NewSnapshot(c, NewCommit)
          /\ trees' = [trees EXCEPT ![call[c].ws].dirty = FALSE, ![call[c].ws].head = NewCommit]
      BY <1>2, <2>3 DEF CaptureRecovery
    <3>2. PICK M \in Nat : /\ M = Len(commits') /\ commits' \in Seq(CommitRow) /\ M = N + 1
                           /\ NewCommit \in 1 .. M /\ NewCommit \in 0 .. M
                           /\ (\A n \in 1 .. M : commits'[n] \subseteq 1 .. M) /\ Upto(M)
      <4>1. {Tree(c).head} \in SUBSET (1 .. Len(commits))
        BY <1>0, <2>2, <2>5 DEF N
      <4>2. /\ commits' \in Seq(CommitRow) /\ Len(commits') = Len(commits) + 1 /\ NewCommit \in 1 .. Len(commits')
            /\ (\A n \in 1 .. Len(commits') : commits'[n] \subseteq 1 .. Len(commits')) /\ Upto(Len(commits'))
        BY <3>1, <4>1, Committed
      <4> QED
        BY <1>0, <4>2 DEF N
    <3>3. OnlyCall(c, M) /\ CallAt(c)'
      BY <2>a, <3>1, <3>2 DEF Upto
    <3>4. trees' \in [Workspaces -> TreeRow(M)]
      BY <1>0, <3>1, <3>2, TreeCommitted DEF Upto, OnlyTree
    <3>5. \A d \in Callers : CallAt(d)'
      BY <1>0, <3>2, <3>3, CallsStay DEF Rows
    <3>6. \A s \in Steps : TaskAt(s)'
      BY <1>5, <2>0
    <3>7. Upto(M)'
      BY <2>0, <3>2, <3>3, <3>4 DEF Upto, OnlyCall
    <3> QED
      BY <1>0, <2>0, <2>1, <3>2, <3>5, <3>6, <3>7 DEF Rows
  <2>4. CASE ~Tree(c).dirty
    <3>1. NewSnapshot(c, Tree(c).head) /\ UNCHANGED <<commits, trees>>
      BY <1>2, <2>4 DEF CaptureRecovery
    <3>3. OnlyCall(c, N) /\ CallAt(c)'
      BY <1>0, <2>2, <2>5, <2>a, <3>1
    <3> QED
      BY <1>0, <2>0, <2>1, <3>1, <3>3, OnlyCallMoves DEF N, disk, db
  <2> QED
    BY <2>3, <2>4
<1>3. CASE CaptureFails(c)
  <2>1. OnlyCall(c, N) /\ CallAt(c)'
    BY <1>0, <1>3, FailedAt DEF CaptureFails, N
  <2>2. faults' \in FaultRow
    BY <1>0, <1>3, Faulted DEF CaptureFails
  <2> QED
    BY <1>0, <1>3, <2>1, <2>2, OnlyCallMoves DEF CaptureFails, N
<1> QED
  BY <1>1, <1>2, <1>3

\* The ref, the row and the candidate.
LEMMA RowsPersisting ==
    ASSUME Rows, NEW c \in Callers, Snapshot(c)
    PROVE  Rows'
<1> DEFINE N == Len(commits)
<1>0. /\ N \in Nat /\ call \in [Callers -> CallRow(N)] /\ CallAt(c)
      /\ call[c].in \in 0 .. N /\ call[c].out \in 1 .. N /\ call[c].step \in Steps /\ call[c].attempt \in Attempts
      /\ ids \in 0 .. SnapshotBound /\ faults \in FaultRow /\ asked \in Nat
      /\ ~At(c, "idle") /\ (IF c = Operator THEN CallOfOperator(call[c]) ELSE CallOfTask(call[c]))
      /\ Persisting(c) => call[c].id \in Ids
      /\ Persisting(c) \/ At(c, "candidate")
  <2>1. call[c].pc \in {"pin", "index", "candidate"}
    BY DEF Snapshot, PinSnapshot, PinFails, CreateSnapshot, CreateSnapshotFails, UpdateCandidate,
           UpdateCandidateFails, At
  <2>2. /\ Len(commits) \in Nat /\ call \in [Callers -> CallRow(Len(commits))]
        /\ call[c].in \in 0 .. Len(commits) /\ call[c].out \in 0 .. Len(commits) /\ CallAt(c)
    BY CallTypes
  <2> QED
    BY <2>1, <2>2 DEF CallAt, Rows, At, Persists, Persisting
<1>1. UNCHANGED tasks => tasks' \in [Steps -> TaskRow(N)] /\ (\A s \in Steps : TaskAt(s)')
  BY TasksAlone DEF N
<1>2. CASE PinSnapshot(c)
  <2>1. /\ OnlyCall(c, N) /\ SamePlace(c) /\ call'[c].pc = "index" /\ call'[c].mode = call[c].mode
        /\ call'[c].held = call[c].held /\ call'[c].id = call[c].id /\ call'[c].out = call[c].out
        /\ call'[c].result = call[c].result /\ At(c, "pin")
    BY <1>0, <1>2, Went DEF PinSnapshot, Pcs
  <2>2. CallAt(c)'
    BY <1>0, <2>1 DEF CallAt, CallOfTask, CallOfOperator, SamePlace, Starts, Persists, At
  <2>3. \A d \in Callers : CallAt(d)'
    BY <1>0, <2>1, <2>2, CallsStay DEF Rows
  <2>4. refs' \subseteq Ids \X (1 .. N)
    <3>1. refs' = refs \cup {<<call[c].id, call[c].out>>} /\ call[c].id \in Ids
      BY <1>0, <1>2, <2>1 DEF PinSnapshot, At, Persisting, Persists
    <3> QED
      BY <1>0, <3>1 DEF Rows, Upto, N
  <2> QED
    BY <1>0, <1>1, <1>2, <2>1, <2>3, <2>4 DEF PinSnapshot, Rows, Upto, OnlyCall, N, db
<1>3. CASE PinFails(c)
  <2>1. OnlyCall(c, N) /\ CallAt(c)'
    <3>1. Persisting(c) /\ Failed(c)
      BY <1>3 DEF PinFails, At, Persisting, Persists
    <3> QED
      BY <3>1, FailedAt DEF N
  <2>2. faults' \in FaultRow
    BY <1>0, <1>3, Faulted DEF PinFails
  <2> QED
    BY <1>0, <1>3, <2>1, <2>2, OnlyCallMoves DEF PinFails, N
<1>4. CASE CreateSnapshot(c)
  <2>0. UNCHANGED <<disk, run, tasks, ids, asked, faults>> /\ At(c, "index")
    BY <1>4 DEF CreateSnapshot
  <2>1. OnlyCall(c, N) /\ CallAt(c)'
    <3>1. CASE call[c].mode = "restore"
      <4>1. Done(c)
        BY <1>4, <3>1 DEF CreateSnapshot
      <4> QED
        BY <4>1, DoneAt DEF N
    <3>2. CASE call[c].mode \in {"accept", "revert", "recover", "rescue"}
      <4>1. PICK p \in {"candidate", "commit", "fail"} :
               /\ Goto(c, p)
               /\ p = "candidate" <=> call[c].mode \in {"accept", "revert"}
               /\ p = "commit" <=> call[c].mode = "recover"
        BY <1>4, <3>2 DEF CreateSnapshot
      <4>2. p \in Pcs
        BY DEF Pcs
      <4>3. /\ OnlyCall(c, N) /\ SamePlace(c) /\ call'[c].pc = p /\ call'[c].mode = call[c].mode
            /\ call'[c].held = call[c].held /\ call'[c].out = call[c].out
            /\ call'[c].result = call[c].result
        BY <1>0, <4>1, <4>2, Went
      <4> QED
        BY <1>0, <2>0, <3>2, <4>1, <4>3
           DEF CallAt, CallOfTask, CallOfOperator, SamePlace, Starts, Persists, At
    <3> QED
      BY <1>0, <2>0, <3>1, <3>2 DEF CallOfTask, CallOfOperator, At, Persists
  <2>2. \A d \in Callers : CallAt(d)'
    BY <1>0, <2>1, CallsStay DEF Rows
  <2> DEFINE row == [id |-> call[c].id, step |-> call[c].step, attempt |-> call[c].attempt,
                     kind |-> Kind(c), in |-> call[c].in, out |-> call[c].out]
  <2>3. row \in SnapRow(N)
    <3>1. Kind(c) \in SnapshotKind
      BY DEF Kind, SnapshotKind
    <3> QED
      BY <1>0, <2>0, <3>1 DEF SnapRow, Persisting, Persists, At
  <2>4. rows' = Append(rows, row)
    BY <1>4 DEF CreateSnapshot
  <2> HIDE DEF row
  <2>5. rows' \in Seq(SnapRow(N))
    BY <2>3, <2>4, AppendProperties DEF Rows, Upto, N
  <2> QED
    BY <1>0, <1>1, <2>0, <2>1, <2>2, <2>5 DEF Rows, Upto, OnlyCall, N, disk
<1>5. CASE CreateSnapshotFails(c)
  <2>1. OnlyCall(c, N) /\ CallAt(c)'
    <3>1. Persisting(c) /\ Failed(c)
      BY <1>5 DEF CreateSnapshotFails, At, Persisting, Persists
    <3> QED
      BY <3>1, FailedAt DEF N
  <2>2. faults' \in FaultRow
    BY <1>0, <1>5, Faulted DEF CreateSnapshotFails
  <2>3. refs' \subseteq refs
    BY <1>5 DEF CreateSnapshotFails
  <2>4. \A d \in Callers : CallAt(d)'
    BY <1>0, <2>1, CallsStay DEF Rows
  <2> QED
    BY <1>0, <1>1, <1>5, <2>1, <2>2, <2>3, <2>4 DEF CreateSnapshotFails, Rows, Upto, OnlyCall, N, db
<1>6. ASSUME At(c, "candidate"), NEW p \in {"commit", "fail"}, IF call[c].mode = "revert" THEN Done(c) ELSE Goto(c, p)
      PROVE  OnlyCall(c, N) /\ CallAt(c)'
  <2>1. CASE call[c].mode = "revert"
    BY <1>6, <2>1, DoneAt DEF N
  <2>2. CASE call[c].mode # "revert"
    <3>1. /\ OnlyCall(c, N) /\ SamePlace(c) /\ call'[c].pc = p /\ call'[c].mode = call[c].mode
          /\ call'[c].held = call[c].held /\ call'[c].result = call[c].result
      BY <1>0, <1>6, <2>2, Went DEF Pcs
    <3> QED
      BY <1>0, <1>6, <2>2, <3>1 DEF CallAt, CallOfTask, CallOfOperator, SamePlace, Starts, Persists, At
  <2> QED
    BY <2>1, <2>2
<1>7. CASE UpdateCandidate(c)
  <2>1. OnlyCall(c, N) /\ CallAt(c)'
    BY <1>6, <1>7 DEF UpdateCandidate
  <2>2. \A d \in Callers : CallAt(d)'
    BY <1>0, <2>1, CallsStay DEF Rows
  <2>3. run' \in [step : 1 .. Len(Agents) + 1, candidate : 1 .. N]
    BY <1>0, <1>7 DEF UpdateCandidate, Rows, Upto, N
  <2> QED
    BY <1>0, <1>1, <1>7, <2>1, <2>2, <2>3 DEF UpdateCandidate, Rows, Upto, OnlyCall, N, disk
<1>8. CASE UpdateCandidateFails(c)
  <2>1. OnlyCall(c, N) /\ CallAt(c)'
    BY <1>6, <1>8 DEF UpdateCandidateFails
  <2>2. faults' \in FaultRow
    BY <1>0, <1>8, Faulted DEF UpdateCandidateFails
  <2> QED
    BY <1>0, <1>8, <2>1, <2>2, OnlyCallMoves DEF UpdateCandidateFails, N
<1> QED
  BY <1>2, <1>3, <1>4, <1>5, <1>7, <1>8 DEF Snapshot

\* The end of an attempt, of a lease and of a process.
LEMMA RowsEnding ==
    ASSUME Rows, Owned, NEW c \in Callers,
           Crash(c) \/ (c \in Calls /\ (\/ CommitResult(c) \/ CommitResultFails(c)
                                      \/ CommitFailure(c) \/ LoseLease(c)))
    PROVE  Rows'
<1> DEFINE N == Len(commits)
<1>0. /\ N \in Nat /\ call \in [Callers -> CallRow(N)] /\ CallAt(c)
      /\ trees \in [Workspaces -> TreeRow(N)] /\ tasks \in [Steps -> TaskRow(N)]
      /\ ids \in 0 .. SnapshotBound /\ faults \in FaultRow /\ asked \in Nat
  BY CallTypes DEF Rows
<1>1. CASE Crash(c)
  <2>1. OnlyCall(c, N) /\ CallAt(c)'
    BY <1>0, <1>1, DoneAt DEF Crash, N
  <2>2. faults' \in FaultRow
    BY <1>0, <1>1, Faulted DEF Crash
  <2> QED
    BY <1>0, <1>1, <2>1, <2>2, OnlyCallMoves DEF Crash, N
<1>2. ASSUME NEW state \in {"FAILED", "SUCCEEDED"}, NEW a \in 0 .. MaxAttempts, c \in Calls,
             ~At(c, "idle"), ~Starting(c), Decide(c, state, a)
      PROVE  Rows'
  <2>1. OnlyCall(c, N) /\ CallAt(c)'
    BY <1>0, <1>2, DoneAt DEF Decide, N
  <2>2. PICK s \in Steps : s = call[c].step
    BY <1>0, <1>2 DEF CallAt, At
  <2>3. tasks' \in [Steps -> TaskRow(N)] /\ \A r \in Steps : TaskAt(r)'
    <3>1. CASE call[c].held
      <4>1. tasks[s].state = "RUNNING"
        BY <1>2, <2>2, <3>1 DEF Owned, TaskOfCall, Starts, Starting, At
      <4>2. tasks' = [tasks EXCEPT ![s].state = state, ![s].success = a]
        BY <1>2, <2>2, <3>1 DEF Decide
      <4>3. state \in States
        BY DEF States
      <4>4. /\ OnlyTask(s, N) /\ tasks'[s].state = state /\ tasks'[s].attempt = tasks[s].attempt
            /\ tasks'[s].in = tasks[s].in
        BY <1>0, <4>2, <4>3, TaskDecided
      <4>5. TaskAt(s)'
        BY <4>1, <4>4 DEF Rows, TaskAt
      <4> QED
        BY <1>0, <4>4, <4>5, TasksStay DEF Rows, OnlyTask
    <3>2. CASE ~call[c].held
      BY <1>2, <3>2, TasksAlone DEF Decide, N
    <3> QED
      BY <3>1, <3>2
  <2> QED
    BY <1>0, <1>2, <2>1, <2>3, CallMoves DEF Decide, N, disk
<1>6. ASSUME c \in Calls, ~At(c, "idle")
      PROVE  Success(c) \in 0 .. MaxAttempts /\ call[c].attempt \in 0 .. MaxAttempts
  <2>1. call[c].step \in Steps /\ call[c].attempt \in 0 .. MaxAttempts
    BY <1>0, <1>6 DEF CallAt, At, CallRow
  <2> QED
    BY <1>0, <2>1 DEF Success, TaskRow
<1>3. CASE c \in Calls /\ CommitResult(c)
  <2>1. At(c, "commit") /\ call[c].mode \in {"accept", "recover"} /\ call[c].result \in {"none", "FAILED", "SUCCEEDED"}
        /\ (call[c].mode = "recover" => call[c].result # "none")
    <3>1. call[c] \in CallRow(N) /\ At(c, "commit") /\ c # Operator
      BY <1>0, <1>3, Numbers DEF CommitResult
    <3> QED
      BY <1>0, <3>1 DEF CallAt, CallOfTask, At, CallRow
  <2>2. ~At(c, "idle") /\ ~Starting(c)
    BY <2>1 DEF At, Starting
  <2>3. PICK state \in {"FAILED", "SUCCEEDED"}, a \in 0 .. MaxAttempts : Decide(c, state, a)
    BY <1>3, <1>6, <2>1, <2>2 DEF CommitResult
  <2> QED
    BY <1>2, <1>3, <2>2, <2>3
<1>4. CASE c \in Calls /\ CommitFailure(c)
  <2>1. Decide(c, "FAILED", Success(c)) /\ ~At(c, "idle") /\ ~Starting(c)
    BY <1>4 DEF CommitFailure, At, Starting
  <2> QED
    BY <1>2, <1>4, <1>6, <2>1
<1>7. CASE c \in Calls /\ CommitResultFails(c)
  <2>1. /\ OnlyCall(c, N) /\ SamePlace(c) /\ call'[c].pc = "fail" /\ call'[c].mode = call[c].mode
        /\ call'[c].held = call[c].held /\ call'[c].result = call[c].result /\ At(c, "commit")
    BY <1>0, <1>7, Went DEF CommitResultFails, Pcs
  <2>2. c # Operator
    BY <1>7, Numbers
  <2>3. CallAt(c)'
    BY <1>0, <2>1, <2>2 DEF CallAt, CallOfTask, SamePlace, Starts, Persists, At
  <2>4. faults' \in FaultRow
    BY <1>0, <1>7, Faulted DEF CommitResultFails
  <2> QED
    BY <1>0, <1>7, <2>1, <2>3, <2>4, OnlyCallMoves DEF CommitResultFails, N
<1>5. CASE c \in Calls /\ LoseLease(c)
  <2>1. /\ call[c].held /\ ~Starting(c) /\ Fault("lease") /\ c # Operator
        /\ call' = [call EXCEPT ![c].held = FALSE] /\ UNCHANGED <<disk, rows, run, ids, asked>>
    BY <1>5, Numbers DEF LoseLease
  <2>2. ~At(c, "idle")
    BY <1>0, <2>1, IdleRow DEF CallAt, At
  <2>3. PICK s \in Steps : s = call[c].step
    BY <1>0, <2>2 DEF CallAt, At
  <2>4. /\ OnlyCall(c, N) /\ SamePlace(c) /\ call'[c].pc = call[c].pc /\ call'[c].mode = call[c].mode
        /\ call'[c].out = call[c].out /\ call'[c].id = call[c].id /\ call'[c].result = call[c].result
    BY <1>0, <2>1, LeaseWasLost
  <2>5. CallAt(c)'
    BY <1>0, <2>1, <2>2, <2>4 DEF CallAt, CallOfTask, SamePlace, Starts, Starting, At
  <2>6. tasks[s].state = "RUNNING"
    BY <1>5, <2>1, <2>2, <2>3 DEF Owned, TaskOfCall, Starts, Starting, At
  <2>7. /\ OnlyTask(s, N) /\ tasks'[s].state = "FAILED" /\ tasks'[s].attempt = tasks[s].attempt
        /\ tasks'[s].in = tasks[s].in
    <3>1. tasks' = [tasks EXCEPT ![s].state = "FAILED"] /\ "FAILED" \in States
      BY <1>5, <2>3 DEF LoseLease, States
    <3> QED
      BY <1>0, <3>1, TaskMoved
  <2>8. TaskAt(s)'
    BY <2>6, <2>7 DEF Rows, TaskAt
  <2>9. \A r \in Steps : TaskAt(r)'
    BY <1>0, <2>7, <2>8, TasksStay DEF Rows
  <2>10. faults' \in FaultRow
    BY <1>0, <2>1, Faulted
  <2> QED
    BY <1>0, <2>1, <2>4, <2>5, <2>7, <2>9, <2>10, CallMoves DEF OnlyTask, N, disk
<1> QED
  BY <1>1, <1>3, <1>4, <1>5, <1>7

\* The agents at work.
LEMMA RowsWorking ==
    ASSUME Rows, Owned, NEW w \in Workspaces,
           AgentEdits(w) \/ AgentCommits(w) \/ AgentChecksOut(w) \/ AgentMerges(w)
    PROVE  Rows'
<1> DEFINE N == Len(commits)
<1>0. N \in Nat /\ trees \in [Workspaces -> TreeRow(N)] /\ trees[w].head \in 1 .. N
  <2>1. trees[w].busy /\ TreeAt(w)
    BY DEF AgentEdits, AgentCommits, AgentChecksOut, AgentMerges, Working, Owned
  <2>2. trees[w].head # 0
    BY <2>1 DEF TreeAt
  <2> QED
    BY <2>2, Numbers DEF Rows, Upto, TreeRow
<1>1. UNCHANGED <<refs, restores, rows, run, tasks, call, ids, asked, faults>>
  BY DEF AgentEdits, AgentCommits, AgentChecksOut, AgentMerges, db
<1>2. (\A s \in Steps : TaskAt(s)') /\ (\A c \in Callers : CallAt(c)')
  BY <1>1, TasksAlone, CallsAlone
<1>3. CASE AgentEdits(w)
  <2>1. trees' \in [Workspaces -> TreeRow(N)] /\ UNCHANGED commits
    BY <1>0, <1>3, TreeEdited DEF AgentEdits, OnlyTree
  <2> QED
    BY <1>1, <1>2, <2>1 DEF Rows, Upto, N
<1>4. ASSUME NEW p \in SUBSET (1 .. N), Commit(p),
             \/ trees' = [trees EXCEPT ![w].dirty = FALSE, ![w].head = NewCommit]
             \/ trees' = [trees EXCEPT ![w].head = NewCommit]
      PROVE  Rows'
  <2>2. PICK M \in Nat : /\ M = Len(commits') /\ commits' \in Seq(CommitRow) /\ M = N + 1
                         /\ NewCommit \in 0 .. M
                         /\ (\A n \in 1 .. M : commits'[n] \subseteq 1 .. M) /\ Upto(M)
    <3>1. p \in SUBSET (1 .. Len(commits))
      BY <1>4 DEF N
    <3>2. /\ commits' \in Seq(CommitRow) /\ Len(commits') = Len(commits) + 1 /\ NewCommit \in 1 .. Len(commits')
          /\ (\A n \in 1 .. Len(commits') : commits'[n] \subseteq 1 .. Len(commits')) /\ Upto(Len(commits'))
      BY <1>4, <3>1, Committed
    <3> QED
      BY <1>0, <3>2 DEF N
  <2>3. trees' \in [Workspaces -> TreeRow(M)]
    BY <1>4, <2>2, TreeCommitted, TreeMoved DEF Upto, OnlyTree
  <2>4. Upto(M)'
    BY <1>1, <2>2, <2>3 DEF Upto
  <2> QED
    BY <1>0, <1>1, <1>2, <2>2, <2>4 DEF Rows
<1>6. CASE AgentCommits(w)
  BY <1>0, <1>4, <1>6 DEF AgentCommits
<1>7. CASE AgentMerges(w)
  <2>1. PICK c \in 1 .. N : Commit({trees[w].head, c})
    BY <1>7 DEF AgentMerges, N
  <2>2. {trees[w].head, c} \in SUBSET (1 .. N)
    BY <1>0
  <2> QED
    BY <1>4, <1>7, <2>1, <2>2 DEF AgentMerges
<1>5. CASE AgentChecksOut(w)
  <2>1. UNCHANGED commits /\ trees' \in [Workspaces -> TreeRow(N)]
    <3>1. PICK c \in 1 .. N : trees' = [trees EXCEPT ![w].head = c]
      BY <1>5 DEF AgentChecksOut, N
    <3>2. c \in 0 .. N
      BY <1>0
    <3> QED
      BY <1>0, <1>5, <3>1, <3>2, TreeMoved DEF AgentChecksOut, OnlyTree
  <2> QED
    BY <1>1, <1>2, <2>1 DEF Rows, Upto, N
<1> QED
  BY <1>3, <1>5, <1>6, <1>7

\* The tasks and the run beside the calls.
LEMMA RowsAdvancing ==
    ASSUME Rows, CreateTask \/ Reap \/ RetryReady \/ ReworkTask \/ Advance
    PROVE  Rows'
<1> DEFINE N == Len(commits)
<1>0. /\ N \in Nat /\ tasks \in [Steps -> TaskRow(N)] /\ run.candidate \in 1 .. N /\ MaxAttempts \in Nat
      /\ Len(Agents) \in Nat /\ run \in [step : 1 .. Len(Agents) + 1, candidate : 1 .. N] /\ 1 \in Attempts
  BY Numbers DEF Rows, Upto
<1>1. UNCHANGED <<commits, trees, refs, restores, rows, call, ids, asked, faults>>
  BY DEF CreateTask, Reap, RetryReady, ReworkTask, Advance, disk
<1>2. \A c \in Callers : CallAt(c)'
  BY <1>1, CallsAlone
<1>3. ASSUME NEW s \in Steps, OnlyTask(s, N), TaskAt(s)', UNCHANGED run
      PROVE  Rows'
  <2>1. \A r \in Steps : TaskAt(r)'
    BY <1>0, <1>3, TasksStay DEF Rows
  <2> QED
    BY <1>1, <1>2, <1>3, <2>1 DEF Rows, Upto, OnlyTask, N
<1>4. CASE CreateTask
  <2> DEFINE row == [state |-> "READY", attempt |-> 1, in |-> run.candidate, ws |-> 0, wsAttempt |-> 0, success |-> 0]
  <2>1. PICK s \in Steps : s = run.step /\ tasks' = [tasks EXCEPT ![s] = row] /\ UNCHANGED run
    BY <1>4 DEF CreateTask
  <2>2. /\ row \in TaskRow(N) /\ row.state = "READY" /\ row.attempt \in Attempts /\ row.in # 0
    BY <1>0 DEF TaskRow, States, Attempts
  <2> HIDE DEF row
  <2>3. OnlyTask(s, N) /\ tasks'[s] = row
    BY <1>0, <2>1, <2>2 DEF OnlyTask
  <2>4. tasks'[s].state = "READY" /\ tasks'[s].attempt \in Attempts /\ tasks'[s].in # 0
    BY <2>2, <2>3
  <2>5. TaskAt(s)'
    BY <2>4 DEF TaskAt
  <2> QED
    BY <1>3, <2>1, <2>3, <2>5
<1>5. CASE Reap
  <2>1. PICK s \in Steps : /\ tasks[s].state = "RUNNING"
                           /\ tasks' = [tasks EXCEPT ![s].state = "FAILED"] /\ UNCHANGED run
    BY <1>5 DEF Reap
  <2>2. "FAILED" \in States
    BY DEF States
  <2>3. /\ OnlyTask(s, N) /\ tasks'[s].state = "FAILED" /\ tasks'[s].attempt = tasks[s].attempt
        /\ tasks'[s].in = tasks[s].in
    BY <1>0, <2>1, <2>2, TaskMoved
  <2>4. TaskAt(s)'
    BY <2>1, <2>3 DEF Rows, TaskAt
  <2> QED
    BY <1>3, <2>1, <2>3, <2>4
<1>6. CASE RetryReady \/ ReworkTask
  <2>1. PICK s \in Steps : /\ s = run.step /\ tasks[s].state \in {"SUCCEEDED", "FAILED"}
                           /\ tasks[s].attempt < MaxAttempts /\ UNCHANGED run
                           /\ \/ tasks' = [tasks EXCEPT ![s].state = "READY", ![s].attempt = @ + 1, ![s].ws = 0,
                                                       ![s].wsAttempt = 0]
                              \/ tasks' = [tasks EXCEPT ![s].state = "READY", ![s].attempt = @ + 1]
    BY <1>6 DEF RetryReady, ReworkTask
  <2>2. tasks[s].attempt \in Attempts /\ tasks[s].in # 0
    BY <2>1 DEF Rows, TaskAt
  <2>3. tasks[s].attempt + 1 \in Attempts /\ tasks[s].attempt + 1 \in 0 .. MaxAttempts
    BY <1>0, <2>1, <2>2 DEF Attempts
  <2>4. /\ OnlyTask(s, N) /\ tasks'[s].state = "READY" /\ tasks'[s].attempt = tasks[s].attempt + 1
        /\ tasks'[s].in = tasks[s].in
    <3>1. CASE tasks' = [tasks EXCEPT ![s].state = "READY", ![s].attempt = @ + 1, ![s].ws = 0,
                                        ![s].wsAttempt = 0]
      BY <1>0, <2>3, <3>1, TaskRetried
    <3>2. CASE tasks' = [tasks EXCEPT ![s].state = "READY", ![s].attempt = @ + 1]
      BY <1>0, <2>3, <3>2, TaskReworked
    <3> QED
      BY <2>1, <3>1, <3>2
  <2>5. TaskAt(s)'
    BY <2>2, <2>3, <2>4 DEF TaskAt
  <2> QED
    BY <1>3, <2>1, <2>4, <2>5
<1>7. CASE Advance
  <2>1. run' \in [step : 1 .. Len(Agents) + 1, candidate : 1 .. N] /\ UNCHANGED tasks
    BY <1>0, <1>7 DEF Advance, Steps
  <2>2. \A s \in Steps : TaskAt(s)'
    BY <2>1, TasksAlone
  <2> QED
    BY <1>1, <1>2, <2>1, <2>2 DEF Rows, Upto, N
<1> QED
  BY <1>4, <1>5, <1>6, <1>7

\* The commands of the operator.
LEMMA RowsOperating ==
    ASSUME Rows, \/ Restore \/ AddRestoreTree \/ AddRestoreTreeFails \/ RestoreIsOrphaned
                 \/ CleanupRestore \/ CleanupRestoreFails \/ Revert
    PROVE  Rows'
<1> DEFINE N == Len(commits)
           o == Operator
<1>0. /\ o \in Callers /\ N \in Nat /\ call \in [Callers -> CallRow(N)] /\ rows \in Seq(SnapRow(N))
      /\ ids \in 0 .. SnapshotBound /\ faults \in FaultRow /\ asked \in Nat /\ asked + 1 \in Nat /\ SnapshotBound \in Nat
      /\ refs \subseteq Ids \X (1 .. N) /\ run.candidate \in 1 .. N
      /\ restores \subseteq [id : Ids, commit : 1 .. N]
  BY Numbers DEF Rows, Upto
<1>1. UNCHANGED tasks => tasks' \in [Steps -> TaskRow(N)] /\ (\A s \in Steps : TaskAt(s)')
  BY TasksAlone DEF N
<1>2. ids < SnapshotBound => ids + 1 \in Ids /\ ids + 1 \in 0 .. SnapshotBound
  BY <1>0 DEF Ids
<1>3. \A k \in DOMAIN rows : /\ rows[k].out \in 1 .. N /\ rows[k].out \in 0 .. N /\ rows[k].out # 0
                             /\ rows[k].step \in Steps /\ rows[k].attempt \in Attempts
  <2>1. \A k \in DOMAIN rows : rows[k] \in SnapRow(N)
    BY <1>0, ElementOfSeq
  <2> QED
    BY <1>0, <2>1 DEF SnapRow
<1>4. CASE Restore
  <2>1. PICK k \in DOMAIN rows :
          /\ restores' = restores \cup {[id |-> ids + 1, commit |-> rows[k].out]}
          /\ call' = [call EXCEPT ![o] = [Source(k) EXCEPT !.pc = "add", !.mode = "restore",
                                             !.in = rows[k].out, !.out = rows[k].out]]
    BY <1>4 DEF Restore
  <2>2. ids + 1 \in Ids /\ ids' \in 0 .. SnapshotBound /\ asked' \in Nat
        /\ UNCHANGED <<commits, trees, refs, rows, run, tasks, faults>>
    BY <1>0, <1>2, <1>4 DEF Restore, Asked, db
  <2>3. PICK r \in CallRow(N) : /\ call' = [call EXCEPT ![o] = r] /\ r.step \in Steps /\ r.attempt \in Attempts
                                /\ r.pc = "add" /\ r.mode = "restore" /\ r.out # 0
                                /\ r.id \in Ids /\ r.held = TRUE
    <3>1. PICK h \in 0 .. N, s \in Nat, a \in 0 .. MaxAttempts, j \in {0} \cup Ids :
             /\ h = rows[k].out /\ h # 0
             /\ s = rows[k].step /\ s \in Steps /\ a = rows[k].attempt /\ a \in Attempts
             /\ j = ids + 1 /\ j \in Ids
      BY <1>3, <2>2, Numbers
    <3>2. PICK p \in Pcs, m \in {"restore", "revert"} : p = "add" /\ m = "restore"
      BY DEF Pcs
    <3>3. PICK r \in CallRow(N) : /\ r = SourceOf(s, a, j, p, m, h, h)
                                  /\ Says(r, s, a, j, p, m, h, h)
      BY <1>0, SourceRow, SMTT(20)
    <3>4. call' = [call EXCEPT ![o] = r]
      BY <2>1, <3>1, <3>2, <3>3 DEF SourceOf, Source
    <3> QED
      BY <3>1, <3>2, <3>3, <3>4 DEF Says
  <2>4. OnlyCall(o, N) /\ CallAt(o)'
    BY <1>0, <2>3 DEF OnlyCall, CallAt, CallOfOperator, Persists
  <2>5. \A c \in Callers : CallAt(c)'
    BY <1>0, <2>4, CallsStay DEF Rows
  <2>6. restores' \subseteq [id : Ids, commit : 1 .. N]
    BY <1>0, <1>3, <2>1, <2>2
  <2> QED
    BY <1>0, <1>1, <2>2, <2>4, <2>5, <2>6 DEF Rows, Upto, OnlyCall, N
<1>8. CASE AddRestoreTree
  <2>1. /\ OnlyCall(o, N) /\ SamePlace(o) /\ call'[o].pc = "pin" /\ call'[o].mode = call[o].mode
        /\ call'[o].held = call[o].held /\ call'[o].out = call[o].out /\ call'[o].id = call[o].id
        /\ At(o, "add")
    BY <1>0, <1>8, Went DEF AddRestoreTree, Pcs
  <2>2. CallAt(o)
    BY <1>0 DEF Rows
  <2>3. CallAt(o)'
    BY <2>1, <2>2 DEF CallAt, CallOfOperator, SamePlace, Persists, At
  <2> QED
    BY <1>0, <1>8, <2>1, <2>3, OnlyCallMoves DEF AddRestoreTree, N
<1>9. CASE RestoreIsOrphaned
  <2>1. OnlyCall(o, N) /\ CallAt(o)'
    BY <1>0, <1>9, DoneAt DEF RestoreIsOrphaned, N
  <2>2. faults' \in FaultRow
    BY <1>0, <1>9, Faulted DEF RestoreIsOrphaned
  <2> QED
    BY <1>0, <1>9, <2>1, <2>2, OnlyCallMoves DEF RestoreIsOrphaned, N
<1>5. CASE CleanupRestore \/ AddRestoreTreeFails
  <2>1. OnlyCall(o, N) /\ CallAt(o)' /\ UNCHANGED <<commits, trees, refs, rows, run, tasks, ids, asked>>
    BY <1>0, <1>5, DoneAt DEF CleanupRestore, AddRestoreTreeFails, N, db
  <2>4. faults' \in FaultRow
    BY <1>0, <1>5, Faulted DEF CleanupRestore, AddRestoreTreeFails
  <2>2. \A c \in Callers : CallAt(c)'
    BY <1>0, <2>1, CallsStay DEF Rows
  <2>3. restores' \subseteq restores
    BY <1>5 DEF CleanupRestore, AddRestoreTreeFails
  <2> QED
    BY <1>0, <1>1, <2>1, <2>2, <2>3, <2>4 DEF Rows, Upto, OnlyCall, N
<1>6. CASE CleanupRestoreFails
  <2>1. OnlyCall(o, N) /\ CallAt(o)'
    BY <1>0, <1>6, DoneAt DEF CleanupRestoreFails, N
  <2>2. faults' \in FaultRow
    <3>1. faults \in FaultRow /\ faults.undo + 1 \in Nat
      BY <1>0 DEF FaultRow
    <3>2. faults' = [faults EXCEPT !.undo = faults.undo + 1]
      BY <1>6 DEF CleanupRestoreFails
    <3> QED
      BY <3>1, <3>2 DEF FaultRow
  <2> QED
    BY <1>0, <1>6, <2>1, <2>2, OnlyCallMoves DEF CleanupRestoreFails, N
<1>7. CASE Revert
  <2>1. PICK k \in DOMAIN rows, head \in 1 .. N :
          /\ call' = [call EXCEPT ![o] = [Source(k) EXCEPT !.pc = "pin", !.mode = "revert",
                                             !.in = head, !.out = NewCommit]]
          /\ Commit({head})
    BY <1>7 DEF Revert, N
  <2>2. ids + 1 \in Ids /\ ids' \in 0 .. SnapshotBound /\ asked' \in Nat
        /\ UNCHANGED <<trees, refs, restores, rows, run, tasks, faults>>
    BY <1>0, <1>2, <1>7 DEF Revert, Asked, db
  <2>4. PICK M \in Nat : /\ M = Len(commits') /\ commits' \in Seq(CommitRow) /\ M = N + 1
                         /\ NewCommit \in 1 .. M
                         /\ (\A n \in 1 .. M : commits'[n] \subseteq 1 .. M) /\ Upto(M)
    <3>1. {head} \in SUBSET (1 .. Len(commits))
      BY <1>0, <2>1 DEF N
    <3>2. /\ commits' \in Seq(CommitRow) /\ Len(commits') = Len(commits) + 1 /\ NewCommit \in 1 .. Len(commits')
          /\ (\A n \in 1 .. Len(commits') : commits'[n] \subseteq 1 .. Len(commits')) /\ Upto(Len(commits'))
      BY <2>1, <3>1, Committed
    <3> QED
      BY <1>0, <3>2 DEF N
  <2>5. PICK r \in CallRow(M) : /\ call' = [call EXCEPT ![o] = r] /\ r.step \in Steps /\ r.attempt \in Attempts
                                /\ r.pc = "pin" /\ r.mode = "revert" /\ r.out # 0
                                /\ r.id \in Ids /\ r.held = TRUE
    <3>1. PICK h \in 0 .. M, out \in 0 .. M, s \in Nat, a \in 0 .. MaxAttempts, j \in {0} \cup Ids :
             /\ h = head /\ out = NewCommit /\ out # 0
             /\ s = rows[k].step /\ s \in Steps /\ a = rows[k].attempt /\ a \in Attempts
             /\ j = ids + 1 /\ j \in Ids
      <4>1. head \in 0 .. M /\ NewCommit \in 0 .. M /\ NewCommit # 0
        BY <1>0, <2>1, <2>4
      <4>2. rows[k].step \in Nat /\ rows[k].attempt \in 0 .. MaxAttempts
        BY <1>3, Numbers
      <4> QED
        BY <1>3, <2>2, <4>1, <4>2
    <3>2. PICK p \in Pcs, m \in {"restore", "revert"} : p = "pin" /\ m = "revert"
      BY DEF Pcs
    <3>3. PICK r \in CallRow(M) : /\ r = SourceOf(s, a, j, p, m, h, out)
                                  /\ Says(r, s, a, j, p, m, h, out)
      BY SourceRow
    <3>4. call' = [call EXCEPT ![o] = r]
      BY <2>1, <3>1, <3>2, <3>3 DEF SourceOf, Source
    <3> QED
      BY <3>1, <3>2, <3>3, <3>4 DEF Says
  <2>6. OnlyCall(o, M) /\ CallAt(o)'
    BY <1>0, <2>4, <2>5 DEF OnlyCall, CallAt, CallOfOperator, Persists, Upto
  <2>7. \A c \in Callers : CallAt(c)'
    BY <1>0, <2>4, <2>6, CallsStay DEF Rows
  <2>8. Upto(M)'
    BY <2>2, <2>4, <2>6 DEF Upto, OnlyCall
  <2> QED
    BY <1>0, <1>1, <2>2, <2>4, <2>7, <2>8 DEF Rows
<1> QED
  BY <1>4, <1>5, <1>6, <1>7, <1>8, <1>9

\* The first state.
LEMMA InitRows == Init => Rows
<1> SUFFICES ASSUME Init PROVE Rows
  OBVIOUS
<1>1. {} \in CommitRow
  BY DEF CommitRow
<1>2. commits = <<{}>>
  BY DEF Init
<1>3. commits \in Seq(CommitRow) /\ Len(commits) = 1 /\ commits[1] = {}
  BY <1>1, <1>2
<1>4. Idle \in CallRow(1) /\ Idle.pc = "idle"
  BY IdleRow
<1>5. NoTree \in TreeRow(1)
  BY DEF NoTree, TreeRow
<1>6. [state |-> "none", attempt |-> 0, in |-> 0, ws |-> 0, wsAttempt |-> 0, success |-> 0] \in TaskRow(1)
  BY SnapshotsAssumption DEF TaskRow, States
<1>7. Upto(1)
  BY <1>4, <1>5, <1>6, Numbers DEF Init, Upto, Base
<1>8. \A c \in Callers : CallAt(c)
  BY <1>4 DEF Init, CallAt
<1>9. \A s \in Steps : TaskAt(s)
  BY DEF Init, TaskAt
<1>10. ids \in 0 .. SnapshotBound /\ asked \in Nat /\ faults \in FaultRow
  BY Numbers DEF Init, FaultRow
<1> QED
  BY <1>1, <1>3, <1>7, <1>8, <1>9, <1>10 DEF Rows

\* Every step keeps the rows, given that the trees are owned.
LEMMA NextRows == Rows /\ Owned /\ [Next]_vars => Rows'
<1> SUFFICES ASSUME Rows, Owned, [Next]_vars PROVE Rows'
  OBVIOUS
<1>1. CASE UNCHANGED vars
  <2>1. (\A c \in Callers : CallAt(c)') /\ (\A s \in Steps : TaskAt(s)')
    BY <1>1, TasksAlone, CallsAlone DEF vars, disk, db
  <2> QED
    BY <1>1, <2>1 DEF vars, disk, db, Rows, Upto
<1>3. CASE Next
  BY <1>3, RowsStarting, RowsTurning, RowsCapturing, RowsPersisting, RowsEnding, RowsWorking,
     RowsAdvancing, RowsOperating, Numbers
     DEF Next, ExecuteTask
<1> QED
  BY <1>1, <1>3

-----------------------------------------------------------------------------
(* Where the callers go. *)

\* A caller moves on and nothing else of it changes.
Goes(c, p) ==
    /\ OnlyCall(c, Len(commits)) /\ SamePlace(c)
    /\ call'[c].pc = p /\ call'[c].mode = call[c].mode /\ call'[c].out = call[c].out
    /\ call'[c].id = call[c].id /\ call'[c].held = call[c].held

\* That is what Goto does.
LEMMA GoesTo ==
    ASSUME Rows, NEW c \in Callers, NEW p \in Pcs, Goto(c, p)
    PROVE  Goes(c, p)
  BY CallTypes, Went DEF Goes

\* An attempt is rescued.
Rescued(c) ==
    /\ OnlyCall(c, Len(commits)) /\ SamePlace(c)
    /\ call'[c].pc = "capture" /\ call'[c].mode = "rescue" /\ call'[c].out = 0
    /\ call'[c].id = 0 /\ call'[c].held = call[c].held

\* That is what Rescue does.
LEMMA RescuedBy ==
    ASSUME Rows, NEW c \in Callers, Rescue(c)
    PROVE  Rescued(c)
  BY CallTypes, WasRescued DEF Rescued

\* A snapshot is begun.
Begins(c, n, out) ==
    /\ OnlyCall(c, n) /\ SamePlace(c)
    /\ call'[c].pc = "pin" /\ call'[c].mode = call[c].mode /\ call'[c].out = out
    /\ call'[c].id = ids + 1 /\ call'[c].held = call[c].held

\* An error on the way of a snapshot rescues an attempt that has not been rescued yet,
\* cleans up behind a restore, and ends a revert.
LEMMA FailedGoes ==
    ASSUME Rows, NEW c \in Callers, Persisting(c) \/ (c # Operator /\ At(c, "capture")), Failed(c)
    PROVE  \/ c = Operator /\ call[c].mode = "revert" /\ Done(c)
           \/ c = Operator /\ call[c].mode = "restore" /\ Goes(c, "cleanup")
           \/ c # Operator /\ call[c].mode \in {"accept", "recover"} /\ Rescued(c)
           \/ c # Operator /\ call[c].mode = "rescue" /\ Goes(c, "fail")
<1>1. CallAt(c) /\ call[c].pc # "idle"
  BY CallTypes DEF Persisting, Persists, At
<1>2. CASE c = Operator
  <2>1. call[c].mode = "restore" \/ call[c].mode = "revert"
    BY <1>1, <1>2 DEF CallAt, CallOfOperator
  <2>2. CASE call[c].mode = "restore"
    <3>1. Goto(c, "cleanup") /\ "cleanup" \in Pcs
      BY <2>2 DEF Failed, Pcs
    <3> QED
      BY <1>2, <2>2, <3>1, GoesTo
  <2>3. CASE call[c].mode = "revert"
    BY <1>2, <2>3 DEF Failed
  <2> QED
    BY <2>1, <2>2, <2>3
<1>3. CASE c # Operator
  <2>1. call[c].mode \in {"accept", "recover", "rescue"}
    BY <1>1, <1>3 DEF CallAt, CallOfTask, At, Persisting
  <2>2. CASE call[c].mode \in {"accept", "recover"}
    <3>1. Rescue(c)
      BY <2>2 DEF Failed
    <3> QED
      BY <1>3, <2>2, <3>1, RescuedBy
  <2>3. CASE call[c].mode = "rescue"
    <3>1. Goto(c, "fail") /\ "fail" \in Pcs
      BY <2>3 DEF Failed, Pcs
    <3> QED
      BY <1>3, <2>3, <3>1, GoesTo
  <2> QED
    BY <2>1, <2>2, <2>3
<1> QED
  BY <1>2, <1>3

\* A snapshot of an attempt goes on to the candidate or to the end of the attempt; a
\* restore is done.
LEMMA IndexedGoes ==
    ASSUME Rows, NEW c \in Callers, CreateSnapshot(c)
    PROVE  \/ c = Operator /\ call[c].mode = "restore" /\ Done(c)
           \/ c = Operator /\ call[c].mode = "revert" /\ Goes(c, "candidate")
           \/ c # Operator /\ call[c].mode = "accept" /\ Goes(c, "candidate")
           \/ c # Operator /\ call[c].mode = "recover" /\ Goes(c, "commit")
           \/ c # Operator /\ call[c].mode = "rescue" /\ Goes(c, "fail")
<1>1. CallAt(c) /\ At(c, "index")
  BY CallTypes DEF CreateSnapshot
<1>2. IF c = Operator THEN call[c].mode \in {"restore", "revert"} ELSE call[c].mode \in {"accept", "recover", "rescue"}
  BY <1>1 DEF CallAt, CallOfTask, CallOfOperator, At, Persists
<1>3. {"candidate", "commit", "fail"} \subseteq Pcs
  BY DEF Pcs
<1>4. CASE call[c].mode = "restore"
  BY <1>2, <1>4 DEF CreateSnapshot
<1>5. CASE call[c].mode \in {"accept", "revert"}
  <2>1. Goto(c, "candidate")
    BY <1>5 DEF CreateSnapshot
  <2> QED
    BY <1>2, <1>3, <1>5, <2>1, GoesTo
<1>6. CASE call[c].mode = "recover"
  <2>1. Goto(c, "commit")
    BY <1>6 DEF CreateSnapshot
  <2> QED
    BY <1>2, <1>3, <1>6, <2>1, GoesTo
<1>7. CASE call[c].mode = "rescue"
  <2>1. Goto(c, "fail")
    BY <1>7 DEF CreateSnapshot
  <2> QED
    BY <1>2, <1>3, <1>7, <2>1, GoesTo
<1> QED
  BY <1>2, <1>4, <1>5, <1>6, <1>7

\* After the candidate a revert is done, and an attempt is committed or fails.
LEMMA CandidateGoes ==
    ASSUME Rows, NEW c \in Callers, UpdateCandidate(c) \/ UpdateCandidateFails(c)
    PROVE  \/ c = Operator /\ call[c].mode = "revert" /\ Done(c)
           \/ c # Operator /\ call[c].mode = "accept" /\ UpdateCandidate(c) /\ Goes(c, "commit")
           \/ c # Operator /\ call[c].mode = "accept" /\ UpdateCandidateFails(c) /\ Goes(c, "fail")
<1>1. CallAt(c) /\ At(c, "candidate")
  BY CallTypes DEF UpdateCandidate, UpdateCandidateFails
<1>2. IF c = Operator THEN call[c].mode = "revert" ELSE call[c].mode = "accept"
  BY <1>1 DEF CallAt, CallOfTask, CallOfOperator, At, Persists
<1>3. {"commit", "fail"} \subseteq Pcs
  BY DEF Pcs
<1>4. CASE UpdateCandidate(c)
  <2>1. IF call[c].mode = "revert" THEN Done(c) ELSE Goto(c, "commit")
    BY <1>4 DEF UpdateCandidate
  <2> QED
    BY <1>2, <1>3, <1>4, <2>1, GoesTo
<1>5. CASE UpdateCandidateFails(c)
  <2>1. IF call[c].mode = "revert" THEN Done(c) ELSE Goto(c, "fail")
    BY <1>5 DEF UpdateCandidateFails
  <2> QED
    BY <1>2, <1>3, <1>5, <2>1, GoesTo
<1> QED
  BY <1>4, <1>5

\* A verified result begins a snapshot, any other is rescued.
LEMMA VerifyGoes ==
    ASSUME Rows, NEW c \in Calls, Verify(c)
    PROVE  \/ /\ Verified(c) /\ Authorized(c) /\ ids < SnapshotBound /\ ids' = ids + 1
              /\ Begins(c, Len(commits), call[c].out)
           \/ UNCHANGED ids /\ Rescued(c)
<1>1. c \in Callers /\ ids \in 0 .. SnapshotBound /\ SnapshotBound \in Nat
  BY Numbers DEF Rows
<1>2. CASE Verified(c) /\ Authorized(c)
  <2>1. ids < SnapshotBound /\ ids' = ids + 1 /\ NewSnapshot(c, call[c].out)
    BY <1>2 DEF Verify
  <2>2. ids + 1 \in Ids
    BY <1>1, <2>1 DEF Ids
  <2>3. Begins(c, Len(commits), call[c].out)
    BY <1>1, <2>1, <2>2, CallTypes, SnapshotBegan DEF Begins
  <2> QED
    BY <1>2, <2>1, <2>3
<1>3. CASE ~(Verified(c) /\ Authorized(c))
  <2>1. Rescue(c) /\ UNCHANGED ids
    BY <1>3 DEF Verify
  <2> QED
    BY <1>1, <2>1, RescuedBy
<1> QED
  BY <1>2, <1>3

\* What is in a worktree is committed first; either way its head is what is persisted.
LEMMA CaptureGoes ==
    ASSUME Rows, Owned, NEW c \in Calls, CaptureRecovery(c)
    PROVE  /\ ids < SnapshotBound /\ ids' = ids + 1 /\ UNCHANGED <<refs, restores, db, asked, faults, past>>
           /\ OnlyTree(call[c].ws, Len(commits')) /\ Len(commits') \in Nat
           /\ trees'[call[c].ws].state = trees[call[c].ws].state
           /\ trees'[call[c].ws].used = trees[call[c].ws].used
           /\ trees'[call[c].ws].busy = trees[call[c].ws].busy
           /\ trees'[call[c].ws].dirty = FALSE /\ trees'[call[c].ws].head # 0
           /\ Begins(c, Len(commits'), trees'[call[c].ws].head)
           /\ UNCHANGED commits \/ Commit({Tree(c).head})
<1> DEFINE N == Len(commits)
           w == call[c].ws
<1>0. /\ c \in Callers /\ N \in Nat /\ call \in [Callers -> CallRow(N)] /\ trees \in [Workspaces -> TreeRow(N)]
      /\ ids \in 0 .. SnapshotBound /\ SnapshotBound \in Nat
  BY CallTypes, Numbers DEF Rows
<1>1. /\ ids < SnapshotBound /\ ids' = ids + 1 /\ At(c, "capture")
      /\ UNCHANGED <<refs, restores, db, asked, faults, past>>
  BY DEF CaptureRecovery
<1>2. ids + 1 \in Ids
  BY <1>0, <1>1 DEF Ids
<1>3. ~At(c, "idle") /\ w \in Workspaces
  BY <1>0, <1>1, CallTypes, Numbers DEF At
<1>4. trees[w].head # 0 /\ trees[w].head \in 0 .. N /\ trees[w] \in TreeRow(N)
  BY <1>0, <1>1, <1>3 DEF Owned, TreeOfCall, TreeAt, Tree, At, TreeRow
<1>5. CASE Tree(c).dirty
  <2>1. /\ Commit({Tree(c).head}) /\ NewSnapshot(c, NewCommit)
        /\ trees' = [trees EXCEPT ![w].dirty = FALSE, ![w].head = NewCommit]
    BY <1>5 DEF CaptureRecovery
  <2>2. PICK M \in Nat : M = Len(commits') /\ NewCommit \in 1 .. M /\ NewCommit \in 0 .. M /\ Upto(M)
    <3>1. {Tree(c).head} \in SUBSET (1 .. Len(commits))
      BY <1>0, <1>4 DEF Tree
    <3>2. /\ Len(commits') = Len(commits) + 1 /\ NewCommit \in 1 .. Len(commits') /\ Upto(Len(commits'))
      BY <2>1, <3>1, Committed
    <3> QED
      BY <1>0, <3>2
  <2>3. /\ OnlyTree(w, M) /\ trees'[w].state = trees[w].state /\ trees'[w].head = NewCommit
        /\ trees'[w].dirty = FALSE /\ trees'[w].busy = trees[w].busy /\ trees'[w].used = trees[w].used
    BY <1>3, <2>1, <2>2, TreeCommitted, ZenonT(60) DEF Upto
  <2>4. Begins(c, M, NewCommit)
    BY <1>0, <1>2, <2>1, <2>2, SnapshotBegan DEF Begins, Upto
  <2> QED
    BY <1>1, <2>1, <2>2, <2>3, <2>4
<1>6. CASE ~Tree(c).dirty
  <2>1. NewSnapshot(c, Tree(c).head) /\ UNCHANGED <<commits, trees>>
    BY <1>6 DEF CaptureRecovery
  <2>2. Begins(c, N, trees[w].head)
    BY <1>0, <1>2, <1>4, <2>1, SnapshotBegan DEF Begins, Tree
  <2>3. OnlyTree(w, N) /\ trees[w].dirty = FALSE
    BY <1>0, <1>4, <1>6, <2>1 DEF OnlyTree, Tree, TreeRow
  <2> QED
    BY <1>0, <1>1, <1>4, <2>1, <2>2, <2>3
<1> QED
  BY <1>5, <1>6

-----------------------------------------------------------------------------
(* Which tree belongs to whom. *)

\* A caller that is done, or goes on with the task and the tree that it has; past the
\* dispatch it may be without its lease.
CallKept(c) ==
    \/ call'[c] = Idle
    \/ /\ SamePlace(c) /\ call[c].pc # "idle"
       /\ call'[c].held => call[c].held
       /\ call[c].pc \in Starts => call'[c].held
       /\ \/ call'[c].pc = call[c].pc
          \/ call[c].pc \notin Starts /\ call'[c].pc \notin Starts \cup {"idle", "run"}

\* A tree is left alone, unless an agent has worked in it.
TreeKept(w) ==
    \/ trees'[w] = trees[w]
    \/ /\ trees'[w].state = trees[w].state /\ trees'[w].used = trees[w].used /\ trees[w].used # {}
       /\ trees'[w].state = "tree" => trees'[w].head # 0
       /\ trees'[w].busy => trees[w].busy

\* A task is left alone, unless nobody works for it with a lease.
TaskKept(s) ==
    \/ tasks'[s] = tasks[s]
    \/ /\ tasks'[s].success <= tasks'[s].attempt /\ tasks'[s].wsAttempt <= tasks'[s].attempt
       /\ tasks'[s].ws \in {0, tasks[s].ws}
       /\ ~(tasks'[s].state = "READY" /\ Stored(tasks'[s]))
       /\ \A c \in Calls : call'[c].pc # "idle" /\ call'[c].step = s => ~call'[c].held

\* A call that leaves its agent has ended it.
AgentKept(c) == call[c].pc = "run" /\ call'[c].pc \notin {"run", "idle"} => ~trees'[call[c].ws].busy

\* What may be used of the trees and the tasks.
LEMMA OwnedTypes ==
    ASSUME Rows, Owned
    PROVE  /\ \A s \in Steps : tasks[s] \in TaskRow(Len(commits)) /\ tasks[s].ws \in {0} \cup Workspaces
           /\ \A c \in Callers : call[c].held \in BOOLEAN
           /\ \A c \in Calls : ~At(c, "idle") =>
                 /\ call[c].step \in Steps /\ call[c].ws \in Workspaces /\ call[c].ws # 0
                 /\ TreeOfCall(c) /\ TaskOfCall(c)
                 /\ call[c].pc \in Starts => call[c].held
           /\ \A w \in Workspaces : trees[w] \in TreeRow(Len(commits)) /\ w # 0 /\ TreeAt(w)
           /\ \A s \in Steps : WorkspaceOfTask(s)
<1>1. ASSUME NEW c \in Callers
      PROVE  call[c].held \in BOOLEAN
  BY CallTypes DEF CallRow
<1>2. ASSUME NEW c \in Calls, ~At(c, "idle")
      PROVE  /\ call[c].step \in Steps /\ call[c].ws \in Workspaces /\ call[c].ws # 0
             /\ TreeOfCall(c) /\ TaskOfCall(c)
             /\ call[c].pc \in Starts => call[c].held
  <2>1. c \in Callers /\ c # Operator
    BY Numbers
  <2>2. call[c].step \in Steps /\ call[c].ws \in Workspaces /\ CallAt(c)
    BY <1>2, <2>1, CallTypes
  <2>3. call[c].pc \in Starts => call[c].held
    BY <1>2, <2>1, <2>2 DEF CallAt, CallOfTask, At
  <2> QED
    BY <1>2, <2>2, <2>3, Numbers DEF Owned
<1>3. \A s \in Steps : tasks[s] \in TaskRow(Len(commits)) /\ tasks[s].ws \in {0} \cup Workspaces
  BY DEF Rows, Upto, TaskRow
<1>4. \A w \in Workspaces : trees[w] \in TreeRow(Len(commits)) /\ w # 0 /\ TreeAt(w)
  BY Numbers DEF Rows, Upto, Owned
<1> QED
  BY <1>1, <1>2, <1>3, <1>4 DEF Owned

\* A step that keeps the callers, the trees and the tasks keeps who owns what.
LEMMA OwnedStays ==
    ASSUME Rows, Owned, \A c \in Callers : CallKept(c), \A w \in Workspaces : TreeKept(w),
           \A s \in Steps : TaskKept(s), \A c \in Calls : AgentKept(c)
    PROVE  Owned'
<1>0. /\ \A c \in Calls : c \in Callers
      /\ Idle.pc = "idle" /\ Idle.held = FALSE
  BY Numbers, IdleRow
<1>1. \A c, d \in Callers : call'[c].held /\ call'[d].held => c = d
  BY <1>0 DEF Owned, CallKept
<1>2. \A c, d \in Calls : c # d /\ call'[c].pc # "idle" /\ call'[d].pc # "idle" => call'[c].ws # call'[d].ws
  BY <1>0 DEF Owned, CallKept, SamePlace, At
<1>3. \A s, r \in Steps : s # r /\ tasks'[s].ws # 0 => tasks'[s].ws # tasks'[r].ws
  BY DEF Owned, TaskKept
<1>4. ASSUME NEW c \in Calls, call'[c].pc # "idle"
      PROVE  TreeOfCall(c)' /\ TaskOfCall(c)'
  <2>1. /\ call'[c].step = call[c].step /\ call'[c].attempt = call[c].attempt /\ call'[c].ws = call[c].ws
        /\ call'[c].in = call[c].in /\ call[c].pc # "idle"
        /\ call'[c].held => call[c].held
        /\ call[c].pc \in Starts => call'[c].held
        /\ \/ call'[c].pc = call[c].pc
           \/ call[c].pc \notin Starts /\ call'[c].pc \notin Starts \cup {"idle", "run"}
    BY <1>0, <1>4 DEF CallKept, SamePlace
  <2>2. /\ call[c].step \in Steps /\ call[c].ws \in Workspaces /\ call[c].ws # 0
        /\ TreeOfCall(c) /\ TaskOfCall(c)
    BY <2>1, OwnedTypes DEF At
  <2>3. TreeOfCall(c)'
    <3>1. TreeKept(call[c].ws) /\ AgentKept(c)
      BY <2>2
    <3>2. CASE trees'[call[c].ws] = trees[call[c].ws]
      BY <2>1, <2>2, <3>1, <3>2 DEF TreeOfCall, Tree, Attempt, AgentKept, Starts
    <3>3. CASE /\ trees'[call[c].ws].state = trees[call[c].ws].state
               /\ trees'[call[c].ws].used = trees[call[c].ws].used /\ trees[call[c].ws].used # {}
               /\ trees'[call[c].ws].busy => trees[call[c].ws].busy
      <4>1. call[c].pc \notin Starts
        BY <2>2, <3>3 DEF TreeOfCall, Tree
      <4> QED
        BY <2>1, <2>2, <3>1, <3>3, <4>1 DEF TreeOfCall, Tree, Attempt, AgentKept, Starts
    <3> QED
      BY <3>1, <3>2, <3>3 DEF TreeKept
  <2>4. TaskOfCall(c)'
    <3>1. TaskKept(call[c].step)
      BY <2>2
    <3>2. call'[c].pc \in Starts => call'[c].pc = call[c].pc /\ call'[c].held
      BY <2>1
    <3>3. tasks'[call[c].step] = tasks[call[c].step] \/ ~call'[c].held
      BY <1>4, <2>1, <3>1 DEF TaskKept
    <3>4. call'[c].pc \in {"prepare", "record"} => \A s \in Steps : tasks'[s].ws # call[c].ws
      <4>1. call'[c].pc \in {"prepare", "record"} => \A s \in Steps : tasks[s].ws # call[c].ws
        BY <2>2, <3>2 DEF TaskOfCall, Starts
      <4> QED
        BY <2>2, <4>1 DEF TaskKept
    <3>5. CASE tasks'[call[c].step] = tasks[call[c].step]
      BY <2>1, <2>2, <3>2, <3>4, <3>5 DEF TaskOfCall, Starts
    <3>6. CASE ~call'[c].held
      BY <2>1, <2>2, <3>2, <3>4, <3>6 DEF TaskOfCall, Starts
    <3> QED
      BY <3>3, <3>5, <3>6
  <2> QED
    BY <2>3, <2>4
<1>5. ASSUME NEW w \in Workspaces
      PROVE  TreeAt(w)'
  <2>1. TreeAt(w) /\ TreeKept(w)
    BY OwnedTypes
  <2> QED
    BY <2>1 DEF TreeAt, TreeKept
<1>6. ASSUME NEW s \in Steps
      PROVE  WorkspaceOfTask(s)'
  <2>1. /\ WorkspaceOfTask(s) /\ TaskKept(s) /\ tasks[s].ws \in {0} \cup Workspaces
        /\ \A w \in Workspaces : w # 0 /\ TreeKept(w)
    BY OwnedTypes
  <2>2. CASE tasks'[s] = tasks[s]
    <3>1. CASE tasks[s].ws = 0
      BY <2>1, <2>2, <3>1 DEF WorkspaceOfTask, Stored
    <3>2. CASE tasks[s].ws \in Workspaces
      BY <2>1, <2>2, <3>2 DEF WorkspaceOfTask, Stored, TreeKept
    <3> QED
      BY <2>1, <3>1, <3>2
  <2>3. CASE tasks'[s] # tasks[s]
    <3>1. /\ tasks'[s].success <= tasks'[s].attempt /\ tasks'[s].wsAttempt <= tasks'[s].attempt
          /\ tasks'[s].ws \in {0, tasks[s].ws} /\ ~(tasks'[s].state = "READY" /\ Stored(tasks'[s]))
      BY <2>1, <2>3 DEF TaskKept
    <3>2. tasks'[s].ws # 0 => trees'[tasks'[s].ws].state = "tree"
      BY <2>1, <3>1 DEF WorkspaceOfTask, TreeKept
    <3> QED
      BY <3>1, <3>2 DEF WorkspaceOfTask, Stored
  <2> QED
    BY <2>2, <2>3
<1> QED
  BY <1>1, <1>2, <1>3, <1>4, <1>5, <1>6 DEF Owned, At

\* A caller whose row is left alone is kept.
LEMMA OthersKept ==
    ASSUME Rows, Owned, NEW d \in Callers, call'[d] = call[d]
    PROVE  CallKept(d)
<1>1. CallAt(d)
  BY DEF Rows
<1>2. CASE call[d].pc = "idle"
  BY <1>1, <1>2 DEF CallAt, CallKept
<1>3. CASE call[d].pc # "idle"
  <2>1. call[d].pc \in Starts => call[d].held
    BY <1>1, <1>3 DEF CallAt, CallOfTask, CallOfOperator
  <2> QED
    BY <1>3, <2>1 DEF CallKept, SamePlace
<1> QED
  BY <1>2, <1>3

\* One caller moves on, in its tree at most.
LEMMA OwnedMoves ==
    ASSUME Rows, Owned, NEW n \in Nat, NEW c \in Callers, OnlyCall(c, n), CallKept(c),
           UNCHANGED tasks,
           \/ UNCHANGED trees /\ (call'[c].pc = "idle" \/ call[c].pc # "run")
           \/ /\ c \in Calls /\ OnlyTree(call[c].ws, n) /\ TreeKept(call[c].ws) /\ AgentKept(c)
    PROVE  Owned'
<1>1. \A d \in Callers : CallKept(d)
  BY OthersKept DEF OnlyCall
<1>2. \A w \in Workspaces : TreeKept(w)
  BY DEF TreeKept, OnlyTree
<1>3. \A s \in Steps : TaskKept(s)
  BY DEF TaskKept
<1>4. ASSUME NEW d \in Calls
      PROVE  AgentKept(d)
  <2>1. CASE d # c
    BY <2>1, Numbers DEF AgentKept, OnlyCall
  <2>2. CASE d = c
    BY <2>2 DEF AgentKept
  <2> QED
    BY <2>1, <2>2
<1> QED
  BY <1>1, <1>2, <1>3, <1>4, OwnedStays

\* A caller is done.
LEMMA OwnedDone ==
    ASSUME Rows, Owned, NEW c \in Callers, Done(c), UNCHANGED <<trees, tasks>>
    PROVE  Owned'
<1>1. OnlyCall(c, Len(commits)) /\ call'[c] = Idle /\ Len(commits) \in Nat
  BY DoneAt, CallTypes
<1>2. CallKept(c) /\ call'[c].pc = "idle"
  BY <1>1, IdleRow DEF CallKept
<1> QED
  BY <1>1, <1>2, OwnedMoves

\* The tree of a call that has been dispatched may be worked in.
LEMMA UsedTree ==
    ASSUME Rows, Owned, NEW c \in Calls, ~At(c, "idle"), ~Starting(c)
    PROVE  /\ call[c].ws \in Workspaces /\ trees[call[c].ws].used = {Attempt(c)}
           /\ trees[call[c].ws].used # {} /\ trees[call[c].ws].state = "tree"
           /\ trees[call[c].ws].head # 0 /\ trees[call[c].ws] \in TreeRow(Len(commits))
           /\ (trees[call[c].ws].busy => call[c].pc = "run")
<1>1. call[c].ws \in Workspaces /\ TreeOfCall(c) /\ TreeAt(call[c].ws) /\ trees[call[c].ws] \in TreeRow(Len(commits))
  BY OwnedTypes
<1>2. call[c].pc \notin Starts /\ call[c].pc # "prepare"
  BY DEF Starting, Starts
<1> QED
  BY <1>1, <1>2 DEF TreeOfCall, TreeAt, Tree

\* An agent ends with a result or without one.
LEMMA OwnedTurning ==
    ASSUME Rows, Owned, NEW c \in Calls, Completes(c) \/ Reports(c) \/ AgentFails(c)
    PROVE  Owned'
<1> DEFINE N == Len(commits)
           w == call[c].ws
<1>0. /\ c \in Callers /\ N \in Nat /\ call \in [Callers -> CallRow(N)]
      /\ trees \in [Workspaces -> TreeRow(N)] /\ call[c].held \in BOOLEAN
  BY CallTypes, OwnedTypes, Numbers
<1>1. At(c, "run") /\ ~At(c, "idle") /\ ~Starting(c) /\ UNCHANGED tasks
  BY DEF Completes, Reports, AgentFails, At, Starting, db
<1>2. /\ w \in Workspaces /\ trees[w].used # {} /\ trees[w].head # 0
  BY <1>1, UsedTree
<1>3. /\ OnlyTree(w, N) /\ trees'[w].state = trees[w].state /\ trees'[w].head = trees[w].head
      /\ trees'[w].busy = FALSE /\ trees'[w].used = trees[w].used
  BY <1>0, <1>2, TreeEnded DEF Completes, Reports, AgentFails, AgentEnds
<1>4. /\ OnlyCall(c, N) /\ SamePlace(c) /\ call'[c].pc \in {"verify", "capture"}
      /\ call'[c].held = call[c].held
  <2>1. CASE Completes(c)
    <3>1. PICK out \in 1 .. N : call' = [call EXCEPT ![c].pc = "verify", ![c].mode = "accept", ![c].out = out]
      BY <2>1 DEF Completes
    <3>2. out \in 0 .. N
      BY <1>0
    <3> QED
      BY <1>0, <3>1, <3>2, WasCompleted
  <2>2. CASE Reports(c)
    <3>1. PICK s \in {"FAILED", "SUCCEEDED"} :
             call' = [call EXCEPT ![c].pc = "capture", ![c].mode = "recover", ![c].result = s]
      BY <2>2 DEF Reports
    <3> QED
      BY <1>0, <3>1, WasReported
  <2>3. CASE AgentFails(c)
    BY <1>0, <2>3, WasRescued DEF AgentFails
  <2> QED
    BY <2>1, <2>2, <2>3
<1>5. CallKept(c) /\ TreeKept(w) /\ AgentKept(c)
  BY <1>1, <1>2, <1>3, <1>4 DEF CallKept, TreeKept, AgentKept, At, Starts
<1> QED
  BY <1>0, <1>1, <1>3, <1>4, <1>5, OwnedMoves


\* A call past its agent goes on past its agent.
LEMMA OwnedGoes ==
    ASSUME Rows, Owned, NEW c \in Callers, NEW n \in Nat, UNCHANGED <<trees, tasks>>,
           OnlyCall(c, n), SamePlace(c), call'[c].held = call[c].held,
           call[c].pc \notin Starts \cup {"idle", "run"}, call'[c].pc \notin Starts \cup {"idle", "run"}
    PROVE  Owned'
<1>1. CallKept(c)
  BY DEF CallKept
<1> QED
  BY <1>1, OwnedMoves

\* What is checked and captured before it is persisted.
LEMMA OwnedCapturing ==
    ASSUME Rows, Owned, NEW c \in Calls, Verify(c) \/ CaptureRecovery(c) \/ CaptureFails(c)
    PROVE  Owned'
<1>0. /\ c \in Callers /\ Len(commits) \in Nat /\ c # Operator
      /\ call[c].pc \in {"verify", "capture"}
  BY CallTypes, Numbers DEF Verify, CaptureRecovery, CaptureFails, At
<1>1. CASE Verify(c)
  <2>1. UNCHANGED <<trees, tasks>>
    BY <1>1 DEF Verify, disk, db
  <2>2. /\ OnlyCall(c, Len(commits)) /\ SamePlace(c) /\ call'[c].held = call[c].held
        /\ call'[c].pc \in {"pin", "capture"}
    BY <1>1, VerifyGoes DEF Begins, Rescued
  <2> QED
    BY <1>0, <2>1, <2>2, OwnedGoes DEF Starts
<1>2. CASE CaptureRecovery(c)
  <2> DEFINE w == call[c].ws
  <2>1. PICK M \in Nat :
           /\ OnlyTree(w, M) /\ OnlyCall(c, M) /\ UNCHANGED tasks
           /\ trees'[w].state = trees[w].state /\ trees'[w].used = trees[w].used
           /\ trees'[w].busy = trees[w].busy /\ trees'[w].head # 0
           /\ SamePlace(c) /\ call'[c].pc = "pin" /\ call'[c].held = call[c].held
    BY <1>2, CaptureGoes DEF Begins, db
  <2>2. trees[w].used # {} /\ ~trees[w].busy
    BY <1>0, UsedTree DEF At, Starting
  <2>3. CallKept(c) /\ TreeKept(w) /\ AgentKept(c)
    BY <1>0, <2>1, <2>2 DEF CallKept, TreeKept, AgentKept, Starts
  <2> QED
    BY <1>0, <2>1, <2>3, OwnedMoves
<1>3. CASE CaptureFails(c)
  <2>1. UNCHANGED <<trees, tasks>> /\ Failed(c) /\ At(c, "capture")
    BY <1>3 DEF CaptureFails, disk, db
  <2>2. CASE Done(c)
    BY <1>0, <2>1, <2>2, OwnedDone
  <2>3. CASE Goes(c, "cleanup") \/ Goes(c, "fail") \/ Rescued(c)
    <3>1. /\ OnlyCall(c, Len(commits)) /\ SamePlace(c) /\ call'[c].held = call[c].held
          /\ call'[c].pc \in {"cleanup", "fail", "capture"}
      BY <2>3 DEF Goes, Rescued
    <3> QED
      BY <1>0, <2>1, <3>1, OwnedGoes DEF Starts
  <2> QED
    BY <1>0, <2>1, <2>2, <2>3, FailedGoes
<1> QED
  BY <1>1, <1>2, <1>3

\* The ref, the row and the candidate.
LEMMA OwnedPersisting ==
    ASSUME Rows, Owned, NEW c \in Callers, Snapshot(c)
    PROVE  Owned'
<1>1. /\ Len(commits) \in Nat /\ UNCHANGED <<trees, tasks>> /\ call[c].pc \in {"pin", "index", "candidate"}
  BY CallTypes DEF Snapshot, PinSnapshot, PinFails, CreateSnapshot, CreateSnapshotFails, UpdateCandidate,
                   UpdateCandidateFails, disk, db, At
<1>2. \/ Done(c)
      \/ /\ OnlyCall(c, Len(commits)) /\ SamePlace(c) /\ call'[c].held = call[c].held
         /\ call'[c].pc \in {"index", "candidate", "commit", "cleanup", "fail", "capture"}
  <2>1. CASE PinSnapshot(c)
    <3>1. Goto(c, "index") /\ "index" \in Pcs
      BY <2>1 DEF PinSnapshot, Pcs
    <3> QED
      BY <3>1, GoesTo DEF Goes
  <2>2. CASE PinFails(c) \/ CreateSnapshotFails(c)
    <3>1. Persisting(c) /\ Failed(c)
      BY <2>2 DEF PinFails, CreateSnapshotFails, At, Persisting, Persists
    <3> QED
      BY <3>1, FailedGoes DEF Goes, Rescued
  <2>3. CASE CreateSnapshot(c)
    BY <2>3, IndexedGoes DEF Goes
  <2>4. CASE UpdateCandidate(c) \/ UpdateCandidateFails(c)
    BY <2>4, CandidateGoes DEF Goes
  <2> QED
    BY <2>1, <2>2, <2>3, <2>4 DEF Snapshot
<1> QED
  BY <1>1, <1>2, OwnedDone, OwnedGoes DEF Starts

\* The agent works in its tree.
LEMMA OwnedWorking ==
    ASSUME Rows, Owned, NEW w \in Workspaces,
           AgentEdits(w) \/ AgentCommits(w) \/ AgentChecksOut(w) \/ AgentMerges(w)
    PROVE  Owned'
<1>1. UNCHANGED <<call, tasks>> /\ trees[w].busy
  BY DEF AgentEdits, AgentCommits, AgentChecksOut, AgentMerges, Working, db
<1>2. /\ trees \in [Workspaces -> TreeRow(Len(commits))] /\ Len(commits) \in Nat
      /\ trees[w].used # {} /\ trees[w].head # 0 /\ trees[w].head \in 0 .. Len(commits)
  <2>1. TreeAt(w) /\ trees \in [Workspaces -> TreeRow(Len(commits))] /\ Len(commits) \in Nat
    BY Numbers DEF Rows, Upto, Owned
  <2> QED
    BY <1>1, <2>1 DEF TreeAt, TreeRow
<1>3. PICK M \in Nat : /\ OnlyTree(w, M) /\ trees'[w].state = trees[w].state /\ trees'[w].head # 0
                       /\ trees'[w].busy = trees[w].busy /\ trees'[w].used = trees[w].used
  <2>1. CASE AgentEdits(w)
    BY <1>2, <2>1, TreeEdited DEF AgentEdits
  <2>2. CASE AgentCommits(w) \/ AgentMerges(w)
    <3>1. \/ trees' = [trees EXCEPT ![w].dirty = FALSE, ![w].head = NewCommit]
          \/ trees' = [trees EXCEPT ![w].head = NewCommit]
      BY <2>2 DEF AgentCommits, AgentMerges
    <3>2. PICK M \in Nat : /\ NewCommit \in 0 .. M /\ NewCommit # 0 /\ trees \in [Workspaces -> TreeRow(M)]
      <4>1. Len(commits) + 1 \in Nat /\ Len(commits) <= Len(commits) + 1
        BY <1>2
      <4>2. Upto(Len(commits) + 1)
        BY <1>2, <4>1, Grown DEF Rows
      <4> QED
        BY <1>2, <4>1, <4>2, SMTT(20) DEF NewCommit, Upto
    <3>3. CASE trees' = [trees EXCEPT ![w].dirty = FALSE, ![w].head = NewCommit]
      BY <3>2, <3>3, TreeCommitted
    <3>4. CASE trees' = [trees EXCEPT ![w].head = NewCommit]
      BY <3>2, <3>4, TreeMoved
    <3> QED
      BY <3>1, <3>3, <3>4
  <2>3. CASE AgentChecksOut(w)
    <3>1. PICK c \in 1 .. Len(commits) : trees' = [trees EXCEPT ![w].head = c]
      BY <2>3 DEF AgentChecksOut
    <3>2. c \in 0 .. Len(commits) /\ c # 0
      BY <1>2, <3>1
    <3> QED
      BY <1>2, <3>1, <3>2, TreeMoved
  <2> QED
    BY <2>1, <2>2, <2>3
<1>4. \A c \in Callers : CallKept(c)
  BY <1>1, OthersKept
<1>5. \A v \in Workspaces : TreeKept(v)
  BY <1>2, <1>3 DEF TreeKept, OnlyTree
<1>6. (\A s \in Steps : TaskKept(s)) /\ (\A c \in Calls : AgentKept(c))
  BY <1>1 DEF TaskKept, AgentKept
<1> QED
  BY <1>4, <1>5, <1>6, OwnedStays

\* One task moves on that no call with a lease works for.
LEMMA OwnedTask ==
    ASSUME Rows, Owned, NEW n \in Nat, NEW s \in Steps, OnlyTask(s, n), TaskKept(s), UNCHANGED trees,
           \A c \in Callers : CallKept(c) /\ call'[c].pc \in {call[c].pc, "idle"}
    PROVE  Owned'
<1>1. \A r \in Steps : TaskKept(r)
  BY DEF OnlyTask, TaskKept
<1>2. \A w \in Workspaces : TreeKept(w)
  BY DEF TreeKept
<1>3. \A c \in Calls : AgentKept(c)
  BY Numbers DEF AgentKept
<1> QED
  BY <1>1, <1>2, <1>3, OwnedStays

\* A call with a lease works for a task that is READY or RUNNING.
LEMMA HeldTask ==
    ASSUME Rows, Owned, NEW c \in Calls, call[c].held
    PROVE  /\ call[c].pc # "idle" /\ call[c].step \in Steps
           /\ tasks[call[c].step].attempt = call[c].attempt
           /\ tasks[call[c].step].state = (IF Starting(c) THEN "READY" ELSE "RUNNING")
<1>1. call[c].pc # "idle"
  BY CallTypes, IdleRow, Numbers DEF CallAt
<1> QED
  BY <1>1, OwnedTypes DEF TaskOfCall, Starts, Starting, At

\* The end of an attempt, of a lease and of a process.
LEMMA OwnedEnding ==
    ASSUME Rows, Owned, NEW c \in Callers,
           Crash(c) \/ (c \in Calls /\ (\/ CommitResult(c) \/ CommitResultFails(c)
                                      \/ CommitFailure(c) \/ LoseLease(c)))
    PROVE  Owned'
<1>0. /\ Len(commits) \in Nat /\ call \in [Callers -> CallRow(Len(commits))]
      /\ tasks \in [Steps -> TaskRow(Len(commits))] /\ call[c].attempt \in 0 .. MaxAttempts
  BY CallTypes
<1>1. CASE Crash(c)
  BY <1>1, OwnedDone DEF Crash, disk, db
<1>2. ASSUME c \in Calls, ~At(c, "idle"), ~Starting(c), NEW state \in {"FAILED", "SUCCEEDED"},
             NEW a \in {call[c].attempt, Success(c)}, Decide(c, state, a)
      PROVE  Owned'
  <2>1. Done(c) /\ UNCHANGED trees
    BY <1>2 DEF Decide, disk
  <2>2. CASE ~call[c].held
    BY <1>2, <2>1, <2>2, OwnedDone DEF Decide
  <2>3. CASE call[c].held
    <3>1. PICK s \in Steps : s = call[c].step /\ tasks[s].attempt = call[c].attempt
      BY <1>2, <2>3, HeldTask
    <3>2. tasks[s] \in TaskRow(Len(commits)) /\ WorkspaceOfTask(s)
      BY <1>0, OwnedTypes
    <3>3. /\ a \in 0 .. MaxAttempts /\ a \in {call[c].attempt, tasks[s].success}
          /\ tasks' = [tasks EXCEPT ![s].state = state, ![s].success = a]
      <4>1. tasks[s].success \in 0 .. MaxAttempts /\ Success(c) = tasks[s].success
        BY <3>1, <3>2 DEF TaskRow, Success
      <4> QED
        BY <1>0, <1>2, <2>3, <3>1, <4>1 DEF Decide
    <3>4. /\ OnlyTask(s, Len(commits)) /\ tasks'[s].state = state /\ tasks'[s].attempt = tasks[s].attempt
          /\ tasks'[s].ws = tasks[s].ws /\ tasks'[s].wsAttempt = tasks[s].wsAttempt /\ tasks'[s].success = a
      <4>1. state \in States
        BY DEF States
      <4>2. tasks' = [tasks EXCEPT ![s].state = state, ![s].success = a]
        BY <3>3
      <4>3. tasks \in [Steps -> TaskRow(Len(commits))] /\ Len(commits) \in Nat /\ a \in 0 .. MaxAttempts
        BY <1>0, <3>3
      <4>4. OnlyTask(s, Len(commits))
        BY <4>1, <4>2, <4>3, TaskDecided
      <4>5. /\ tasks'[s].state = state /\ tasks'[s].attempt = tasks[s].attempt
            /\ tasks'[s].ws = tasks[s].ws /\ tasks'[s].wsAttempt = tasks[s].wsAttempt
        BY <4>1, <4>2, <4>3, TaskDecided
      <4>6. tasks'[s].success = a
        BY <4>1, <4>2, <4>3 DEF TaskRow
      <4> QED
        BY <4>4, <4>5, <4>6
    <3>5. OnlyCall(c, Len(commits)) /\ call'[c] = Idle /\ Idle.pc = "idle" /\ Idle.held = FALSE
      BY <1>0, <2>1, DoneAt, IdleRow
    <3>6. \A d \in Calls : call'[d].pc # "idle" => ~call'[d].held
      BY <2>3, <3>5, Numbers DEF Owned, OnlyCall
    <3>7. TaskKept(s)
      <4>1. /\ tasks[s].success <= tasks[s].attempt /\ tasks[s].wsAttempt <= tasks[s].attempt
            /\ call[c].attempt <= tasks[s].attempt
        BY <1>0, <3>1, <3>2 DEF WorkspaceOfTask, TaskRow
      <4> QED
        BY <3>3, <3>4, <3>6, <4>1 DEF TaskKept
    <3>8. \A d \in Callers : CallKept(d) /\ call'[d].pc \in {call[d].pc, "idle"}
      BY <3>5, OthersKept DEF OnlyCall, CallKept
    <3> QED
      BY <1>0, <2>1, <3>4, <3>7, <3>8, OwnedTask
  <2> QED
    BY <2>2, <2>3
<1>3. CASE c \in Calls /\ CommitResult(c)
  <2>1. At(c, "commit") /\ call[c].mode \in {"accept", "recover"} /\ call[c].result \in {"none", "FAILED", "SUCCEEDED"}
        /\ (call[c].mode = "recover" => call[c].result # "none")
    <3>1. call[c] \in CallRow(Len(commits)) /\ At(c, "commit") /\ c # Operator /\ CallAt(c)
      BY <1>3, CallTypes, Numbers DEF CommitResult
    <3> QED
      BY <1>0, <3>1 DEF CallAt, CallOfTask, At, CallRow
  <2>2. PICK state \in {"FAILED", "SUCCEEDED"}, a \in {call[c].attempt, Success(c)} : Decide(c, state, a)
    BY <1>3, <2>1 DEF CommitResult
  <2>3. ~At(c, "idle") /\ ~Starting(c)
    BY <2>1 DEF At, Starting
  <2> QED
    BY <1>2, <1>3, <2>2, <2>3
<1>4. CASE c \in Calls /\ CommitFailure(c)
  <2>1. Decide(c, "FAILED", Success(c)) /\ ~At(c, "idle") /\ ~Starting(c)
    BY <1>4 DEF CommitFailure, At, Starting
  <2> QED
    BY <1>2, <1>4, <2>1
<1>6. CASE c \in Calls /\ CommitResultFails(c)
  <2>1. At(c, "commit") /\ Goes(c, "fail") /\ UNCHANGED <<trees, tasks>>
    BY <1>6, GoesTo DEF CommitResultFails, Pcs, disk, db
  <2> QED
    BY <1>0, <2>1, OwnedGoes DEF Goes, At, Starts
<1>5. CASE c \in Calls /\ LoseLease(c)
  <2>1. /\ call[c].held /\ ~Starting(c) /\ UNCHANGED trees
        /\ call' = [call EXCEPT ![c].held = FALSE]
    BY <1>5 DEF LoseLease, disk
  <2>2. PICK s \in Steps : s = call[c].step /\ ~At(c, "idle")
    BY <1>5, <2>1, HeldTask DEF At
  <2>3. /\ OnlyCall(c, Len(commits)) /\ SamePlace(c) /\ call'[c].pc = call[c].pc /\ call'[c].held = FALSE
    BY <1>0, <2>1, LeaseWasLost
  <2>4. /\ OnlyTask(s, Len(commits)) /\ tasks'[s].state = "FAILED" /\ tasks'[s].attempt = tasks[s].attempt
        /\ tasks'[s].ws = tasks[s].ws /\ tasks'[s].wsAttempt = tasks[s].wsAttempt
        /\ tasks'[s].success = tasks[s].success
    <3>1. tasks' = [tasks EXCEPT ![s].state = "FAILED"] /\ "FAILED" \in States
      BY <1>5, <2>2 DEF LoseLease, States
    <3> QED
      BY <1>0, <3>1, TaskMoved
  <2>5. \A d \in Calls : ~call'[d].held
    BY <1>5, <2>1, <2>3, Numbers DEF Owned, OnlyCall
  <2>6. TaskKept(s)
    <3>1. WorkspaceOfTask(s)
      BY OwnedTypes
    <3> QED
      BY <2>4, <2>5, <3>1 DEF TaskKept, WorkspaceOfTask
  <2>7. CallKept(c)
    BY <2>1, <2>2, <2>3 DEF CallKept, Starting, Starts, At
  <2>8. \A d \in Callers : CallKept(d) /\ call'[d].pc \in {call[d].pc, "idle"}
    BY <2>3, <2>7, OthersKept DEF OnlyCall
  <2> QED
    BY <1>0, <2>1, <2>4, <2>6, <2>8, OwnedTask
<1> QED
  BY <1>1, <1>3, <1>4, <1>5, <1>6

\* The tasks and the run beside the calls.
LEMMA OwnedAdvancing ==
    ASSUME Rows, Owned, CreateTask \/ Reap \/ RetryReady \/ ReworkTask \/ Advance
    PROVE  Owned'
<1> DEFINE N == Len(commits)
<1>0. /\ N \in Nat /\ tasks \in [Steps -> TaskRow(N)] /\ run.candidate \in 1 .. N /\ MaxAttempts \in Nat
      /\ 1 \in Attempts /\ Attempts \subseteq 0 .. MaxAttempts
  BY Numbers DEF Rows, Upto
<1>1. UNCHANGED <<trees, call>>
  BY DEF CreateTask, Reap, RetryReady, ReworkTask, Advance, disk
<1>2. \A c \in Callers : CallKept(c) /\ call'[c].pc \in {call[c].pc, "idle"}
  BY <1>1, OthersKept
<1>3. ASSUME NEW s \in Steps, tasks[s].state \notin {"READY", "RUNNING"}
      PROVE  \A c \in Calls : call'[c].pc # "idle" /\ call'[c].step = s => ~call'[c].held
  BY <1>1, <1>3, HeldTask
<1>4. CASE CreateTask
  <2> DEFINE row == [state |-> "READY", attempt |-> 1, in |-> run.candidate, ws |-> 0, wsAttempt |-> 0, success |-> 0]
  <2>1. PICK s \in Steps : tasks[s].state = "none" /\ tasks' = [tasks EXCEPT ![s] = row]
    BY <1>4 DEF CreateTask
  <2>2. /\ row \in TaskRow(N) /\ row.state = "READY" /\ row.attempt = 1 /\ row.ws = 0 /\ row.wsAttempt = 0
        /\ row.success = 0
    BY <1>0 DEF TaskRow, States, Attempts
  <2> HIDE DEF row
  <2>3. OnlyTask(s, N) /\ tasks'[s] = row
    BY <1>0, <2>1, <2>2 DEF OnlyTask
  <2>4. TaskKept(s)
    BY <1>3, <2>1, <2>2, <2>3 DEF TaskKept, Stored
  <2> QED
    BY <1>0, <1>1, <1>2, <2>3, <2>4, OwnedTask
<1>5. CASE Reap
  <2>1. PICK s \in Steps : Alone /\ tasks' = [tasks EXCEPT ![s].state = "FAILED"]
    BY <1>5 DEF Reap
  <2>2. "FAILED" \in States
    BY DEF States
  <2>3. /\ OnlyTask(s, N) /\ tasks'[s].state = "FAILED" /\ tasks'[s].attempt = tasks[s].attempt
        /\ tasks'[s].ws = tasks[s].ws /\ tasks'[s].wsAttempt = tasks[s].wsAttempt
        /\ tasks'[s].success = tasks[s].success
    BY <1>0, <2>1, <2>2, TaskMoved
  <2>4. TaskKept(s)
    <3>1. WorkspaceOfTask(s) /\ \A c \in Calls : ~call'[c].held
      BY <1>1, <2>1, OwnedTypes, Numbers DEF Alone
    <3> QED
      BY <2>3, <3>1 DEF TaskKept, WorkspaceOfTask
  <2> QED
    BY <1>0, <1>1, <1>2, <2>3, <2>4, OwnedTask
<1>6. CASE RetryReady \/ ReworkTask
  <2>1. PICK s \in Steps : /\ tasks[s].state \in {"SUCCEEDED", "FAILED"} /\ tasks[s].attempt < MaxAttempts
                           /\ \/ tasks' = [tasks EXCEPT ![s].state = "READY", ![s].attempt = @ + 1, ![s].ws = 0,
                                                       ![s].wsAttempt = 0]
                              \/ tasks' = [tasks EXCEPT ![s].state = "READY", ![s].attempt = @ + 1]
    BY <1>6 DEF RetryReady, ReworkTask
  <2>2. tasks[s] \in TaskRow(N) /\ tasks[s].attempt \in Nat /\ tasks[s].attempt + 1 \in 0 .. MaxAttempts
    BY <1>0, <2>1 DEF TaskRow
  <2>3. /\ OnlyTask(s, N) /\ tasks'[s].state = "READY" /\ tasks'[s].attempt = tasks[s].attempt + 1
        /\ tasks'[s].success = tasks[s].success
        /\ \/ tasks'[s].ws = 0 /\ tasks'[s].wsAttempt = 0
           \/ tasks'[s].ws = tasks[s].ws /\ tasks'[s].wsAttempt = tasks[s].wsAttempt
    <3>1. CASE tasks' = [tasks EXCEPT ![s].state = "READY", ![s].attempt = @ + 1, ![s].ws = 0,
                                        ![s].wsAttempt = 0]
      BY <1>0, <2>2, <3>1, TaskRetried
    <3>2. CASE tasks' = [tasks EXCEPT ![s].state = "READY", ![s].attempt = @ + 1]
      BY <1>0, <2>2, <3>2, TaskReworked
    <3> QED
      BY <2>1, <3>1, <3>2
  <2>4. TaskKept(s)
    <3>1. WorkspaceOfTask(s) /\ \A c \in Calls : call'[c].pc # "idle" /\ call'[c].step = s => ~call'[c].held
      BY <1>3, <2>1, OwnedTypes
    <3>2. tasks[s].success <= tasks[s].attempt /\ tasks[s].wsAttempt <= tasks[s].attempt
          /\ tasks[s].success \in Nat /\ tasks[s].wsAttempt \in Nat
      BY <2>2, <3>1 DEF WorkspaceOfTask, TaskRow
    <3>3. tasks'[s].success <= tasks'[s].attempt /\ tasks'[s].wsAttempt <= tasks'[s].attempt
      BY <2>2, <2>3, <3>2
    <3>4. ~Stored(tasks'[s])
      BY <2>2, <2>3, <3>2 DEF Stored
    <3> QED
      BY <2>3, <3>1, <3>3, <3>4 DEF TaskKept
  <2> QED
    BY <1>0, <1>1, <1>2, <2>3, <2>4, OwnedTask
<1>7. CASE Advance
  <2>1. UNCHANGED tasks
    BY <1>7 DEF Advance
  <2>2. /\ \A w \in Workspaces : TreeKept(w)
        /\ \A s \in Steps : TaskKept(s)
        /\ \A c \in Calls : AgentKept(c)
    BY <1>1, <2>1 DEF TreeKept, TaskKept, AgentKept
  <2> QED
    BY <1>2, <2>2, OwnedStays
<1> QED
  BY <1>4, <1>5, <1>6, <1>7

\* The commands of the operator.
LEMMA OwnedOperating ==
    ASSUME Rows, Owned, \/ Restore \/ AddRestoreTree \/ AddRestoreTreeFails \/ RestoreIsOrphaned
                        \/ CleanupRestore \/ CleanupRestoreFails \/ Revert
    PROVE  Owned'
<1>0. UNCHANGED <<trees, tasks>> /\ Operator \in Callers
  BY Numbers DEF Restore, AddRestoreTree, AddRestoreTreeFails, RestoreIsOrphaned, CleanupRestore,
                 CleanupRestoreFails, Revert, disk, db
<1>3. CASE AddRestoreTree
  <2>1. At(Operator, "add") /\ Goes(Operator, "pin")
    BY <1>0, <1>3, GoesTo DEF AddRestoreTree, Pcs
  <2> QED
    BY <1>0, <2>1, OwnedGoes, CallTypes DEF Goes, At, Starts
<1>1. CASE AddRestoreTreeFails \/ RestoreIsOrphaned \/ CleanupRestore \/ CleanupRestoreFails
  <2>1. Done(Operator)
    BY <1>1 DEF AddRestoreTreeFails, RestoreIsOrphaned, CleanupRestore, CleanupRestoreFails
  <2> QED
    BY <1>0, <2>1, OwnedDone
<1>2. CASE Restore \/ Revert
  <2>1. PICK r : Alone /\ call' = [call EXCEPT ![Operator] = r]
    BY <1>2 DEF Restore, Revert, Asked
  <2>2. call \in [Callers -> CallRow(Len(commits))] /\ Operator \notin Calls
    BY CallTypes, Numbers
  <2>3. \A d \in Callers : d # Operator => call'[d] = call[d] /\ ~call[d].held
    BY <2>1, <2>2 DEF Alone
  <2>4. \A c \in Calls : c \in Callers /\ c # Operator /\ call'[c] = call[c]
    BY <2>2, <2>3, Numbers
  <2>5. \A c \in Calls : TreeOfCall(c)' = TreeOfCall(c) /\ TaskOfCall(c)' = TaskOfCall(c)
    BY <1>0, <2>4 DEF TreeOfCall, TaskOfCall, Tree, Attempt
  <2>6. \A w \in Workspaces : TreeAt(w)' = TreeAt(w)
    BY <1>0 DEF TreeAt
  <2>7. \A s \in Steps : WorkspaceOfTask(s)' = WorkspaceOfTask(s)
    BY <1>0 DEF WorkspaceOfTask
  <2> QED
    BY <1>0, <2>3, <2>4, <2>5, <2>6, <2>7 DEF Owned, At
<1> QED
  BY <1>1, <1>2, <1>3

\* A call begins, in the workspace of its task or in a new one.
LEMMA AskGoes ==
    ASSUME Rows, NEW c \in Calls, TaskForStep(c)
    PROVE  LET s == run.step
           IN /\ s \in Steps /\ tasks[s].state = "READY" /\ Alone /\ At(c, "idle")
              /\ OnlyCall(c, Len(commits))
              /\ call'[c].step = s /\ call'[c].attempt = tasks[s].attempt /\ call'[c].in = tasks[s].in
              /\ call'[c].held = TRUE /\ call'[c].mode = "none" /\ call'[c].out = 0 /\ call'[c].id = 0
              /\ \/ /\ Stored(tasks[s]) /\ UNCHANGED trees
                    /\ call'[c].pc = "dispatch" /\ call'[c].ws = tasks[s].ws
                 \/ /\ ~Stored(tasks[s]) /\ call'[c].pc = "prepare"
                    /\ call'[c].ws \in Workspaces /\ trees[call'[c].ws].state = "free"
                    /\ trees' = [trees EXCEPT ![call'[c].ws].state = "reserved"]
<1> DEFINE N == Len(commits)
<1>0. /\ N \in Nat /\ call \in [Callers -> CallRow(N)] /\ trees \in [Workspaces -> TreeRow(N)]
      /\ tasks \in [Steps -> TaskRow(N)] /\ c \in Callers
  BY CallTypes, Numbers
<1> HIDE DEF N
<1> DEFINE t == tasks[run.step]
           free == {v \in Workspaces : trees[v].state = "free"}
           w == Min(free)
<1>1. /\ run.step \in Steps /\ t.state = "READY" /\ (Stored(t) \/ free # {}) /\ Alone /\ At(c, "idle")
      /\ IF Stored(t) THEN call' = [call EXCEPT ![c] = Asks(c, t)] /\ UNCHANGED trees
         ELSE /\ call' = [call EXCEPT ![c] = [Asks(c, t) EXCEPT !.ws = w]]
              /\ trees' = [trees EXCEPT ![w].state = "reserved"]
  BY DEF TaskForStep
<1>2. t \in TaskRow(N) /\ run.step \in Nat
  BY <1>0, <1>1, Numbers
<1>3. Stored(t) \/ (w \in Workspaces /\ trees[w].state = "free")
  <2>1. free \subseteq Nat /\ free \subseteq Workspaces
    BY Numbers
  <2>2. free # {} => w \in free
    BY <2>1, MinOfNat
  <2> QED
    BY <1>1, <2>2
<1> HIDE DEF t, w, free
<1>4. /\ Asks(c, t) \in CallRow(N) /\ Asks(c, t).step = run.step /\ Asks(c, t).attempt = t.attempt
      /\ Asks(c, t).in = t.in /\ Asks(c, t).held = TRUE
      /\ Asks(c, t).mode = "none" /\ Asks(c, t).out = 0 /\ Asks(c, t).id = 0
      /\ (Stored(t) => Asks(c, t).ws = t.ws /\ Asks(c, t).pc = "dispatch")
      /\ (~Stored(t) => Asks(c, t).pc = "prepare")
  <2>1. N \in Nat /\ t \in TaskRow(N) /\ c \in Calls /\ run.step \in Nat
    BY <1>0, <1>2
  <2>2. Asks(c, t).pc = (IF Stored(t) THEN "dispatch" ELSE "prepare")
    BY <2>1, AskRow
  <2>3. Asks(c, t).ws = (IF Stored(t) THEN t.ws ELSE 0)
    BY <2>1, AskRow
  <2>4. /\ Asks(c, t) \in CallRow(N)
        /\ Asks(c, t).step = run.step /\ Asks(c, t).attempt = t.attempt /\ Asks(c, t).in = t.in
        /\ Asks(c, t).mode = "none" /\ Asks(c, t).held = TRUE /\ Asks(c, t).out = 0 /\ Asks(c, t).id = 0
    BY <2>1, AskRow, ZenonT(60)
  <2> QED
    BY <2>2, <2>3, <2>4
<1>5. CASE Stored(t)
  <2>1. OnlyCall(c, N) /\ call'[c] = Asks(c, t)
    BY <1>0, <1>1, <1>4, <1>5 DEF OnlyCall
  <2> QED
    BY <1>1, <1>4, <1>5, <2>1 DEF t, N
<1>6. CASE ~Stored(t)
  <2> DEFINE r == [Asks(c, t) EXCEPT !.ws = w]
  <2>1. /\ r \in CallRow(N) /\ r.step = run.step /\ r.attempt = t.attempt /\ r.in = t.in
        /\ r.pc = "prepare" /\ r.held = TRUE /\ r.mode = "none" /\ r.ws = w
        /\ r.out = Asks(c, t).out /\ r.id = Asks(c, t).id
    BY <1>0, <1>3, <1>4, <1>6, WorkspaceRow
  <2>2. call' = [call EXCEPT ![c] = r]
    BY <1>1, <1>6
  <2> HIDE DEF r
  <2>3. OnlyCall(c, N) /\ call'[c] = r
    BY <1>0, <2>1, <2>2 DEF OnlyCall
  <2> QED
    BY <1>1, <1>3, <1>4, <1>6, <2>1, <2>3 DEF t, N
<1> QED
  BY <1>5, <1>6

\* A call that is starting is the only one with a lease.
LEMMA StartsAlone ==
    ASSUME Rows, Owned, NEW c \in Calls, Starting(c)
    PROVE  /\ c \in Callers /\ c # Operator /\ call[c].held /\ call[c].step \in Steps /\ call[c].ws \in Workspaces
           /\ call[c].attempt \in Attempts /\ call[c].in # 0 /\ TreeOfCall(c) /\ TaskOfCall(c)
           /\ \A d \in Callers : d # c => ~call[d].held
           /\ \A d \in Calls : d # c /\ call[d].pc # "idle" =>
                 /\ call[d].pc \notin Starts /\ call[d].ws \in Workspaces /\ call[d].ws # call[c].ws
                 /\ TreeOfCall(d) /\ TaskOfCall(d)
<1>1. call[c].pc \in Starts /\ call[c].pc # "idle" /\ c \in Callers /\ c # Operator
  BY Numbers DEF Starting, Starts
<1>2. /\ call[c].held /\ call[c].step \in Steps /\ call[c].ws \in Workspaces
      /\ TreeOfCall(c) /\ TaskOfCall(c)
  BY <1>1, OwnedTypes DEF At
<1>3. call[c].attempt \in Attempts /\ call[c].in # 0
  BY <1>1, CallTypes DEF CallAt, CallOfTask
<1>4. \A d \in Callers : d # c => ~call[d].held
  BY <1>1, <1>2 DEF Owned
<1>5. ASSUME NEW d \in Calls, d # c, call[d].pc # "idle"
      PROVE  /\ call[d].pc \notin Starts /\ call[d].ws \in Workspaces /\ call[d].ws # call[c].ws
             /\ TreeOfCall(d) /\ TaskOfCall(d)
  <2>1. ~call[d].held
    BY <1>4, <1>5, Numbers
  <2>2. call[d].pc \notin Starts /\ call[d].ws \in Workspaces /\ TreeOfCall(d) /\ TaskOfCall(d)
    BY <1>5, <2>1, OwnedTypes DEF At
  <2> QED
    BY <1>1, <1>5, <2>2 DEF Owned, At
<1> QED
  BY <1>1, <1>2, <1>3, <1>4, <1>5

\* A call that is starting touches its tree and its task, and nobody else has to do with
\* either.
LEMMA StartsApart ==
    ASSUME Rows, Owned, NEW c \in Calls, Starting(c), NEW n \in Nat, OnlyCall(c, n),
           NEW w \in Workspaces, w = call[c].ws, OnlyTree(w, n), TreeAt(w)',
           NEW s \in Steps, s = call[c].step, OnlyTask(s, n), WorkspaceOfTask(s)',
           tasks'[s].ws \in {tasks[s].ws, w},
           call'[c].pc # "idle" => call'[c].ws = w /\ TreeOfCall(c)' /\ TaskOfCall(c)'
    PROVE  Owned'
<1>0. /\ \A d \in Callers : d # c => call'[d] = call[d] /\ ~call'[d].held
      /\ \A d \in Calls : d \in Callers
      /\ w \in Workspaces /\ w # 0 /\ s \in Steps
  BY StartsAlone, Numbers DEF OnlyCall
<1>1. \A k \in Steps : k # s => tasks[k].ws # w /\ tasks'[k] = tasks[k]
  <2>1. TaskOfCall(c) /\ call[c].pc \in {"prepare", "record", "dispatch"}
    BY StartsAlone DEF Starting
  <2>2. CASE call[c].pc = "dispatch"
    <3>1. tasks[s].ws = w
      BY <2>1, <2>2 DEF TaskOfCall
    <3> QED
      BY <1>0, <3>1 DEF Owned, OnlyTask
  <2>3. CASE call[c].pc \in {"prepare", "record"}
    BY <2>1, <2>3 DEF TaskOfCall, OnlyTask
  <2> QED
    BY <2>1, <2>2, <2>3
<1>2. \A a, b \in Callers : call'[a].held /\ call'[b].held => a = b
  BY <1>0
<1>3. ASSUME NEW d \in Calls, d # c, call'[d].pc # "idle"
      PROVE  TreeOfCall(d)' /\ TaskOfCall(d)' /\ call'[d].ws # w
  <2>1. call'[d] = call[d] /\ ~call'[d].held
    BY <1>0, <1>3
  <2>2. /\ call[d].pc \notin Starts /\ call[d].ws \in Workspaces /\ call[d].ws # w
        /\ TreeOfCall(d)
    BY <1>3, <2>1, StartsAlone
  <2>3. trees'[call[d].ws] = trees[call[d].ws]
    BY <2>2 DEF OnlyTree
  <2>4. TreeOfCall(d)'
    BY <2>1, <2>2, <2>3 DEF TreeOfCall, Tree, Attempt
  <2>5. TaskOfCall(d)'
    BY <2>1, <2>2 DEF TaskOfCall, Starts
  <2> QED
    BY <2>1, <2>2, <2>4, <2>5
<1>4. ASSUME NEW a \in Calls, NEW b \in Calls, a # b, call'[a].pc # "idle", call'[b].pc # "idle"
      PROVE  call'[a].ws # call'[b].ws
  <2>1. CASE a # c /\ b # c
    BY <1>0, <1>4, <2>1 DEF Owned, At
  <2>2. CASE a = c \/ b = c
    BY <1>3, <1>4, <2>2
  <2> QED
    BY <2>1, <2>2
<1>5. \A v \in Workspaces : TreeAt(v)'
  BY DEF OnlyTree, Owned, TreeAt
<1>6. ASSUME NEW k \in Steps
      PROVE  WorkspaceOfTask(k)'
  <2>1. CASE k # s
    <3>1. WorkspaceOfTask(k) /\ tasks[k].ws \in {0} \cup Workspaces
      BY OwnedTypes
    <3>2. tasks'[k] = tasks[k] /\ (tasks[k].ws # 0 => trees'[tasks[k].ws] = trees[tasks[k].ws])
      BY <1>1, <2>1, <3>1 DEF OnlyTree
    <3> QED
      BY <3>1, <3>2 DEF WorkspaceOfTask, Stored
  <2> QED
    BY <2>1
<1>7. ASSUME NEW k \in Steps, NEW l \in Steps, k # l, tasks'[k].ws # 0
      PROVE  tasks'[k].ws # tasks'[l].ws
  <2>1. CASE k # s /\ l # s
    BY <1>1, <1>7, <2>1 DEF Owned
  <2>2. CASE k = s \/ l = s
    <3>1. /\ tasks[k].ws # 0 => tasks[k].ws # tasks[l].ws
          /\ tasks[l].ws # 0 => tasks[l].ws # tasks[k].ws
      BY <1>7 DEF Owned
    <3> QED
      BY <1>0, <1>1, <1>7, <2>2, <3>1
  <2> QED
    BY <2>1, <2>2
<1> QED
  BY <1>2, <1>3, <1>4, <1>5, <1>6, <1>7 DEF Owned, At

\* A call gets its tree, gives it to the task, and starts its agent in it.
LEMMA OwnedStarting ==
    ASSUME Rows, Owned, NEW c \in Calls,
           TaskForStep(c) \/ Prepare(c) \/ PreparationFails(c) \/ RecordWorkspace(c) \/ Dispatch(c)
    PROVE  Owned'
<1> DEFINE N == Len(commits)
<1>0. /\ N \in Nat /\ call \in [Callers -> CallRow(N)] /\ trees \in [Workspaces -> TreeRow(N)]
      /\ tasks \in [Steps -> TaskRow(N)] /\ c \in Callers /\ c # Operator /\ \A d \in Calls : d \in Callers
  BY CallTypes, Numbers
<1> HIDE DEF N
<1>1. CASE TaskForStep(c)
  <2>1. PICK r \in Steps :
           /\ r = run.step /\ tasks[r].state = "READY" /\ Alone
           /\ OnlyCall(c, N) /\ call'[c].step = r /\ call'[c].attempt = tasks[r].attempt
           /\ call'[c].in = tasks[r].in /\ call'[c].held = TRUE
           /\ \/ /\ Stored(tasks[r]) /\ UNCHANGED trees
                 /\ call'[c].pc = "dispatch" /\ call'[c].ws = tasks[r].ws
              \/ /\ call'[c].pc = "prepare"
                 /\ call'[c].ws \in Workspaces /\ trees[call'[c].ws].state = "free"
                 /\ trees' = [trees EXCEPT ![call'[c].ws].state = "reserved"]
    BY <1>1, AskGoes DEF N
  <2>2. UNCHANGED tasks
    BY <1>1 DEF TaskForStep, db
  <2>3. \A d \in Callers : d # c => call'[d] = call[d] /\ ~call[d].held
    BY <2>1 DEF OnlyCall, Alone
  <2>4. ASSUME NEW d \in Calls, d # c, call[d].pc # "idle"
        PROVE  /\ call'[d] = call[d] /\ call[d].pc \notin Starts /\ ~call[d].held /\ call[d].ws \in Workspaces
               /\ trees[call[d].ws].state = "tree" /\ trees[call[d].ws].used # {}
               /\ TreeOfCall(d) /\ TaskOfCall(d)
    <3>1. call'[d] = call[d] /\ ~call[d].held /\ ~At(d, "idle")
      BY <1>0, <2>3, <2>4 DEF At
    <3>2. call[d].pc \notin Starts /\ TaskOfCall(d) /\ TreeOfCall(d)
      BY <3>1, OwnedTypes
    <3>3. ~Starting(d)
      BY <3>2 DEF Starts, Starting
    <3> QED
      BY <3>1, <3>2, <3>3, UsedTree
  <2>5. /\ WorkspaceOfTask(r) /\ tasks[r].ws \in {0} \cup Workspaces /\ \A v \in Workspaces : v # 0 /\ TreeAt(v)
    BY OwnedTypes
  <2>6. CASE Stored(tasks[r]) /\ UNCHANGED trees /\ call'[c].pc = "dispatch" /\ call'[c].ws = tasks[r].ws
    <3>1. /\ tasks[r].ws \in Workspaces /\ tasks[r].wsAttempt = tasks[r].attempt
          /\ trees[tasks[r].ws].used = {} /\ trees[tasks[r].ws].head = tasks[r].in
          /\ trees[tasks[r].ws].state = "tree" /\ ~trees[tasks[r].ws].dirty /\ ~trees[tasks[r].ws].busy
      BY <2>1, <2>5, <2>6 DEF WorkspaceOfTask, Stored
    <3>2. TreeOfCall(c)' /\ TaskOfCall(c)'
      BY <2>1, <2>2, <2>6, <3>1 DEF TreeOfCall, TaskOfCall, Tree, Starts
    <3>3. ASSUME NEW d \in Calls, d # c, call'[d].pc # "idle"
          PROVE  TreeOfCall(d)' /\ TaskOfCall(d)' /\ call'[d].ws # call'[c].ws
      <4>1. call'[d] = call[d]
        BY <1>0, <2>3, <3>3
      <4>2. /\ call[d].pc # "idle" /\ TreeOfCall(d) /\ TaskOfCall(d) /\ trees[call[d].ws].used # {}
        BY <2>4, <3>3, <4>1
      <4>3. TreeOfCall(d)' /\ TaskOfCall(d)'
        BY <2>2, <2>6, <4>1, <4>2 DEF TreeOfCall, TaskOfCall, Tree, Attempt
      <4> QED
        BY <2>6, <3>1, <4>1, <4>2, <4>3
    <3>4. /\ \A a, b \in Callers : call'[a].held /\ call'[b].held => a = b
          /\ \A a, b \in Calls : a # b /\ call'[a].pc # "idle" /\ call'[b].pc # "idle" => call'[a].ws # call'[b].ws
      <4>1. \A a, b \in Calls : a # c /\ b # c /\ a # b /\ call'[a].pc # "idle" /\ call'[b].pc # "idle"
                                   => call'[a].ws # call'[b].ws
        BY <1>0, <2>3 DEF Owned, At
      <4> QED
        BY <1>0, <2>3, <3>3, <4>1
    <3>5. (\A v \in Workspaces : TreeAt(v)') /\ (\A k \in Steps : WorkspaceOfTask(k)')
      BY <2>2, <2>6 DEF Owned, TreeAt, WorkspaceOfTask
    <3>6. \A k, l \in Steps : k # l /\ tasks'[k].ws # 0 => tasks'[k].ws # tasks'[l].ws
      BY <2>2 DEF Owned
    <3> QED
      BY <3>2, <3>3, <3>4, <3>5, <3>6 DEF Owned, At
  <2>7. ASSUME NEW v \in Workspaces, call'[c].pc = "prepare", call'[c].ws = v, trees[v].state = "free",
               trees' = [trees EXCEPT ![v].state = "reserved"]
        PROVE  Owned'
    <3>1. /\ OnlyTree(v, N) /\ trees'[v].state = "reserved" /\ trees'[v].head = trees[v].head
          /\ trees'[v].dirty = trees[v].dirty /\ trees'[v].busy = trees[v].busy /\ trees'[v].used = trees[v].used
      BY <1>0, <2>7, TreeReserved
    <3>2. ~trees[v].dirty /\ ~trees[v].busy /\ trees[v].used = {}
      BY <2>5, <2>7 DEF TreeAt
    <3>3. \A k \in Steps : tasks[k].ws # v
      <4>1. \A k \in Steps : WorkspaceOfTask(k) /\ v # 0
        BY OwnedTypes
      <4> QED
        BY <2>7, <4>1 DEF WorkspaceOfTask
    <3>4. TreeOfCall(c)' /\ TaskOfCall(c)'
      BY <2>1, <2>2, <2>7, <3>1, <3>2, <3>3 DEF TreeOfCall, TaskOfCall, Tree, Starts
    <3>5. ASSUME NEW d \in Calls, d # c, call'[d].pc # "idle"
          PROVE  TreeOfCall(d)' /\ TaskOfCall(d)' /\ call'[d].ws # call'[c].ws
      <4>1. call'[d] = call[d]
        BY <1>0, <2>3, <3>5
      <4>2. /\ call[d].pc # "idle" /\ TreeOfCall(d) /\ TaskOfCall(d) /\ trees[call[d].ws].state = "tree"
            /\ call[d].ws \in Workspaces
        BY <2>4, <3>5, <4>1
      <4>3. call[d].ws # v /\ trees'[call[d].ws] = trees[call[d].ws]
        BY <2>7, <3>1, <4>2 DEF OnlyTree
      <4>4. TreeOfCall(d)' /\ TaskOfCall(d)'
        BY <2>2, <4>1, <4>2, <4>3 DEF TreeOfCall, TaskOfCall, Tree, Attempt
      <4> QED
        BY <2>7, <4>1, <4>3, <4>4
    <3>6. /\ \A a, b \in Callers : call'[a].held /\ call'[b].held => a = b
          /\ \A a, b \in Calls : a # b /\ call'[a].pc # "idle" /\ call'[b].pc # "idle" => call'[a].ws # call'[b].ws
      <4>1. \A a, b \in Calls : a # c /\ b # c /\ a # b /\ call'[a].pc # "idle" /\ call'[b].pc # "idle"
                                   => call'[a].ws # call'[b].ws
        BY <1>0, <2>3 DEF Owned, At
      <4> QED
        BY <1>0, <2>3, <3>5, <4>1
    <3>7. \A x \in Workspaces : TreeAt(x)'
      <4>1. TreeAt(v)'
        BY <3>1, <3>2 DEF TreeAt
      <4> QED
        BY <2>5, <3>1, <4>1 DEF TreeAt, OnlyTree
    <3>8. ASSUME NEW k \in Steps PROVE WorkspaceOfTask(k)'
      <4>1. WorkspaceOfTask(k) /\ tasks[k].ws \in {0} \cup Workspaces
        BY OwnedTypes
      <4>2. tasks[k].ws # 0 => trees'[tasks[k].ws] = trees[tasks[k].ws]
        BY <3>1, <3>3, <4>1 DEF OnlyTree
      <4> QED
        BY <2>2, <4>1, <4>2 DEF WorkspaceOfTask, Stored
    <3>9. \A k, l \in Steps : k # l /\ tasks'[k].ws # 0 => tasks'[k].ws # tasks'[l].ws
      BY <2>2 DEF Owned
    <3> QED
      BY <3>4, <3>5, <3>6, <3>7, <3>8, <3>9 DEF Owned, At
  <2> QED
    BY <2>1, <2>6, <2>7
<1>2. CASE Prepare(c)
  <2>1. /\ At(c, "prepare") /\ UNCHANGED tasks /\ Starting(c) /\ Goto(c, "record") /\ "record" \in Pcs
    BY <1>2 DEF Prepare, db, Starting, At, Pcs
  <2>2. PICK w \in Workspaces, s \in Steps, h \in 0 .. N :
           /\ w = call[c].ws /\ s = call[c].step /\ h = call[c].in /\ h # 0
           /\ TreeOfCall(c) /\ TaskOfCall(c)
    BY <1>0, <2>1, StartsAlone, CallTypes DEF N
  <2>a. trees' = [trees EXCEPT ![w] = [@ EXCEPT !.state = "tree", !.head = h]]
    BY <1>2, <2>2 DEF Prepare
  <2>3. Goes(c, "record")
    BY <1>0, <2>1, GoesTo
  <2>4. /\ OnlyTree(w, N) /\ trees'[w].state = "tree" /\ trees'[w].head = h
        /\ trees'[w].dirty = trees[w].dirty /\ trees'[w].busy = trees[w].busy /\ trees'[w].used = trees[w].used
    BY <1>0, <2>a, TreePrepared
  <2>5. ~trees[w].dirty /\ ~trees[w].busy /\ trees[w].used = {}
    BY <2>1, <2>2 DEF TreeOfCall, Tree, At, Starts
  <2>6. TreeOfCall(c)' /\ TaskOfCall(c)'
    BY <2>1, <2>2, <2>3, <2>4, <2>5 DEF TreeOfCall, TaskOfCall, Tree, Goes, SamePlace, Starts, At
  <2>7. TreeAt(w)'
    BY <2>2, <2>4, <2>5 DEF TreeAt
  <2>8. WorkspaceOfTask(s)'
    <3>1. WorkspaceOfTask(s) /\ tasks[s].ws # w /\ tasks[s].ws \in {0} \cup Workspaces
      BY <2>1, <2>2, OwnedTypes DEF TaskOfCall, At
    <3> QED
      BY <2>1, <2>4, <3>1 DEF WorkspaceOfTask, Stored, OnlyTree
  <2>9. OnlyTask(s, N)
    BY <1>0, <2>1 DEF OnlyTask
  <2>b. OnlyCall(c, N) /\ tasks'[s].ws \in {tasks[s].ws, w}
    BY <2>1, <2>3 DEF Goes, N
  <2>c. call'[c].pc # "idle" => call'[c].ws = w /\ TreeOfCall(c)' /\ TaskOfCall(c)'
    BY <2>2, <2>3, <2>6 DEF Goes, SamePlace
  <2> QED
    BY <1>0, <2>1, <2>2, <2>b, <2>c, <2>4, <2>7, <2>8, <2>9, StartsApart
<1>3. CASE PreparationFails(c)
  <2>1. At(c, "prepare") /\ UNCHANGED tasks /\ Starting(c) /\ Done(c)
    BY <1>3 DEF PreparationFails, db, Starting, At
  <2>2. PICK w \in Workspaces, s \in Steps : w = call[c].ws /\ s = call[c].step /\ TaskOfCall(c)
    BY <2>1, StartsAlone
  <2>a. trees' = [trees EXCEPT ![w] = NoTree]
    BY <1>3, <2>2 DEF PreparationFails
  <2>3. OnlyCall(c, N) /\ call'[c] = Idle /\ Idle.pc = "idle"
    BY <1>0, <2>1, DoneAt, IdleRow DEF N
  <2>4. OnlyTree(w, N) /\ trees'[w] = NoTree
    BY <1>0, <2>a, TreeFreed
  <2>5. TreeAt(w)'
    BY <2>4 DEF TreeAt, NoTree
  <2>6. WorkspaceOfTask(s)'
    <3>1. WorkspaceOfTask(s) /\ tasks[s].ws # w /\ tasks[s].ws \in {0} \cup Workspaces
      BY <2>1, <2>2, OwnedTypes DEF TaskOfCall, At
    <3> QED
      BY <2>1, <2>4, <3>1 DEF WorkspaceOfTask, Stored, OnlyTree
  <2>7. OnlyTask(s, N)
    BY <1>0, <2>1 DEF OnlyTask
  <2>b. OnlyCall(c, N) /\ tasks'[s].ws \in {tasks[s].ws, w}
    BY <2>1, <2>3
  <2>c. call'[c].pc # "idle" => call'[c].ws = w /\ TreeOfCall(c)' /\ TaskOfCall(c)'
    BY <2>3
  <2> QED
    BY <1>0, <2>1, <2>2, <2>b, <2>c, <2>4, <2>5, <2>6, <2>7, StartsApart
<1>4. CASE RecordWorkspace(c)
  <2>1. At(c, "record") /\ UNCHANGED trees /\ Starting(c) /\ Goto(c, "dispatch") /\ "dispatch" \in Pcs
    BY <1>4 DEF RecordWorkspace, disk, Starting, At, Pcs
  <2>2. PICK w \in Workspaces, s \in Steps, a \in 0 .. MaxAttempts :
           /\ w = call[c].ws /\ s = call[c].step /\ a = call[c].attempt /\ call[c].held
           /\ TreeOfCall(c) /\ TaskOfCall(c)
    BY <1>0, <2>1, StartsAlone, CallTypes
  <2>a. tasks' = [tasks EXCEPT ![s].ws = w, ![s].wsAttempt = a]
    BY <1>4, <2>2 DEF RecordWorkspace
  <2>3. Goes(c, "dispatch")
    BY <1>0, <2>1, GoesTo
  <2>4. OnlyTask(s, N) /\ tasks'[s].ws = w /\ tasks'[s].wsAttempt = a
    BY <1>0, <2>a DEF TaskRow, OnlyTask
  <2>5. /\ tasks'[s].state = tasks[s].state /\ tasks'[s].attempt = tasks[s].attempt
        /\ tasks'[s].in = tasks[s].in /\ tasks'[s].success = tasks[s].success
    BY <1>0, <2>a, TaskRecorded
  <2>6. TreeOfCall(c)' /\ TaskOfCall(c)'
    BY <2>1, <2>2, <2>3, <2>4, <2>5 DEF TreeOfCall, TaskOfCall, Tree, Goes, SamePlace, Starts, At
  <2>7. TreeAt(w)'
    BY <2>1, <2>2 DEF Owned, TreeAt
  <2>8. WorkspaceOfTask(s)'
    <3>1. WorkspaceOfTask(s)
      BY <2>2, OwnedTypes
    <3>2. /\ tasks[s].attempt = call[c].attempt /\ tasks[s].in = call[c].in /\ tasks[s].attempt \in Nat
          /\ trees[w].state = "tree" /\ trees[w].head = call[c].in
          /\ ~trees[w].dirty /\ ~trees[w].busy /\ trees[w].used = {}
      BY <2>1, <2>2 DEF TreeOfCall, TaskOfCall, Tree, Starts, At
    <3>3. tasks[s].success <= tasks[s].attempt /\ tasks[s].wsAttempt <= tasks[s].attempt
      BY <3>1 DEF WorkspaceOfTask
    <3>4. /\ tasks'[s].success <= tasks'[s].attempt /\ tasks'[s].wsAttempt <= tasks'[s].attempt
          /\ tasks'[s].ws = w /\ tasks'[s].in = trees[w].head
      BY <2>2, <2>4, <2>5, <3>2, <3>3
    <3>5. /\ trees'[w].state = "tree" /\ trees'[w].used = {} /\ trees'[w].head = tasks'[s].in
          /\ ~trees'[w].dirty /\ ~trees'[w].busy
      BY <2>1, <3>2, <3>4
    <3> QED
      BY <3>4, <3>5 DEF WorkspaceOfTask
  <2>9. OnlyTree(w, N)
    BY <1>0, <2>1 DEF OnlyTree
  <2>b. OnlyCall(c, N) /\ tasks'[s].ws \in {tasks[s].ws, w}
    BY <2>3, <2>4 DEF Goes, N
  <2>c. call'[c].pc # "idle" => call'[c].ws = w /\ TreeOfCall(c)' /\ TaskOfCall(c)'
    BY <2>2, <2>3, <2>6 DEF Goes, SamePlace
  <2> QED
    BY <1>0, <2>1, <2>2, <2>b, <2>c, <2>4, <2>7, <2>8, <2>9, StartsApart
<1>5. CASE Dispatch(c)
  <2>1. At(c, "dispatch") /\ Starting(c)
    BY <1>5 DEF Dispatch, Starting, At
  <2>2. PICK w \in Workspaces, s \in Steps :
           /\ w = call[c].ws /\ s = call[c].step /\ call[c].attempt \in Attempts /\ call[c].held
           /\ TreeOfCall(c) /\ TaskOfCall(c)
    BY <2>1, StartsAlone
  <2>3. /\ tasks[s].state = "READY" /\ tasks[s].attempt = call[c].attempt /\ tasks[s].ws = w
        /\ trees[w].state = "tree" /\ ~trees[w].dirty /\ ~trees[w].busy /\ trees[w].used = {}
    BY <2>1, <2>2 DEF TreeOfCall, TaskOfCall, Tree, Starts, At
  <2>4. PICK x \in Steps \X Attempts : x = Attempt(c)
    BY <2>2 DEF Attempt
  <2>5. tasks' = [tasks EXCEPT ![s].state = "RUNNING"] /\ Goto(c, "run")
    BY <1>5, <2>2, <2>3 DEF Dispatch
  <2>a. trees' = [trees EXCEPT ![w].busy = TRUE, ![w].used = @ \cup {x}]
    BY <1>5, <2>2, <2>3, <2>4 DEF Dispatch
  <2>6. "run" \in Pcs /\ "RUNNING" \in States
    BY DEF Pcs, States
  <2>7. Goes(c, "run")
    BY <1>0, <2>5, <2>6, GoesTo
  <2>8. /\ OnlyTask(s, N) /\ tasks'[s].state = "RUNNING" /\ tasks'[s].attempt = tasks[s].attempt
        /\ tasks'[s].ws = tasks[s].ws /\ tasks'[s].wsAttempt = tasks[s].wsAttempt
        /\ tasks'[s].success = tasks[s].success
    BY <1>0, <2>5, <2>6, TaskMoved
  <2>9. /\ OnlyTree(w, N) /\ trees'[w].state = trees[w].state /\ trees'[w].head = trees[w].head
        /\ trees'[w].dirty = trees[w].dirty /\ trees'[w].busy = TRUE
        /\ trees'[w].used = trees[w].used \cup {x}
    BY <1>0, <2>a, TreeStarted
  <2>10. trees'[w].used = {x}
    BY <2>3, <2>9
  <2>11. TreeOfCall(c)' /\ TaskOfCall(c)'
    <3>1. Attempt(c)' = x
      BY <2>4, <2>7 DEF Attempt, Goes, SamePlace
    <3> QED
      BY <2>2, <2>3, <2>7, <2>8, <2>9, <2>10, <3>1
         DEF TreeOfCall, TaskOfCall, Tree, Goes, SamePlace, Starts
  <2>12. TreeAt(w)'
    <3>1. TreeAt(w)
      BY <2>2 DEF Owned
    <3> QED
      BY <2>3, <2>9, <2>10, <3>1 DEF TreeAt
  <2>13. WorkspaceOfTask(s)'
    <3>1. WorkspaceOfTask(s)
      BY <2>2, OwnedTypes
    <3> QED
      BY <2>3, <2>8, <2>9, <3>1 DEF WorkspaceOfTask
  <2>b. OnlyCall(c, N) /\ tasks'[s].ws \in {tasks[s].ws, w}
    BY <2>7, <2>8 DEF Goes, N
  <2>c. call'[c].pc # "idle" => call'[c].ws = w /\ TreeOfCall(c)' /\ TaskOfCall(c)'
    BY <2>2, <2>7, <2>11 DEF Goes, SamePlace
  <2> QED
    BY <1>0, <2>1, <2>2, <2>b, <2>c, <2>8, <2>9, <2>12, <2>13, StartsApart
<1> QED
  BY <1>1, <1>2, <1>3, <1>4, <1>5

\* In the first state nobody owns anything.
LEMMA InitOwned == Init => Owned
<1> SUFFICES ASSUME Init PROVE Owned
  OBVIOUS
<1>1. /\ \A c \in Callers : call[c].pc = "idle" /\ call[c].held = FALSE
      /\ \A c \in Calls : c \in Callers
  BY IdleRow, Numbers DEF Init
<1>2. \A w \in Workspaces : trees[w] = NoTree
  BY DEF Init
<1>3. \A w \in Workspaces : TreeAt(w)
  BY <1>2 DEF TreeAt, NoTree
<1>4. \A s \in Steps : tasks[s].ws = 0 /\ WorkspaceOfTask(s)
  BY DEF Init, WorkspaceOfTask, Stored
<1> QED
  BY <1>1, <1>3, <1>4 DEF Owned, At

\* Every step keeps who owns what.
LEMMA NextOwned == Rows /\ Owned /\ [Next]_vars => Owned'
<1> SUFFICES ASSUME Rows, Owned, [Next]_vars PROVE Owned'
  OBVIOUS
<1>1. CASE UNCHANGED vars
  <2>1. UNCHANGED <<call, trees, tasks>>
    BY <1>1 DEF vars, disk, db
  <2>2. /\ \A c \in Callers : CallKept(c)
        /\ \A w \in Workspaces : TreeKept(w)
        /\ \A s \in Steps : TaskKept(s)
        /\ \A c \in Calls : AgentKept(c)
    BY <2>1, OthersKept DEF TreeKept, TaskKept, AgentKept
  <2> QED
    BY <2>2, OwnedStays
<1>2. CASE Next
  BY <1>2, OwnedStarting, OwnedTurning, OwnedCapturing, OwnedPersisting, OwnedEnding, OwnedWorking,
     OwnedAdvancing, OwnedOperating, Numbers DEF Next, ExecuteTask
<1> QED
  BY <1>1, <1>2

-----------------------------------------------------------------------------
(* What follows from the rows and from who owns what. *)

\* Rows and Owned hold for ever.
LEMMA RowsAndOwned == Spec => [](Rows /\ Owned)
<1>1. Init => Rows /\ Owned
  BY InitRows, InitOwned
<1>2. Rows /\ Owned /\ [Next]_vars => (Rows /\ Owned)'
  BY NextRows, NextOwned
<1> QED
  BY <1>1, <1>2, PTL DEF Spec

\* What TypeOK says of the rows.
LEMMA TypesOfRows == Rows /\ Owned => TypeOK
<1> SUFFICES ASSUME Rows, Owned PROVE TypeOK
  OBVIOUS
<1> DEFINE N == Len(commits)
<1>0. N \in Nat /\ Upto(N) /\ commits \in Seq(CommitRow)
  BY Numbers DEF Rows
<1>1. commits \in Seq(SUBSET (1 .. N))
  <2>1. \A n \in 1 .. N : commits[n] \in SUBSET (1 .. N)
    BY DEF Rows
  <2>2. DOMAIN commits = 1 .. N /\ commits = [n \in DOMAIN commits |-> commits[n]]
    BY <1>0, LenProperties
  <2>3. commits \in [1 .. N -> SUBSET (1 .. N)]
    BY <2>1, <2>2
  <2> QED
    BY <1>0, <2>3, SeqDef
<1> HIDE DEF N
<1>3. trees \in [Workspaces -> [state : {"free", "reserved", "tree"}, head : 0 .. N, dirty : BOOLEAN,
                                busy : BOOLEAN, used : SUBSET (Steps \X (1 .. MaxAttempts))]]
  BY <1>0 DEF Upto, TreeRow, Attempts
<1>4. refs \subseteq Ids \X (0 .. N)
  BY <1>0 DEF Upto
<1>5. rows \in Seq([id : Ids, step : Steps, attempt : 1 .. MaxAttempts, kind : SnapshotKind,
                    in : 0 .. N, out : (0 .. N) \ {0}])
  <2>1. 1 .. N = (0 .. N) \ {0}
    BY <1>0
  <2> QED
    BY <1>0, <2>1 DEF Upto, SnapRow, Attempts
<1>6. restores \subseteq [id : Ids, commit : (0 .. N) \ {0}]
  BY <1>0 DEF Upto
<1>7. run \in [step : 1 .. Len(Agents) + 1, candidate : (0 .. N) \ {0}]
  BY <1>0 DEF Upto
<1>8. tasks \in [Steps -> [state : {"none", "READY", "RUNNING", "FAILED", "SUCCEEDED"},
                           attempt : 0 .. MaxAttempts, in : 0 .. N, ws : {0} \cup Workspaces,
                           wsAttempt : 0 .. MaxAttempts, success : 0 .. MaxAttempts]]
  BY <1>0 DEF Upto, TaskRow, States
<1>9. ids \in {0} \cup Ids
  BY Numbers DEF Rows, Ids
<1>10. ASSUME NEW c \in Callers
       PROVE  /\ call[c].out \in 0 .. N
              /\ call[c].pc \in {"pin", "index", "candidate"} => call[c].out # 0
              /\ call[c].pc = "run" => trees[call[c].ws].state = "tree"
  <2>1. call[c].out \in 0 .. N /\ CallAt(c)
    BY CallTypes DEF N
  <2>2. call[c].pc = "run" => c # Operator
    BY <2>1 DEF CallAt, CallOfOperator, Persists
  <2>3. call[c].pc = "run" => trees[call[c].ws].state = "tree"
    BY <2>2, UsedTree DEF Callers, At, Starting
  <2> QED
    BY <2>1, <2>3 DEF CallAt, Persists
<1> QED
  BY <1>1, <1>3, <1>4, <1>5, <1>6, <1>7, <1>8, <1>9, <1>10 DEF TypeOK, N

\* Every variable has its type, in every state.  The types name the commits there are so
\* far, so that this says as well that nothing mentions a commit that has not been made,
\* and that an agent runs in a worktree that exists.
THEOREM TypeCorrect == Spec => []TypeOK
  BY RowsAndOwned, TypesOfRows, PTL

\* No agent works in a worktree in which another attempt has worked, and it finds its input
\* commit there, however the attempts before it ended (taskForStep and reserve).
THEOREM FreshWorktrees == Spec => []WorktreesAreFresh
<1>1. Rows /\ Owned => WorktreesAreFresh
  <2> SUFFICES ASSUME Rows, Owned PROVE WorktreesAreFresh
    OBVIOUS
  <2>1. ASSUME NEW w \in Workspaces
        PROVE  Cardinality(trees[w].used) <= 1
    <3>1. \A x, y \in trees[w].used : x = y
      BY DEF Owned, TreeAt
    <3>2. CASE trees[w].used = {}
      BY <3>2, FS_EmptySet
    <3>3. CASE trees[w].used # {}
      <4>1. PICK x \in trees[w].used : TRUE
        BY <3>3
      <4>2. trees[w].used = {x}
        BY <3>1, <4>1
      <4> QED
        BY <4>2, FS_Singleton
    <3> QED
      BY <3>2, <3>3
  <2>2. ASSUME NEW c \in Calls, At(c, "dispatch")
        PROVE  Tree(c).head = call[c].in /\ ~Tree(c).dirty
    BY <2>2 DEF Owned, TreeOfCall, At, Starts
  <2> QED
    BY <2>1, <2>2 DEF WorktreesAreFresh
<1> QED
  BY <1>1, RowsAndOwned, PTL

-----------------------------------------------------------------------------
(* Which steps have to do with snapshots. *)

Snapping == Persists \cup {"cleanup"}

\* A caller whose snapshot, if it has one in hand, is left alone.
QuietCaller(c) ==
    call[c].pc \in Snapping \/ call'[c].pc \in Snapping =>
        /\ call'[c].pc = call[c].pc /\ call'[c].mode = call[c].mode
        /\ call'[c].id = call[c].id /\ call'[c].out = call[c].out

FaultsGrow ==
    /\ faults' \in FaultRow
    /\ faults.crash <= faults'.crash /\ faults.effect <= faults'.effect
    /\ faults.undo <= faults'.undo /\ faults.orphan <= faults'.orphan

\* A step that leaves every snapshot alone.
Quiet ==
    /\ UNCHANGED <<rows, refs, restores, ids>> /\ FaultsGrow
    /\ \A c \in Callers : QuietCaller(c)

\* A caller begins a snapshot, with a new id.
Begun(c) ==
    /\ ids < SnapshotBound /\ ids' = ids + 1 /\ UNCHANGED <<rows, refs, faults>>
    /\ \A d \in Callers : d # c => call'[d] = call[d]
    /\ call[c].pc \notin Snapping /\ call'[c].pc \in {"add", "pin"} /\ call'[c].id = ids + 1
    /\ \/ UNCHANGED restores
       \/ /\ call'[c].mode = "restore"
          /\ \E k \in DOMAIN rows : restores' = restores \cup {[id |-> ids + 1, commit |-> rows[k].out]}

\* A fault is more than there was.
LEMMA Faulty ==
    ASSUME Rows, NEW k \in {"crash", "lease", "effect", "undo", "orphan"}, Fault(k)
    PROVE  FaultsGrow
<1>1. faults \in FaultRow
  BY DEF Rows
<1>2. /\ faults' \in FaultRow
      /\ faults'.crash = faults.crash + (IF k = "crash" THEN 1 ELSE 0)
      /\ faults'.effect = faults.effect + (IF k = "effect" THEN 1 ELSE 0)
      /\ faults'.undo = faults.undo + (IF k = "undo" THEN 1 ELSE 0)
      /\ faults'.orphan = faults.orphan + (IF k = "orphan" THEN 1 ELSE 0)
  BY <1>1, Faulted
<1> QED
  BY <1>1, <1>2 DEF FaultsGrow, FaultRow

\* A caller that has no snapshot in hand, before and after its step.
LEMMA QuietMoves ==
    ASSUME Rows, NEW c \in Callers, \A d \in Callers : d # c => call'[d] = call[d],
           call[c].pc \notin Snapping, call'[c].pc \notin Snapping,
           UNCHANGED <<rows, refs, restores, ids>>, UNCHANGED faults \/ FaultsGrow
    PROVE  Quiet
<1>1. faults \in FaultRow
  BY DEF Rows
<1>2. FaultsGrow
  BY <1>1 DEF FaultsGrow, FaultRow
<1> QED
  BY <1>2 DEF Quiet, QuietCaller

\* The same when nobody moves.
LEMMA QuietStays ==
    ASSUME Rows, UNCHANGED <<call, rows, refs, restores, ids>>, UNCHANGED faults \/ FaultsGrow
    PROVE  Quiet
<1>1. faults \in FaultRow
  BY DEF Rows
<1>2. FaultsGrow
  BY <1>1 DEF FaultsGrow, FaultRow
<1> QED
  BY <1>2 DEF Quiet, QuietCaller

\* A call that starts, and an agent that ends, leave the snapshots alone.
LEMMA QuietStarting ==
    ASSUME Rows, Owned, NEW c \in Calls,
           \/ TaskForStep(c) \/ Prepare(c) \/ PreparationFails(c) \/ RecordWorkspace(c) \/ Dispatch(c)
           \/ Completes(c) \/ Reports(c) \/ AgentFails(c)
    PROVE  Quiet
<1>0. c \in Callers /\ {"record", "dispatch", "run"} \subseteq Pcs /\ Idle.pc = "idle"
      /\ Len(commits) \in Nat /\ call \in [Callers -> CallRow(Len(commits))]
  BY Numbers, IdleRow, CallTypes DEF Pcs
<1>1. UNCHANGED <<rows, refs, restores, ids>>
  BY DEF TaskForStep, Prepare, PreparationFails, RecordWorkspace, Dispatch, Completes, Reports, AgentFails, disk, db
<1>2. UNCHANGED faults \/ FaultsGrow
  BY Faulty DEF TaskForStep, Prepare, PreparationFails, RecordWorkspace, Dispatch, Completes, Reports, AgentFails
<1>3. call[c].pc \in Starts \cup {"idle", "run"}
  BY DEF TaskForStep, Prepare, PreparationFails, RecordWorkspace, Dispatch, Completes, Reports, AgentFails, At, Starts
<1>4. OnlyCall(c, Len(commits)) /\ call'[c].pc \in Starts \cup {"idle", "run", "verify", "capture"}
  <2>1. CASE TaskForStep(c)
    BY <2>1, AskGoes DEF Starts
  <2>2. CASE PreparationFails(c)
    BY <1>0, <2>2, DoneAt DEF PreparationFails
  <2>3. CASE Prepare(c) \/ RecordWorkspace(c) \/ Dispatch(c)
    <3>1. Goto(c, "record") \/ Goto(c, "dispatch") \/ Goto(c, "run") \/ Done(c)
      BY <2>3 DEF Prepare, RecordWorkspace, Dispatch
    <3> QED
      BY <1>0, <3>1, DoneAt, GoesTo DEF Goes, Starts
  <2>4. CASE Completes(c)
    <3>1. PICK out \in 1 .. Len(commits) :
             call' = [call EXCEPT ![c].pc = "verify", ![c].mode = "accept", ![c].out = out]
      BY <2>4 DEF Completes
    <3>2. out \in 0 .. Len(commits)
      BY <1>0
    <3> QED
      BY <1>0, <3>1, <3>2, WasCompleted
  <2>5. CASE Reports(c)
    <3>1. PICK s \in {"FAILED", "SUCCEEDED"} :
             call' = [call EXCEPT ![c].pc = "capture", ![c].mode = "recover", ![c].result = s]
      BY <2>5 DEF Reports
    <3> QED
      BY <1>0, <3>1, WasReported
  <2>6. CASE AgentFails(c)
    BY <1>0, <2>6, RescuedBy DEF AgentFails, Rescued
  <2> QED
    BY <2>1, <2>2, <2>3, <2>4, <2>5, <2>6
<1> QED
  BY <1>0, <1>1, <1>2, <1>3, <1>4, QuietMoves DEF OnlyCall, Snapping, Persists, Starts

\* The end of an attempt leaves the snapshots alone.
LEMMA QuietEnding ==
    ASSUME Rows, NEW c \in Calls,
           CommitResult(c) \/ CommitResultFails(c) \/ CommitFailure(c) \/ LoseLease(c)
    PROVE  Quiet
<1>0. c \in Callers /\ Idle.pc = "idle" /\ Len(commits) \in Nat /\ call \in [Callers -> CallRow(Len(commits))]
  BY Numbers, IdleRow, CallTypes
<1>1. CASE CommitResult(c) \/ CommitFailure(c)
  <2>1. Done(c) /\ UNCHANGED <<rows, refs, restores, ids, faults>> /\ call[c].pc \in {"commit", "fail"}
    BY <1>1 DEF CommitResult, CommitFailure, Decide, disk, At
  <2>2. OnlyCall(c, Len(commits)) /\ call'[c].pc = "idle"
    BY <1>0, <2>1, DoneAt
  <2> QED
    BY <1>0, <2>1, <2>2, QuietMoves DEF OnlyCall, Snapping, Persists
<1>2. CASE LoseLease(c)
  <2>1. /\ UNCHANGED <<rows, refs, restores, ids>> /\ FaultsGrow
        /\ call' = [call EXCEPT ![c].held = FALSE]
    BY <1>2, Faulty DEF LoseLease, disk
  <2>2. /\ OnlyCall(c, Len(commits)) /\ call'[c].pc = call[c].pc /\ call'[c].mode = call[c].mode
        /\ call'[c].out = call[c].out /\ call'[c].id = call[c].id
    BY <1>0, <2>1, LeaseWasLost
  <2> QED
    BY <1>0, <2>1, <2>2 DEF Quiet, QuietCaller, OnlyCall
<1>3. CASE CommitResultFails(c)
  <2>1. /\ UNCHANGED <<rows, refs, restores, ids>> /\ FaultsGrow /\ call[c].pc = "commit"
        /\ Goto(c, "fail") /\ "fail" \in Pcs
    BY <1>3, Faulty DEF CommitResultFails, disk, db, At, Pcs
  <2>2. OnlyCall(c, Len(commits)) /\ call'[c].pc = "fail"
    BY <1>0, <2>1, GoesTo DEF Goes
  <2> QED
    BY <1>0, <2>1, <2>2, QuietMoves DEF OnlyCall, Snapping, Persists
<1> QED
  BY <1>1, <1>2, <1>3

\* What is checked and captured begins a snapshot or leaves the snapshots alone.
LEMMA QuietCapturing ==
    ASSUME Rows, Owned, NEW c \in Calls, Verify(c) \/ CaptureRecovery(c) \/ CaptureFails(c)
    PROVE  Quiet \/ Begun(c)
<1>0. c \in Callers /\ c # Operator /\ call[c].pc \notin Snapping
  BY Numbers DEF Verify, CaptureRecovery, CaptureFails, At, Snapping, Persists
<1>1. CASE Verify(c)
  <2>1. UNCHANGED <<rows, refs, restores, faults>>
    BY <1>1 DEF Verify, disk, db
  <2>2. CASE ids < SnapshotBound /\ ids' = ids + 1 /\ Begins(c, Len(commits), call[c].out)
    BY <1>0, <2>1, <2>2 DEF Begun, Begins, OnlyCall
  <2>3. CASE UNCHANGED ids /\ Rescued(c)
    <3>1. call'[c].pc \notin Snapping
      BY <2>3 DEF Rescued, Snapping, Persists
    <3> QED
      BY <1>0, <2>1, <2>3, <3>1, QuietMoves DEF Rescued, OnlyCall
  <2> QED
    BY <1>1, <2>2, <2>3, VerifyGoes
<1>2. CASE CaptureRecovery(c)
  BY <1>0, <1>2, CaptureGoes DEF Begun, Begins, OnlyCall, db
<1>3. CASE CaptureFails(c)
  <2>1. UNCHANGED <<rows, refs, restores, ids>> /\ FaultsGrow /\ Failed(c) /\ At(c, "capture")
    BY <1>3, Faulty DEF CaptureFails, disk, db
  <2>2. Rescued(c) \/ Goes(c, "fail")
    BY <1>0, <2>1, FailedGoes
  <2>3. OnlyCall(c, Len(commits)) /\ call'[c].pc \notin Snapping
    BY <2>2 DEF Rescued, Goes, Snapping, Persists
  <2> QED
    BY <1>0, <2>1, <2>3, QuietMoves DEF OnlyCall
<1> QED
  BY <1>1, <1>2, <1>3

\* So does what moves the candidate, the agents and everything beside the calls.
LEMMA QuietOthers ==
    ASSUME Rows,
           \/ CreateTask \/ Reap \/ RetryReady \/ ReworkTask \/ Advance
           \/ \E w \in Workspaces : AgentEdits(w) \/ AgentCommits(w) \/ AgentChecksOut(w) \/ AgentMerges(w)
           \/ \E c \in Callers : UpdateCandidate(c) \/ UpdateCandidateFails(c)
    PROVE  Quiet
<1>1. CASE \/ CreateTask \/ Reap \/ RetryReady \/ ReworkTask \/ Advance
           \/ \E w \in Workspaces : AgentEdits(w) \/ AgentCommits(w) \/ AgentChecksOut(w) \/ AgentMerges(w)
  <2>1. UNCHANGED <<call, rows, refs, restores, ids, faults>>
    BY <1>1 DEF CreateTask, Reap, RetryReady, ReworkTask, Advance, AgentEdits, AgentCommits, AgentChecksOut,
                AgentMerges, disk, db
  <2> QED
    BY <2>1, QuietStays
<1>2. ASSUME NEW c \in Callers, UpdateCandidate(c) \/ UpdateCandidateFails(c)
      PROVE  Quiet
  <2>1. UNCHANGED <<rows, refs, restores, ids>> /\ At(c, "candidate")
    BY <1>2 DEF UpdateCandidate, UpdateCandidateFails, disk, db
  <2>2. UNCHANGED faults \/ FaultsGrow
    BY <1>2, Faulty DEF UpdateCandidate, UpdateCandidateFails
  <2>3. Done(c) \/ Goes(c, "commit") \/ Goes(c, "fail")
    BY <1>2, CandidateGoes
  <2>4. OnlyCall(c, Len(commits)) /\ call'[c].pc \in {"idle", "commit", "fail"}
    BY <2>3, DoneAt, IdleRow, CallTypes DEF Goes
  <2> QED
    BY <2>1, <2>2, <2>4, QuietMoves DEF OnlyCall, At, Snapping, Persists
<1> QED
  BY <1>1, <1>2

\* The operator begins a snapshot.
LEMMA BegunOperating ==
    ASSUME Rows, Restore \/ Revert
    PROVE  Begun(Operator)
<1>0. /\ Operator \in Callers /\ call \in [Callers -> CallRow(Len(commits))]
      /\ At(Operator, "idle") /\ ids < SnapshotBound /\ ids' = ids + 1 /\ UNCHANGED <<rows, refs, faults>>
  BY CallTypes, Numbers DEF Restore, Revert, Asked, db
<1>1. PICK k, p, m, i, o :
         /\ k \in DOMAIN rows /\ p \in {"add", "pin"} /\ m \in {"restore", "revert"}
         /\ call' = [call EXCEPT ![Operator] = [Source(k) EXCEPT !.pc = p, !.mode = m, !.in = i, !.out = o]]
         /\ \/ m = "restore" /\ restores' = restores \cup {[id |-> ids + 1, commit |-> rows[k].out]}
            \/ UNCHANGED restores
  <2>1. CASE Restore
    BY <2>1 DEF Restore
  <2>2. CASE Revert
    BY <2>2 DEF Revert
  <2> QED
    BY <2>1, <2>2
<1>2. DOMAIN Idle = {"pc", "mode", "step", "attempt", "ws", "in", "out", "id", "result", "held"}
  BY DEF Idle
<1>3. Source(k).id = ids + 1 /\ DOMAIN Source(k) = DOMAIN Idle
  BY <1>2 DEF Source
<1>4. /\ \A d \in Callers : d # Operator => call'[d] = call[d]
      /\ call'[Operator].pc = p /\ call'[Operator].id = ids + 1 /\ call'[Operator].mode = m
  BY <1>0, <1>1, <1>2, <1>3
<1> QED
  BY <1>0, <1>1, <1>4 DEF Begun, At, Snapping, Persists

\* Every other step has to do with one snapshot.
LEMMA QuietSteps ==
    ASSUME Rows, Owned, [Next]_vars
    PROVE  \/ Quiet
           \/ \E c \in Callers : \/ Begun(c) \/ PinSnapshot(c) \/ PinFails(c) \/ CreateSnapshot(c)
                                 \/ CreateSnapshotFails(c) \/ Crash(c)
           \/ AddRestoreTree \/ AddRestoreTreeFails \/ RestoreIsOrphaned
           \/ CleanupRestore \/ CleanupRestoreFails
<1>1. CASE UNCHANGED vars
  BY <1>1, QuietStays DEF vars, disk, db
<1>2. CASE Next
  BY <1>2, QuietStarting, QuietEnding, QuietCapturing, QuietOthers, BegunOperating, Numbers
     DEF Next, ExecuteTask, Snapshot
<1> QED
  BY <1>1, <1>2

-----------------------------------------------------------------------------
(* Which id has a ref and a row. *)

\* The parts of Pinned with their types.
LEMMA PinnedTypes ==
    ASSUME Rows, Pinned
    PROVE  /\ ids \in Nat
           /\ \A k \in DOMAIN rows : rows[k].id \in Ids /\ rows[k].id <= ids /\ <<rows[k].id, rows[k].out>> \in refs
           /\ \A p \in refs : p[1] \in Ids /\ p[1] <= ids
           /\ \A b \in restores : b.id \in Ids /\ b.id <= ids
           /\ \A d \in Callers : Persisting(d) => PinOfCall(d) /\ call[d].id \in Ids
<1>1. /\ ids \in Nat /\ refs \subseteq Ids \X (1 .. Len(commits)) /\ rows \in Seq(SnapRow(Len(commits)))
      /\ restores \subseteq [id : Ids, commit : 1 .. Len(commits)]
  BY Numbers DEF Rows, Upto
<1>2. \A k \in DOMAIN rows : rows[k] \in SnapRow(Len(commits))
  BY <1>1, ElementOfSeq
<1>3. \A d \in Callers : Persisting(d) => call[d].id \in Ids
  BY DEF Rows, CallAt, Persisting, Persists
<1> QED
  BY <1>1, <1>2, <1>3 DEF Pinned, IndexedSnapshotsArePinned, SnapRow

\* Nothing of a snapshot changes.
LEMMA PinnedQuiet == Rows /\ Pinned /\ Quiet => Pinned'
<1> SUFFICES ASSUME Rows, Pinned, Quiet PROVE Pinned'
  OBVIOUS
<1>1. UNCHANGED <<rows, refs, restores, ids>>
  BY DEF Quiet
<1>2. \A c \in Callers : Persisting(c)' => Persisting(c) /\ call'[c].pc = call[c].pc /\ call'[c].mode = call[c].mode
                                           /\ call'[c].id = call[c].id /\ call'[c].out = call[c].out
  BY DEF Quiet, QuietCaller, Snapping, Persisting
<1>3. \A c \in Callers : Persisting(c)' => PinOfCall(c)'
  BY <1>1, <1>2 DEF Pinned, PinOfCall
<1> QED
  BY <1>1, <1>3 DEF Pinned, IndexedSnapshotsArePinned

\* A caller is done with its snapshot, and takes nothing with it but its own ref and branch.
LEMMA PinnedLeaves ==
    ASSUME Rows, Pinned, NEW c \in Callers, \A d \in Callers : d # c => call'[d] = call[d],
           call'[c].pc \notin Persists, UNCHANGED <<rows, ids>>, restores' \subseteq restores, refs' \subseteq refs,
           \A p \in refs : p \in refs' \/ (Persisting(c) /\ p[1] = call[c].id)
    PROVE  Pinned'
<1>0. /\ \A k \in DOMAIN rows : <<rows[k].id, rows[k].out>> \in refs
      /\ \A d \in Callers : Persisting(d) => PinOfCall(d)
  BY PinnedTypes
<1>1. IndexedSnapshotsArePinned'
  <2>1. ASSUME NEW k \in DOMAIN rows
        PROVE  <<rows[k].id, rows[k].out>> \in refs'
    <3>1. Persisting(c) => rows[k].id # call[c].id
      BY <1>0 DEF PinOfCall
    <3>2. <<rows[k].id, rows[k].out>>[1] = rows[k].id
      OBVIOUS
    <3> QED
      BY <1>0, <3>1, <3>2
  <2> QED
    BY <2>1 DEF IndexedSnapshotsArePinned
<1>2. ASSUME NEW d \in Callers, Persisting(d)' PROVE PinOfCall(d)'
  <2>1. d # c /\ call'[d] = call[d] /\ Persisting(d)
    BY <1>2 DEF Persisting
  <2>2. PinOfCall(d) /\ (Persisting(c) => call[c].id # call[d].id)
    BY <1>0, <2>1 DEF PinOfCall
  <2>3. call[d].pc = "index" => <<call[d].id, call[d].out>> \in refs'
    <3>1. <<call[d].id, call[d].out>>[1] = call[d].id
      OBVIOUS
    <3> QED
      BY <2>2, <3>1 DEF PinOfCall
  <2>4. \A e \in Callers : e # d /\ Persisting(e)' => call'[e].id # call[d].id
    BY <2>2 DEF PinOfCall, Persisting
  <2> QED
    BY <2>1, <2>2, <2>3, <2>4 DEF PinOfCall
<1> QED
  BY <1>1, <1>2 DEF Pinned

\* A new snapshot has an id that nothing has.
LEMMA PinnedBegun ==
    ASSUME Rows, Pinned, NEW c \in Callers, Begun(c)
    PROVE  Pinned'
<1>0. /\ ids \in Nat /\ ids' = ids + 1 /\ UNCHANGED <<rows, refs>>
      /\ \A k \in DOMAIN rows : rows[k].id \in Nat /\ rows[k].id <= ids
      /\ \A p \in refs : p[1] \in Nat /\ p[1] <= ids
      /\ \A b \in restores : b.id \in Nat /\ b.id <= ids
      /\ \A d \in Callers : Persisting(d) => PinOfCall(d) /\ call[d].id \in Nat
      /\ \A d \in Callers : d # c => call'[d] = call[d]
      /\ call'[c].pc \in {"add", "pin"} /\ call'[c].id = ids + 1
  <2>1. Ids \subseteq Nat
    BY DEF Ids
  <2>2. UNCHANGED <<rows, refs>>
    BY DEF Begun
  <2>3. /\ ids' = ids + 1 /\ call'[c].pc \in {"add", "pin"} /\ call'[c].id = ids + 1
        /\ \A d \in Callers : d # c => call'[d] = call[d]
    BY DEF Begun
  <2> QED
    BY <2>1, <2>2, <2>3, PinnedTypes
<1>1. /\ \A b \in restores' : b.id \in Nat /\ b.id <= ids + 1 /\ (b \in restores \/ b.id = ids + 1)
      /\ call'[c].mode # "restore" => restores' = restores
  BY <1>0 DEF Begun
<1>2. \A d \in Callers : d # c /\ Persisting(d) => call[d].id <= ids
  BY <1>0 DEF PinOfCall
<1>3. PinOfCall(c)'
  <2>1. \A k \in DOMAIN rows : rows[k].id # ids + 1
    BY <1>0
  <2>2. \A d \in Callers : d # c /\ Persisting(d)' => call'[d].id # ids + 1
    BY <1>0, <1>2 DEF Persisting
  <2>3. \A p \in refs : p[1] # ids + 1
    BY <1>0
  <2>4. call'[c].mode # "restore" => \A b \in restores' : b.id # ids + 1
    BY <1>0, <1>1
  <2> QED
    BY <1>0, <2>1, <2>2, <2>3, <2>4 DEF PinOfCall
<1>4. ASSUME NEW d \in Callers, Persisting(d)', d # c PROVE PinOfCall(d)'
  <2>1. call'[d] = call[d] /\ Persisting(d) /\ PinOfCall(d) /\ call[d].id \in Nat /\ call[d].id <= ids
    BY <1>0, <1>2, <1>4 DEF Persisting
  <2>2. \A e \in Callers : e # d /\ Persisting(e)' => call'[e].id # call[d].id
    BY <1>0, <2>1 DEF PinOfCall, Persisting
  <2>3. call[d].mode # "restore" => \A b \in restores' : b.id # call[d].id
    BY <1>0, <1>1, <2>1 DEF PinOfCall
  <2>4. call[d].id <= ids + 1
    BY <1>0, <2>1
  <2> QED
    BY <1>0, <2>1, <2>2, <2>3, <2>4 DEF PinOfCall
<1>5. /\ \A k \in DOMAIN rows : rows[k].id <= ids + 1
      /\ \A p \in refs : p[1] <= ids + 1
  BY <1>0
<1> QED
  BY <1>0, <1>1, <1>3, <1>4, <1>5 DEF Pinned, IndexedSnapshotsArePinned

\* The ref of a snapshot is created.
LEMMA PinnedPinSnapshot ==
    ASSUME Rows, Pinned, NEW c \in Callers, PinSnapshot(c)
    PROVE  Pinned'
<1>0. /\ At(c, "pin") /\ Persisting(c) /\ PinOfCall(c) /\ Goes(c, "index") /\ UNCHANGED <<rows, restores, ids>>
      /\ refs' = refs \cup {<<call[c].id, call[c].out>>}
      /\ \A r \in refs : r[1] # call[c].id
  <2>1. "index" \in Pcs /\ Goto(c, "index")
    BY DEF Pcs, PinSnapshot
  <2>2. At(c, "pin") /\ Persisting(c)
    BY DEF PinSnapshot, At, Persisting, Persists
  <2> QED
    BY <2>1, <2>2, GoesTo DEF PinSnapshot, Pinned, db
<1>1. \A p \in refs' : p \in refs \/ (p[1] = call[c].id /\ p[2] = call[c].out)
  BY <1>0
<1>2. /\ call'[c].pc = "index" /\ call'[c].mode = call[c].mode /\ call'[c].id = call[c].id /\ call'[c].out = call[c].out
      /\ \A d \in Callers : d # c => call'[d] = call[d]
  BY <1>0 DEF Goes, OnlyCall
<1>3. \A d \in Callers : Persisting(d)' => Persisting(d) /\ call'[d].id = call[d].id
  BY <1>0, <1>2 DEF Persisting
<1>4. PinOfCall(c)'
  BY <1>0, <1>1, <1>2, <1>3 DEF PinOfCall
<1>5. ASSUME NEW d \in Callers, Persisting(d)', d # c PROVE PinOfCall(d)'
  <2>1. call'[d] = call[d] /\ Persisting(d) /\ PinOfCall(d) /\ call[d].id # call[c].id
    BY <1>0, <1>2, <1>3, <1>5 DEF PinOfCall, Pinned
  <2>2. \A p \in refs' : p[1] = call[d].id => p \in refs
    BY <1>1, <2>1
  <2> QED
    BY <1>0, <1>3, <2>1, <2>2 DEF PinOfCall
<1> QED
  BY <1>0, <1>1, <1>4, <1>5 DEF Pinned, IndexedSnapshotsArePinned, PinOfCall

\* The worktree of a restore changes nothing of its snapshot.
LEMMA PinnedAddRestoreTree ==
    ASSUME Rows, Pinned, AddRestoreTree
    PROVE  Pinned'
<1> DEFINE o == Operator
<1>0. /\ o \in Callers /\ At(o, "add") /\ Persisting(o) /\ PinOfCall(o) /\ Goes(o, "pin")
      /\ UNCHANGED <<rows, refs, restores, ids>>
  <2>1. o \in Callers /\ At(o, "add") /\ Persisting(o) /\ "pin" \in Pcs /\ Goto(o, "pin")
    BY Numbers DEF AddRestoreTree, At, Persisting, Persists, Pcs
  <2> QED
    BY <2>1, GoesTo DEF AddRestoreTree, Pinned, disk, db
<1>1. /\ call'[o].pc = "pin" /\ call'[o].mode = call[o].mode /\ call'[o].id = call[o].id
      /\ call'[o].out = call[o].out
      /\ \A d \in Callers : d # o => call'[d] = call[d]
  BY <1>0 DEF Goes, OnlyCall
<1>2. \A d \in Callers : Persisting(d)' => Persisting(d) /\ call'[d].id = call[d].id
  BY <1>0, <1>1 DEF Persisting
<1>3. PinOfCall(o)'
  BY <1>0, <1>1, <1>2 DEF PinOfCall, At
<1>4. ASSUME NEW d \in Callers, Persisting(d)', d # o PROVE PinOfCall(d)'
  BY <1>0, <1>1, <1>2, <1>4 DEF PinOfCall, Pinned
<1> QED
  BY <1>0, <1>3, <1>4 DEF Pinned, IndexedSnapshotsArePinned

\* The row of a pinned snapshot is appended.
LEMMA PinnedCreateSnapshot ==
    ASSUME Rows, Pinned, NEW c \in Callers, CreateSnapshot(c)
    PROVE  Pinned'
<1> DEFINE row == [id |-> call[c].id, step |-> call[c].step, attempt |-> call[c].attempt,
                   kind |-> Kind(c), in |-> call[c].in, out |-> call[c].out]
<1>0. /\ At(c, "index") /\ Persisting(c) /\ PinOfCall(c) /\ UNCHANGED <<refs, restores, ids>>
      /\ rows' = Append(rows, row) /\ <<call[c].id, call[c].out>> \in refs /\ call[c].id <= ids
  <2>1. At(c, "index") /\ Persisting(c)
    BY DEF CreateSnapshot, At, Persisting, Persists
  <2> QED
    BY <2>1 DEF CreateSnapshot, Pinned, PinOfCall, disk, At
<1>1. \A d \in Callers : d # c => call'[d] = call[d]
  BY IndexedGoes, DoneAt DEF Goes, OnlyCall
<1>2. call'[c].pc \notin Persists
  BY IndexedGoes, DoneAt, IdleRow, CallTypes DEF Goes, Persists
<1>3. row.id = call[c].id /\ row.out = call[c].out
  OBVIOUS
<1> HIDE DEF row
<1>4. \A k \in DOMAIN rows' : (k \in DOMAIN rows /\ rows'[k] = rows[k]) \/ rows'[k] = row
  <2>1. rows \in Seq(SnapRow(Len(commits)))
    BY DEF Rows, Upto
  <2>2. \A k \in 1 .. Len(rows) + 1 : (k \in 1 .. Len(rows) /\ rows'[k] = rows[k]) \/ rows'[k] = row
    BY <1>0, <2>1
  <2>3. DOMAIN rows' = 1 .. Len(rows) + 1 /\ DOMAIN rows = 1 .. Len(rows)
    BY <1>0, <2>1
  <2> QED
    BY <2>2, <2>3
<1>5. \A k \in DOMAIN rows' : rows'[k].id <= ids /\ <<rows'[k].id, rows'[k].out>> \in refs
  BY <1>0, <1>3, <1>4 DEF Pinned, IndexedSnapshotsArePinned
<1>6. ASSUME NEW d \in Callers, Persisting(d)' PROVE PinOfCall(d)'
  <2>1. d # c /\ call'[d] = call[d] /\ Persisting(d) /\ PinOfCall(d) /\ call[d].id # call[c].id
    BY <1>0, <1>1, <1>2, <1>6 DEF PinOfCall, Pinned, Persisting
  <2>2. \A k \in DOMAIN rows' : rows'[k].id # call[d].id
    BY <1>3, <1>4, <2>1 DEF PinOfCall
  <2>3. \A e \in Callers : e # d /\ Persisting(e)' => call'[e].id # call[d].id
    BY <1>1, <1>2, <2>1 DEF PinOfCall, Persisting
  <2> QED
    BY <1>0, <2>1, <2>2, <2>3 DEF PinOfCall
<1> QED
  BY <1>0, <1>5, <1>6 DEF Pinned, IndexedSnapshotsArePinned

\* An error ends the snapshot; only a row that cannot be written takes its ref back.
LEMMA PinnedFails ==
    ASSUME Rows, Pinned, NEW c \in Callers, PinFails(c) \/ CreateSnapshotFails(c)
    PROVE  Pinned'
<1>1. Persisting(c) /\ Failed(c) /\ UNCHANGED <<rows, restores, ids>>
  BY DEF PinFails, CreateSnapshotFails, At, Persisting, Persists, disk, db
<1>2. (\A d \in Callers : d # c => call'[d] = call[d]) /\ call'[c].pc \notin Persists
  BY <1>1, FailedGoes, DoneAt, IdleRow, CallTypes DEF Goes, Rescued, OnlyCall, Persists
<1>3. refs' = refs \/ refs' = refs \ {<<call[c].id, call[c].out>>}
  BY DEF PinFails, CreateSnapshotFails, disk
<1>4. refs' \subseteq refs /\ \A p \in refs : p \in refs' \/ p[1] = call[c].id
  BY <1>3
<1> QED
  BY <1>1, <1>2, <1>4, PinnedLeaves

\* A caller that is done has no snapshot in hand.
LEMMA PinnedDone ==
    ASSUME Rows, Pinned, NEW c \in Callers, Done(c), UNCHANGED <<rows, refs, ids>>, restores' \subseteq restores
    PROVE  Pinned'
<1>1. (\A d \in Callers : d # c => call'[d] = call[d]) /\ call'[c].pc \notin Persists
  BY DoneAt, IdleRow, CallTypes DEF OnlyCall, Persists
<1> QED
  BY <1>1, PinnedLeaves

\* Every step keeps Pinned.
LEMMA NextPinned == Rows /\ Owned /\ Pinned /\ [Next]_vars => Pinned'
<1> SUFFICES ASSUME Rows, Owned, Pinned, [Next]_vars PROVE Pinned'
  OBVIOUS
<1>1. ASSUME NEW c \in Callers, Crash(c) PROVE Pinned'
  <2>1. Done(c) /\ UNCHANGED <<rows, refs, ids>> /\ restores' \subseteq restores
    BY <1>1 DEF Crash, disk, db
  <2> QED
    BY <2>1, PinnedDone
<1>2. CASE AddRestoreTreeFails \/ RestoreIsOrphaned \/ CleanupRestore \/ CleanupRestoreFails
  <2>1. Operator \in Callers /\ Done(Operator) /\ UNCHANGED <<rows, refs, ids>> /\ restores' \subseteq restores
    BY <1>2, Numbers DEF AddRestoreTreeFails, RestoreIsOrphaned, CleanupRestore, CleanupRestoreFails, disk, db
  <2> QED
    BY <2>1, PinnedDone
<1> QED
  BY <1>1, <1>2, QuietSteps, PinnedQuiet, PinnedBegun, PinnedAddRestoreTree, PinnedPinSnapshot,
     PinnedCreateSnapshot, PinnedFails

\* Nothing has an id in the first state.
LEMMA InitPinned == Init => Pinned
<1> SUFFICES ASSUME Init PROVE Pinned
  OBVIOUS
<1>1. \A c \in Callers : ~Persisting(c)
  BY IdleRow DEF Init, Persisting, Persists
<1>2. refs = {} /\ restores = {} /\ DOMAIN rows = {}
  BY DEF Init
<1> QED
  BY <1>1, <1>2 DEF Pinned, IndexedSnapshotsArePinned

\* The three layers hold together.
LEMMA RowsOwnedPinned == Spec => [](Rows /\ Owned /\ Pinned)
<1>1. Init => Rows /\ Owned /\ Pinned
  BY InitRows, InitOwned, InitPinned
<1>2. Rows /\ Owned /\ Pinned /\ [Next]_vars => (Rows /\ Owned /\ Pinned)'
  BY NextRows, NextOwned, NextPinned
<1> QED
  BY <1>1, <1>2, PTL DEF Spec

\* A snapshot of the table has its ref for ever, at its commit, whatever failed on the way and
\* whoever else takes, restores or reverts snapshots (persist and its compensation).
THEOREM SnapshotsArePinned == Spec => []IndexedSnapshotsArePinned
<1>1. Pinned => IndexedSnapshotsArePinned
  BY DEF Pinned
<1> QED
  BY <1>1, RowsOwnedPinned, PTL

-----------------------------------------------------------------------------
(* What has been left behind. *)

\* The ids are finitely many, and so is what is left behind.
LEMMA LeftoverIsFinite ==
    /\ Leftover \subseteq Ids /\ IsFiniteSet(Leftover) /\ Cardinality(Leftover) \in Nat
    /\ Leftover' \subseteq Ids /\ IsFiniteSet(Leftover') /\ Cardinality(Leftover') \in Nat
<1>1. IsFiniteSet(Ids)
  BY Numbers, FS_Interval DEF Ids
<1>2. Leftover \subseteq Ids /\ Leftover' \subseteq Ids
  BY DEF Leftover
<1> QED
  BY <1>1, <1>2, FS_Subset, FS_CardinalityType

\* A step that leaves nothing new behind.
LEMMA CountedSame ==
    ASSUME Rows, Counted, FaultsGrow, Leftover' \subseteq Leftover
    PROVE  Counted'
<1>1. Cardinality(Leftover') <= Cardinality(Leftover)
  BY LeftoverIsFinite, FS_Subset
<1>2. faults \in FaultRow
  BY DEF Rows
<1> QED
  BY <1>1, <1>2, LeftoverIsFinite DEF Counted, FaultsGrow, FaultRow

\* A crash, a compensation that fails or an error that nothing compensates leaves one id behind.
LEMMA CountedOne ==
    ASSUME Rows, Counted, NEW x, Leftover' \subseteq Leftover \cup {x}, faults' \in FaultRow,
           faults'.crash + faults'.undo + faults'.orphan = faults.crash + faults.undo + faults.orphan + 1
    PROVE  Counted'
<1>1. /\ IsFiniteSet(Leftover \cup {x}) /\ Cardinality(Leftover \cup {x}) \in Nat
      /\ Cardinality(Leftover \cup {x}) <= Cardinality(Leftover) + 1
  <2>1. /\ IsFiniteSet(Leftover \cup {x})
        /\ Cardinality(Leftover \cup {x}) = IF x \in Leftover THEN Cardinality(Leftover) ELSE Cardinality(Leftover) + 1
    BY LeftoverIsFinite, FS_AddElement
  <2> QED
    BY <2>1, LeftoverIsFinite
<1>2. Cardinality(Leftover') <= Cardinality(Leftover \cup {x})
  BY <1>1, FS_Subset
<1>3. faults \in FaultRow
  BY DEF Rows
<1> QED
  BY <1>1, <1>2, <1>3, LeftoverIsFinite DEF Counted, FaultRow

\* Whatever a caller does with one id leaves the others alone.
LEMMA OthersLeft ==
    ASSUME NEW c \in Callers, NEW x, call[c].pc \in Snapping => call[c].id = x,
           \A d \in Callers : d # c => call'[d] = call[d],
           \A k \in DOMAIN rows : \E j \in DOMAIN rows' : rows'[j] = rows[k],
           \A p \in refs \cup refs' : p[1] # x => p \in refs /\ p \in refs',
           \A b \in restores \cup restores' : b.id # x => b \in restores /\ b \in restores'
    PROVE  Leftover' \subseteq Leftover \cup {x}
<1> SUFFICES ASSUME NEW id \in Leftover', id # x PROVE id \in Leftover
  OBVIOUS
<1>1. id \in Ids /\ (\A k \in DOMAIN rows' : rows'[k].id # id) /\ HasTrace(id)' /\ ~InHand(id)'
  BY DEF Leftover
<1>2. \A k \in DOMAIN rows : rows[k].id # id
  BY <1>1
<1>3. (HasRef(id)' <=> HasRef(id)) /\ HasTrace(id)
  BY <1>1 DEF HasTrace, HasRef
<1>4. ~InHand(id)
  BY <1>1, <1>3 DEF InHand, Persisting, At, Snapping
<1> QED
  BY <1>1, <1>2, <1>3, <1>4 DEF Leftover

\* Nothing of a snapshot changes.
LEMMA CountedQuiet == Rows /\ Counted /\ Quiet => Counted'
<1> SUFFICES ASSUME Rows, Counted, Quiet PROVE Counted'
  OBVIOUS
<1>1. UNCHANGED <<rows, refs, restores>> /\ FaultsGrow
  BY DEF Quiet
<1>2. \A c \in Callers : call[c].pc \in Snapping => call'[c].pc = call[c].pc /\ call'[c].id = call[c].id
  BY DEF Quiet, QuietCaller
<1>3. \A id \in Ids : (HasRef(id)' <=> HasRef(id)) /\ (HasTrace(id)' <=> HasTrace(id)) /\ (InHand(id) => InHand(id)')
  BY <1>1, <1>2 DEF HasRef, HasTrace, InHand, Persisting, At, Snapping
<1>4. Leftover' \subseteq Leftover
  BY <1>1, <1>3 DEF Leftover
<1> QED
  BY <1>1, <1>4, CountedSame

\* A snapshot that is begun is in hand.
LEMMA CountedBegun ==
    ASSUME Rows, Counted, NEW c \in Callers, Begun(c)
    PROVE  Counted'
<1>1. Leftover' \subseteq Leftover \cup {ids + 1}
  <2>1. \A b \in restores \cup restores' : b.id # ids + 1 => b \in restores /\ b \in restores'
    BY DEF Begun
  <2> QED
    BY <2>1, OthersLeft DEF Begun
<1>2. ids + 1 \notin Leftover'
  BY DEF Begun, Leftover, InHand, Persisting, Persists
<1>3. FaultsGrow
  BY DEF Begun, FaultsGrow, Rows, FaultRow
<1> QED
  BY <1>1, <1>2, <1>3, CountedSame

\* So is one that is pinned, and one that is indexed has a row.
LEMMA CountedPersists ==
    ASSUME Rows, Pinned, Counted, NEW c \in Callers, PinSnapshot(c) \/ CreateSnapshot(c)
    PROVE  Counted'
<1> DEFINE x == call[c].id
<1>1. UNCHANGED <<restores, faults>> /\ \A d \in Callers : d # c => call'[d] = call[d]
  BY GoesTo, IndexedGoes, DoneAt DEF PinSnapshot, CreateSnapshot, Goes, OnlyCall, Pcs, disk
<1>2. FaultsGrow
  BY <1>1 DEF FaultsGrow, Rows, FaultRow
<1>3. CASE PinSnapshot(c)
  <2>1. UNCHANGED rows /\ refs' = refs \cup {<<x, call[c].out>>}
    BY <1>3 DEF PinSnapshot, db
  <2>2. Leftover' \subseteq Leftover \cup {x}
    BY <1>1, <2>1, OthersLeft
  <2>3. call'[c].pc = "index" /\ call'[c].id = x
    BY <1>3, GoesTo DEF PinSnapshot, Goes, Pcs
  <2>4. x \notin Leftover'
    BY <2>3 DEF Leftover, InHand, Persisting, Persists
  <2> QED
    BY <1>2, <2>2, <2>4, CountedSame
<1>4. CASE CreateSnapshot(c)
  <2> DEFINE row == [id |-> x, step |-> call[c].step, attempt |-> call[c].attempt,
                     kind |-> Kind(c), in |-> call[c].in, out |-> call[c].out]
  <2>1. UNCHANGED refs /\ rows' = Append(rows, row) /\ row.id = x
    BY <1>4 DEF CreateSnapshot, disk
  <2> HIDE DEF row
  <2>2. /\ \A k \in DOMAIN rows : \E j \in DOMAIN rows' : rows'[j] = rows[k]
        /\ \E j \in DOMAIN rows' : rows'[j] = row
    <3>1. rows \in Seq(SnapRow(Len(commits)))
      BY DEF Rows, Upto
    <3>2. DOMAIN rows' = 1 .. Len(rows) + 1 /\ DOMAIN rows = 1 .. Len(rows) /\ Len(rows) \in Nat
      BY <2>1, <3>1
    <3>3. \A k \in 1 .. Len(rows) : rows'[k] = rows[k] /\ k \in 1 .. Len(rows) + 1
      BY <2>1, <3>1
    <3>4. rows'[Len(rows) + 1] = row /\ Len(rows) + 1 \in 1 .. Len(rows) + 1
      BY <2>1, <3>1, <3>2
    <3> QED
      BY <3>2, <3>3, <3>4
  <2>3. Leftover' \subseteq Leftover \cup {x}
    BY <1>1, <2>1, <2>2, OthersLeft
  <2>4. x \notin Leftover'
    BY <2>1, <2>2 DEF Leftover
  <2> QED
    BY <1>2, <2>3, <2>4, CountedSame
<1> QED
  BY <1>3, <1>4

\* A failed snapshot leaves nothing, unless its ref could not be taken back: a restore is
\* cleaned up, and everything else has no branch.
LEMMA CountedFails ==
    ASSUME Rows, Pinned, Counted, NEW c \in Callers, PinFails(c) \/ CreateSnapshotFails(c)
    PROVE  Counted'
<1>0. PICK x : x = call[c].id
  OBVIOUS
<1>1. Persisting(c) /\ Failed(c) /\ PinOfCall(c) /\ UNCHANGED <<rows, restores>>
  <2>1. Persisting(c)
    BY DEF PinFails, CreateSnapshotFails, At, Persisting, Persists
  <2> QED
    BY <2>1 DEF PinFails, CreateSnapshotFails, Pinned, disk, db
<1>2. \A d \in Callers : d # c => call'[d] = call[d]
  BY <1>1, FailedGoes, DoneAt DEF Goes, Rescued, OnlyCall
<1>3. refs' = refs \/ refs' = refs \ {<<x, call[c].out>>}
  BY <1>0 DEF PinFails, CreateSnapshotFails, disk
<1>4. Leftover' \subseteq Leftover \cup {x}
  BY <1>0, <1>1, <1>2, <1>3, OthersLeft
<1>5. CASE PinFails(c) \/ (Fault("effect") /\ refs' = refs \ {<<x, call[c].out>>})
  <2>1. FaultsGrow
    BY <1>5, Faulty DEF PinFails
  <2>2. ~HasRef(x)'
    <3>1. CASE PinFails(c)
      <4>1. call[c].pc = "pin" /\ UNCHANGED refs
        BY <3>1 DEF PinFails, At, disk
      <4> QED
        BY <1>0, <1>1, <4>1 DEF PinOfCall, HasRef
    <3>2. CASE refs' = refs \ {<<x, call[c].out>>}
      <4>1. \A p \in refs : p[1] = x => p = <<x, call[c].out>>
        <5>1. refs \subseteq Ids \X (1 .. Len(commits))
          BY DEF Rows, Upto
        <5>2. \A p \in refs : p = <<p[1], p[2]>>
          BY <5>1
        <5> QED
          BY <1>0, <1>1, <5>2 DEF PinOfCall
      <4> QED
        BY <3>2, <4>1 DEF HasRef
    <3> QED
      BY <1>5, <3>1, <3>2
  <2>3. CASE call[c].mode = "restore"
    <3>1. call'[c].pc = "cleanup" /\ call'[c].id = x
      BY <1>0, <1>1, <2>3, FailedGoes DEF Goes
    <3>2. x \notin Leftover'
      BY <2>2, <3>1 DEF Leftover, InHand, At
    <3> QED
      BY <1>4, <2>1, <3>2, CountedSame
  <2>4. CASE call[c].mode # "restore"
    <3>1. ~HasTrace(x)'
      BY <1>0, <1>1, <2>2, <2>4 DEF HasTrace, PinOfCall, HasRef
    <3>2. x \notin Leftover'
      BY <3>1 DEF Leftover
    <3> QED
      BY <1>4, <2>1, <3>2, CountedSame
  <2> QED
    BY <2>3, <2>4
<1>6. CASE Fault("undo")
  <2>1. faults \in FaultRow
    BY DEF Rows
  <2>2. /\ faults' \in FaultRow /\ faults'.crash = faults.crash /\ faults'.undo = faults.undo + 1
        /\ faults'.orphan = faults.orphan
    BY <1>6, <2>1, Faulted DEF FaultRow
  <2> QED
    BY <1>4, <2>1, <2>2, CountedOne DEF FaultRow
<1> QED
  BY <1>0, <1>5, <1>6 DEF CreateSnapshotFails

\* A crash leaves at most what the caller had in hand.
LEMMA CountedCrash ==
    ASSUME Rows, Counted, NEW c \in Callers, Crash(c)
    PROVE  Counted'
<1>1. Done(c) /\ Fault("crash") /\ UNCHANGED <<rows, refs, restores>>
  BY DEF Crash, disk, db
<1>2. \A d \in Callers : d # c => call'[d] = call[d]
  BY <1>1, DoneAt DEF OnlyCall
<1>3. Leftover' \subseteq Leftover \cup {call[c].id}
  BY <1>1, <1>2, OthersLeft
<1>4. faults \in FaultRow
  BY DEF Rows
<1>5. /\ faults' \in FaultRow /\ faults'.crash = faults.crash + 1 /\ faults'.undo = faults.undo
      /\ faults'.orphan = faults.orphan
  BY <1>1, <1>4, Faulted DEF FaultRow
<1> QED
  BY <1>3, <1>4, <1>5, CountedOne DEF FaultRow

\* The branch of a restore is removed, or counted when it cannot be.
LEMMA CountedCleanup ==
    ASSUME Rows, Counted, CleanupRestore \/ CleanupRestoreFails
    PROVE  Counted'
<1> DEFINE o == Operator
<1>0. PICK x : x = call[o].id
  OBVIOUS
<1>1. o \in Callers /\ At(o, "cleanup") /\ Done(o) /\ UNCHANGED <<rows, refs>>
  BY Numbers DEF CleanupRestore, CleanupRestoreFails, disk, db
<1>2. \A d \in Callers : d # o => call'[d] = call[d]
  BY <1>1, DoneAt DEF OnlyCall
<1>3. restores' = restores \/ restores' = {r \in restores : r.id # x}
  BY <1>0 DEF CleanupRestore, CleanupRestoreFails, disk
<1>4. Leftover' \subseteq Leftover \cup {x}
  BY <1>0, <1>1, <1>2, <1>3, OthersLeft
<1>5. faults \in FaultRow
  BY DEF Rows
<1>6. CASE CleanupRestore
  <2>1. restores' = {r \in restores : r.id # x} /\ UNCHANGED faults
    BY <1>0, <1>6 DEF CleanupRestore
  <2>2. x \in Leftover' => x \in Leftover
    <3> SUFFICES ASSUME x \in Leftover' PROVE x \in Leftover
      OBVIOUS
    <3>1. x \in Ids /\ (\A k \in DOMAIN rows : rows[k].id # x) /\ HasTrace(x)' /\ ~InHand(x)'
      BY <1>1 DEF Leftover
    <3>2. HasRef(x) /\ (HasRef(x)' <=> HasRef(x)) /\ HasTrace(x)
      BY <1>1, <2>1, <3>1 DEF HasTrace, HasRef
    <3>3. ~InHand(x)
      BY <1>1, <1>2, <3>1, <3>2 DEF InHand, Persisting, At, Persists
    <3> QED
      BY <3>1, <3>2, <3>3 DEF Leftover
  <2>3. FaultsGrow
    BY <1>5, <2>1 DEF FaultsGrow, FaultRow
  <2> QED
    BY <1>4, <2>2, <2>3, CountedSame
<1>7. CASE CleanupRestoreFails
  <2>1. /\ faults' \in FaultRow /\ faults'.crash = faults.crash /\ faults'.undo = faults.undo + 1
        /\ faults'.orphan = faults.orphan
    BY <1>5, <1>7 DEF CleanupRestoreFails, FaultRow
  <2>2. faults'.crash + faults'.undo + faults'.orphan = faults.crash + faults.undo + faults.orphan + 1
    BY <1>5, <2>1 DEF FaultRow
  <2> QED
    BY <1>4, <2>1, <2>2, CountedOne
<1> QED
  BY <1>6, <1>7

\* A restore whose worktree is added stays in hand.
LEMMA CountedAddRestoreTree ==
    ASSUME Rows, Counted, AddRestoreTree
    PROVE  Counted'
<1> DEFINE o == Operator
<1>1. o \in Callers /\ Goto(o, "pin") /\ "pin" \in Pcs /\ UNCHANGED <<rows, refs, restores, faults>>
  BY Numbers DEF AddRestoreTree, Pcs, disk, db
<1>2. /\ call'[o].pc = "pin" /\ call'[o].id = call[o].id
      /\ \A d \in Callers : d # o => call'[d] = call[d]
  BY <1>1, GoesTo DEF Goes, OnlyCall
<1>3. \A id : InHand(id) => InHand(id)'
  <2> SUFFICES ASSUME NEW id, NEW c \in Callers, call[c].id = id, Persisting(c) \/ (At(c, "cleanup") /\ ~HasRef(id))
               PROVE  call'[c].id = id /\ (Persisting(c)' \/ (At(c, "cleanup") /\ ~HasRef(id))')
    BY DEF InHand
  <2>1. CASE c = o
    BY <1>2, <2>1 DEF Persisting, Persists
  <2>2. CASE c # o
    BY <1>1, <1>2, <2>2 DEF Persisting, At, HasRef
  <2> QED
    BY <2>1, <2>2
<1>4. Leftover' \subseteq Leftover
  BY <1>1, <1>3 DEF Leftover, HasTrace, HasRef
<1>5. FaultsGrow
  BY <1>1 DEF FaultsGrow, Rows, FaultRow
<1> QED
  BY <1>4, <1>5, CountedSame

\* Without its worktree a restore has only the branch, which is deleted or counted; with it
\* and an error after it, the branch is counted.
LEMMA CountedRestoreFails ==
    ASSUME Rows, Pinned, Counted, AddRestoreTreeFails \/ RestoreIsOrphaned
    PROVE  Counted'
<1> DEFINE o == Operator
<1>0. PICK x : x = call[o].id
  OBVIOUS
<1>1. o \in Callers /\ At(o, "add") /\ Done(o) /\ UNCHANGED <<rows, refs>>
  BY Numbers DEF AddRestoreTreeFails, RestoreIsOrphaned, disk, db
<1>2. \A d \in Callers : d # o => call'[d] = call[d]
  BY <1>1, DoneAt DEF OnlyCall
<1>3. restores' = restores \/ restores' = {r \in restores : r.id # x}
  BY <1>0 DEF AddRestoreTreeFails, RestoreIsOrphaned, disk
<1>4. Leftover' \subseteq Leftover \cup {x}
  BY <1>0, <1>1, <1>2, <1>3, OthersLeft
<1>5. faults \in FaultRow
  BY DEF Rows
<1>6. CASE Fault("effect") /\ restores' = {r \in restores : r.id # x}
  <2>1. FaultsGrow
    BY <1>6, Faulty
  <2>2. ~HasRef(x)
    <3>1. call[o].pc = "add" /\ Persisting(o) /\ PinOfCall(o)
      BY <1>1 DEF At, Persisting, Persists, Pinned
    <3> QED
      BY <1>0, <3>1 DEF PinOfCall, HasRef
  <2>3. x \notin Leftover'
    BY <1>1, <1>6, <2>2 DEF Leftover, HasTrace, HasRef
  <2> QED
    BY <1>4, <2>1, <2>3, CountedSame
<1>7. CASE Fault("undo") \/ Fault("orphan")
  <2>1. PICK k \in {"undo", "orphan"} : Fault(k)
    BY <1>7
  <2>2. /\ faults' \in FaultRow /\ faults'.crash = faults.crash
        /\ faults'.undo = faults.undo + (IF k = "undo" THEN 1 ELSE 0)
        /\ faults'.orphan = faults.orphan + (IF k = "orphan" THEN 1 ELSE 0)
    BY <1>5, <2>1, Faulted DEF FaultRow
  <2>3. faults'.crash + faults'.undo + faults'.orphan = faults.crash + faults.undo + faults.orphan + 1
    BY <1>5, <2>1, <2>2 DEF FaultRow
  <2> QED
    BY <1>4, <2>2, <2>3, CountedOne
<1> QED
  BY <1>0, <1>6, <1>7 DEF AddRestoreTreeFails, RestoreIsOrphaned

\* Every step keeps the count.
LEMMA NextCounted == Rows /\ Owned /\ Pinned /\ Counted /\ [Next]_vars => Counted'
  BY QuietSteps, CountedQuiet, CountedBegun, CountedAddRestoreTree, CountedRestoreFails, CountedPersists,
     CountedFails, CountedCrash, CountedCleanup

\* Nothing is left behind in the first state.
LEMMA InitCounted == Init => Counted
<1> SUFFICES ASSUME Init PROVE Counted
  OBVIOUS
<1>1. Leftover = {}
  BY DEF Init, Leftover, HasTrace, HasRef
<1>2. faults.crash + faults.undo + faults.orphan = 0
  BY DEF Init
<1> QED
  BY <1>1, <1>2, FS_EmptySet DEF Counted

\* A ref or a restore branch without a row, that nobody has in hand, is paid for by a crash, by
\* a compensation that failed, or by an error in the one gap that nothing compensates, after the
\* worktree of a restore was added: no failure that is handled leaves one (persist, restore).
THEOREM LeftBehindIsCounted == Spec => []NothingIsLeftBehind
<1>1. Init => Rows /\ Owned /\ Pinned /\ Counted
  BY InitRows, InitOwned, InitPinned, InitCounted
<1>2. Rows /\ Owned /\ Pinned /\ Counted /\ [Next]_vars => (Rows /\ Owned /\ Pinned /\ Counted)'
  BY NextRows, NextOwned, NextPinned, NextCounted
<1>3. Rows /\ Counted => NothingIsLeftBehind
  <2> SUFFICES ASSUME Rows, Counted PROVE NothingIsLeftBehind
    OBVIOUS
  <2> DEFINE L == {id \in Ids : Unindexed(id) /\ (\/ \E r \in refs : r[1] = id
                                                 \/ \E r \in restores : r.id = id)}
  <2>1. L \subseteq Leftover
    BY DEF Leftover, Unindexed, HasTrace, HasRef, InHand
  <2>2. Cardinality(L) \in Nat /\ Cardinality(L) <= Cardinality(Leftover)
    BY <2>1, LeftoverIsFinite, FS_Subset, FS_CardinalityType
  <2>3. faults \in FaultRow
    BY DEF Rows
  <2> HIDE DEF L
  <2>4. Cardinality(L) <= faults.crash + faults.undo + faults.orphan
    BY <2>2, <2>3, LeftoverIsFinite DEF Counted, FaultRow
  <2> QED
    BY <2>4 DEF L, NothingIsLeftBehind
<1> QED
  BY <1>1, <1>2, <1>3, PTL DEF Spec

-----------------------------------------------------------------------------
(* What a step does to the tables and to the callers. *)

\* It forgets no snapshot and no attempt, and moves the candidate and the step in one way only.
LEMMA HistoryGrows ==
    ASSUME Rows, [Next]_vars
    PROVE  /\ gone \subseteq gone' /\ late \subseteq late'
           /\ rows' = rows \/ \E c \in Callers : CreateSnapshot(c)
           /\ run'.candidate = run.candidate \/ \E c \in Callers : UpdateCandidate(c)
           /\ run'.step = run.step \/ Advance
<1>0. run \in [step : 1 .. Len(Agents) + 1, candidate : 1 .. Len(commits)]
  BY DEF Rows, Upto
<1>1. CASE UNCHANGED vars
  BY <1>1 DEF vars, db, past
<1>2. ASSUME NEW c \in Callers, Snapshot(c) \/ Crash(c)
      PROVE  /\ gone \subseteq gone' /\ late \subseteq late' /\ run'.step = run.step
             /\ rows' = rows \/ CreateSnapshot(c)
             /\ run' = run \/ UpdateCandidate(c)
  <2>1. CASE UpdateCandidate(c)
    <3>1. run' = [run EXCEPT !.candidate = call[c].out] /\ UNCHANGED <<rows, gone>>
      BY <2>1 DEF UpdateCandidate
    <3>2. late \subseteq late'
      BY <2>1 DEF UpdateCandidate
    <3> QED
      BY <1>0, <2>1, <3>1, <3>2
  <2>2. CASE Crash(c)
    BY <2>2 DEF Crash, db
  <2>3. CASE PinSnapshot(c) \/ PinFails(c) \/ CreateSnapshot(c) \/ CreateSnapshotFails(c) \/ UpdateCandidateFails(c)
    BY <2>3 DEF PinSnapshot, PinFails, CreateSnapshot, CreateSnapshotFails, UpdateCandidateFails, db, past
  <2> QED
    BY <1>2, <2>1, <2>2, <2>3 DEF Snapshot
<1>3. ASSUME NEW c \in Calls, ExecuteTask(c)
      PROVE  gone \subseteq gone' /\ late \subseteq late' /\ rows' = rows /\ run' = run
  <2>1. CASE \/ TaskForStep(c) \/ Prepare(c) \/ PreparationFails(c) \/ RecordWorkspace(c) \/ Dispatch(c)
             \/ Completes(c) \/ Reports(c) \/ AgentFails(c)
    BY <2>1 DEF TaskForStep, Prepare, PreparationFails, RecordWorkspace, Dispatch, Completes, Reports, AgentFails,
                disk, db, past
  <2>2. CASE Verify(c) \/ CaptureRecovery(c) \/ CaptureFails(c) \/ CommitResult(c) \/ CommitResultFails(c)
             \/ CommitFailure(c)
    BY <2>2 DEF Verify, CaptureRecovery, CaptureFails, CommitResult, CommitResultFails, CommitFailure, Decide,
                disk, db, past
  <2>3. CASE LoseLease(c)
    BY <2>3 DEF LoseLease
  <2> QED
    BY <1>3, <2>1, <2>2, <2>3 DEF ExecuteTask
<1>4. ASSUME CreateTask \/ Reap \/ RetryReady \/ ReworkTask
      PROVE  gone \subseteq gone' /\ late \subseteq late' /\ rows' = rows /\ run' = run
  BY <1>4 DEF CreateTask, Reap, RetryReady, ReworkTask, past
<1>5. ASSUME Advance
      PROVE  gone \subseteq gone' /\ late \subseteq late' /\ rows' = rows /\ run'.candidate = run.candidate
  BY <1>0, <1>5 DEF Advance, past
<1>6. ASSUME \E w \in Workspaces : AgentEdits(w) \/ AgentCommits(w) \/ AgentChecksOut(w) \/ AgentMerges(w)
      PROVE  gone \subseteq gone' /\ late \subseteq late' /\ rows' = rows /\ run' = run
  BY <1>6 DEF AgentEdits, AgentCommits, AgentChecksOut, AgentMerges, db, past
<1>7. ASSUME \/ Restore \/ AddRestoreTree \/ AddRestoreTreeFails \/ RestoreIsOrphaned
             \/ CleanupRestore \/ CleanupRestoreFails \/ Revert
      PROVE  gone \subseteq gone' /\ late \subseteq late' /\ rows' = rows /\ run' = run
  BY <1>7 DEF Restore, AddRestoreTree, AddRestoreTreeFails, RestoreIsOrphaned, CleanupRestore, CleanupRestoreFails,
              Revert, db, past
<1> QED
  BY <1>1, <1>2, <1>3, <1>4, <1>5, <1>6, <1>7 DEF Next

\* Commits are only added, each of them on top of others.
LEMMA CommitsGrow ==
    ASSUME Rows, Owned, [Next]_vars
    PROVE  UNCHANGED commits \/ \E p \in SUBSET (1 .. Len(commits)) : Commit(p)
<1>0. /\ \A w \in Workspaces : trees[w].busy => trees[w].head \in 1 .. Len(commits)
      /\ \A c \in Calls : At(c, "capture") => Tree(c).head \in 1 .. Len(commits)
  <2>1. \A w \in Workspaces : trees[w] \in TreeRow(Len(commits)) /\ TreeAt(w)
    BY OwnedTypes
  <2>2. Len(commits) \in Nat
    BY Numbers DEF Rows
  <2>3. \A w \in Workspaces : trees[w].state = "tree" => trees[w].head \in 1 .. Len(commits)
    BY <2>1, <2>2 DEF TreeAt, TreeRow
  <2>4. \A w \in Workspaces : trees[w].busy => trees[w].state = "tree"
    BY <2>1 DEF TreeAt
  <2>5. \A c \in Calls : At(c, "capture") => call[c].ws \in Workspaces /\ Tree(c).state = "tree"
    BY OwnedTypes DEF At, TreeOfCall
  <2> QED
    BY <2>3, <2>4, <2>5 DEF Tree
<1>1. CASE UNCHANGED vars
  BY <1>1 DEF vars, disk
<1>2. ASSUME NEW c \in Callers, Snapshot(c) \/ Crash(c) PROVE UNCHANGED commits
  BY <1>2 DEF Snapshot, PinSnapshot, PinFails, CreateSnapshot, CreateSnapshotFails, UpdateCandidate,
              UpdateCandidateFails, Crash, disk
<1>3. ASSUME NEW c \in Calls, ExecuteTask(c)
      PROVE  UNCHANGED commits \/ \E p \in SUBSET (1 .. Len(commits)) : Commit(p)
  <2>1. CASE CaptureRecovery(c)
    <3>1. At(c, "capture") /\ (UNCHANGED commits \/ Commit({Tree(c).head}))
      BY <2>1, CaptureGoes DEF CaptureRecovery
    <3>2. {Tree(c).head} \in SUBSET (1 .. Len(commits))
      BY <1>0, <3>1
    <3> QED
      BY <3>1, <3>2
  <2>2. CASE \/ TaskForStep(c) \/ Prepare(c) \/ PreparationFails(c) \/ RecordWorkspace(c) \/ Dispatch(c)
             \/ Completes(c) \/ Reports(c) \/ AgentFails(c)
    BY <2>2 DEF TaskForStep, Prepare, PreparationFails, RecordWorkspace, Dispatch, Completes, Reports, AgentFails,
                disk
  <2>3. CASE Verify(c) \/ CaptureFails(c) \/ CommitResult(c) \/ CommitResultFails(c) \/ CommitFailure(c) \/ LoseLease(c)
    BY <2>3 DEF Verify, CaptureFails, CommitResult, CommitResultFails, CommitFailure, LoseLease, Decide, disk
  <2> QED
    BY <1>3, <2>1, <2>2, <2>3 DEF ExecuteTask
<1>4. ASSUME CreateTask \/ Reap \/ RetryReady \/ ReworkTask \/ Advance PROVE UNCHANGED commits
  BY <1>4 DEF CreateTask, Reap, RetryReady, ReworkTask, Advance, disk
<1>5. ASSUME NEW w \in Workspaces, AgentEdits(w) \/ AgentCommits(w) \/ AgentChecksOut(w) \/ AgentMerges(w)
      PROVE  UNCHANGED commits \/ \E p \in SUBSET (1 .. Len(commits)) : Commit(p)
  <2>1. CASE AgentEdits(w) \/ AgentChecksOut(w)
    BY <2>1 DEF AgentEdits, AgentChecksOut
  <2>2. CASE AgentCommits(w)
    <3>1. Commit({trees[w].head}) /\ trees[w].busy
      BY <2>2 DEF AgentCommits, Working
    <3>2. {trees[w].head} \in SUBSET (1 .. Len(commits))
      BY <1>0, <3>1
    <3> QED
      BY <3>1, <3>2
  <2>3. CASE AgentMerges(w)
    <3>1. PICK c \in 1 .. Len(commits) : Commit({trees[w].head, c}) /\ trees[w].busy
      BY <2>3 DEF AgentMerges, Working
    <3>2. {trees[w].head, c} \in SUBSET (1 .. Len(commits))
      BY <1>0, <3>1
    <3> QED
      BY <3>1, <3>2
  <2> QED
    BY <1>5, <2>1, <2>2, <2>3
<1>6. ASSUME \/ Restore \/ AddRestoreTree \/ AddRestoreTreeFails \/ RestoreIsOrphaned
             \/ CleanupRestore \/ CleanupRestoreFails
      PROVE  UNCHANGED commits
  BY <1>6 DEF Restore, AddRestoreTree, AddRestoreTreeFails, RestoreIsOrphaned, CleanupRestore, CleanupRestoreFails,
              disk
<1>7. ASSUME Revert PROVE \E p \in SUBSET (1 .. Len(commits)) : Commit(p)
  <2>1. PICK head \in 1 .. Len(commits) : Commit({head})
    BY <1>7 DEF Revert
  <2>2. {head} \in SUBSET (1 .. Len(commits))
    BY <2>1
  <2> QED
    BY <2>1, <2>2
<1> QED
  BY <1>1, <1>2, <1>3, <1>4, <1>5, <1>6, <1>7 DEF Next

\* A snapshot is indexed by a row of its own behind the others.
LEMMA RowAppended ==
    ASSUME Rows, NEW c \in Callers, CreateSnapshot(c)
    PROVE  /\ Len(rows) \in Nat /\ Len(rows') = Len(rows) + 1 /\ DOMAIN rows = 1 .. Len(rows)
           /\ \A k \in DOMAIN rows : k \in DOMAIN rows' /\ rows'[k] = rows[k]
           /\ \E j \in DOMAIN rows' : /\ j = Len(rows) + 1
                                      /\ rows'[j].step = call[c].step /\ rows'[j].attempt = call[c].attempt
                                      /\ rows'[j].in = call[c].in /\ rows'[j].out = call[c].out
                                      /\ rows'[j].kind = Kind(c)
           /\ \A j \in DOMAIN rows' : (j \in DOMAIN rows /\ rows'[j] = rows[j]) \/ j = Len(rows) + 1
<1> DEFINE row == [id |-> call[c].id, step |-> call[c].step, attempt |-> call[c].attempt,
                   kind |-> Kind(c), in |-> call[c].in, out |-> call[c].out]
<1>1. rows' = Append(rows, row)
  BY DEF CreateSnapshot
<1>2. /\ row.step = call[c].step /\ row.attempt = call[c].attempt /\ row.in = call[c].in /\ row.out = call[c].out
      /\ row.kind = Kind(c)
  OBVIOUS
<1> HIDE DEF row
<1>3. rows \in Seq(SnapRow(Len(commits)))
  BY DEF Rows, Upto
<1>4. /\ DOMAIN rows' = 1 .. Len(rows) + 1 /\ DOMAIN rows = 1 .. Len(rows) /\ Len(rows) \in Nat
      /\ Len(rows') = Len(rows) + 1
  BY <1>1, <1>3
<1>5. \A k \in 1 .. Len(rows) : rows'[k] = rows[k] /\ k \in 1 .. Len(rows) + 1
  BY <1>1, <1>3
<1>6. rows'[Len(rows) + 1] = row /\ Len(rows) + 1 \in 1 .. Len(rows) + 1
  BY <1>1, <1>3, <1>4
<1>7. \A j \in 1 .. Len(rows) + 1 : j \in 1 .. Len(rows) \/ j = Len(rows) + 1
  BY <1>4
<1> QED
  BY <1>2, <1>4, <1>5, <1>6, <1>7

\* A row stays where it is.
LEMMA RowsStay ==
    ASSUME Rows, [Next]_vars, NEW k \in DOMAIN rows
    PROVE  k \in DOMAIN rows' /\ rows'[k] = rows[k]
  BY HistoryGrows, RowAppended

\* A task keeps its input from its creation on, which is the candidate of the step that the run
\* is at, and completes only by a call that has its lease and hands in what it was accepted for.
TaskGoesOn(s) ==
    /\ IF tasks[s].state = "none"
       THEN tasks'[s].state = "none" \/ (s = run.step /\ tasks'[s].in = run.candidate)
       ELSE tasks'[s].state # "none" /\ tasks'[s].in = tasks[s].in
    /\ \/ tasks'[s].success < tasks'[s].attempt
       \/ tasks'[s].state \in {"none", "FAILED"}
       \/ /\ tasks'[s].state = tasks[s].state /\ tasks'[s].success = tasks[s].success
          /\ tasks'[s].attempt = tasks[s].attempt
       \/ \E c \in Calls : /\ At(c, "commit") /\ call[c].mode = "accept" /\ call[c].held /\ call[c].step = s
                           /\ tasks'[s].state = "SUCCEEDED" /\ tasks'[s].success = call[c].attempt

\* A task that stays as it is.
LEMMA TaskStaysOn ==
    ASSUME NEW s \in Steps, tasks'[s] = tasks[s]
    PROVE  TaskGoesOn(s)
  BY DEF TaskGoesOn

\* A step that is about one task.
LEMMA GoesOnAlone ==
    ASSUME NEW s \in Steps, NEW n, OnlyTask(s, n), TaskGoesOn(s)
    PROVE  \A r \in Steps : TaskGoesOn(r)
  BY TaskStaysOn DEF OnlyTask

\* The end of an attempt.
LEMMA GoesOnDecided ==
    ASSUME Rows, Owned, Ordered, NEW c \in Calls, CommitResult(c) \/ CommitFailure(c)
    PROVE  \A r \in Steps : TaskGoesOn(r)
<1>0. /\ Len(commits) \in Nat /\ tasks \in [Steps -> TaskRow(Len(commits))]
      /\ c \in Callers /\ c # Operator /\ (At(c, "commit") \/ At(c, "fail"))
  BY CallTypes, Numbers DEF CommitResult, CommitFailure
<1>1. CASE ~call[c].held
  <2>1. UNCHANGED tasks
    BY <1>1 DEF CommitResult, CommitFailure, Decide
  <2> QED
    BY <2>1, TaskStaysOn
<1>2. CASE call[c].held
  <2>1. PICK s \in Steps : s = call[c].step
    BY <1>2, HeldTask
  <2>2. tasks[s].attempt = call[c].attempt /\ tasks[s].state = "RUNNING" /\ tasks[s].success < tasks[s].attempt
    <3>1. tasks[s].attempt = call[c].attempt /\ tasks[s].state = "RUNNING"
      BY <1>0, <1>2, <2>1, HeldTask DEF At, Starting
    <3> QED
      BY <3>1 DEF Ordered, TaskIsOrdered
  <2>3. tasks[s].attempt \in 0 .. MaxAttempts /\ tasks[s].success \in 0 .. MaxAttempts
    BY <1>0 DEF TaskRow
  <2>4. PICK state \in {"FAILED", "SUCCEEDED"}, a \in 0 .. MaxAttempts :
           /\ tasks' = [tasks EXCEPT ![s].state = state, ![s].success = a]
           /\ \/ a = tasks[s].success
              \/ a = call[c].attempt /\ state = "SUCCEEDED" /\ At(c, "commit") /\ call[c].mode = "accept"
    <3>1. CASE CommitFailure(c)
      <4>1. tasks' = [tasks EXCEPT ![s].state = "FAILED", ![s].success = tasks[s].success]
        BY <1>2, <2>1, <3>1 DEF CommitFailure, Decide, Success
      <4> QED
        BY <2>3, <4>1
    <3>2. CASE CommitResult(c) /\ call[c].mode = "accept"
      <4>1. /\ tasks' = [tasks EXCEPT ![s].state = "SUCCEEDED", ![s].success = call[c].attempt]
            /\ At(c, "commit")
        BY <1>2, <2>1, <3>2 DEF CommitResult, Decide
      <4>2. call[c].attempt \in 0 .. MaxAttempts
        BY <2>2, <2>3
      <4> QED
        BY <3>2, <4>1, <4>2
    <3>3. CASE CommitResult(c) /\ call[c].mode # "accept"
      <4>1. tasks' = [tasks EXCEPT ![s].state = call[c].result, ![s].success = tasks[s].success]
        BY <1>2, <2>1, <3>3 DEF CommitResult, Decide, Success
      <4>2. call[c].result \in {"FAILED", "SUCCEEDED"}
        <5>1. At(c, "commit") /\ c \in Callers /\ c # Operator
          BY <3>3, Numbers DEF CommitResult
        <5>2. call[c].mode = "recover" /\ call[c].result # "none"
          BY <3>3, <5>1, CallTypes DEF CallAt, CallOfTask, At
        <5>3. call[c].result \in {"none", "FAILED", "SUCCEEDED"}
          BY <5>1, CallTypes DEF CallRow
        <5> QED
          BY <5>2, <5>3
      <4> QED
        BY <2>3, <4>1, <4>2
    <3> QED
      BY <3>1, <3>2, <3>3
  <2>5. /\ OnlyTask(s, Len(commits)) /\ tasks'[s].state = state /\ tasks'[s].attempt = tasks[s].attempt
        /\ tasks'[s].in = tasks[s].in /\ tasks'[s].success = a
    <3>1. state \in States /\ Len(commits) \in Nat /\ tasks \in [Steps -> TaskRow(Len(commits))]
      BY <1>0 DEF States
    <3>2. tasks' = [tasks EXCEPT ![s].state = state, ![s].success = a]
      BY <2>4
    <3>3. /\ OnlyTask(s, Len(commits)) /\ tasks'[s].state = state /\ tasks'[s].attempt = tasks[s].attempt
          /\ tasks'[s].in = tasks[s].in
      BY <3>1, <3>2, TaskDecided
    <3>4. tasks'[s].success = a
      BY <3>1, <3>2 DEF TaskRow
    <3> QED
      BY <3>3, <3>4
  <2>6. TaskGoesOn(s)
    <3>1. state # "none" /\ tasks[s].state # "none"
      BY <2>2
    <3>2. CASE a = tasks[s].success
      BY <2>2, <2>5, <3>1, <3>2 DEF TaskGoesOn
    <3>3. CASE a = call[c].attempt /\ state = "SUCCEEDED" /\ At(c, "commit") /\ call[c].mode = "accept"
      BY <1>2, <2>1, <2>5, <3>1, <3>3 DEF TaskGoesOn
    <3> QED
      BY <2>4, <3>2, <3>3
  <2> QED
    BY <2>5, <2>6, GoesOnAlone
<1> QED
  BY <1>1, <1>2

\* The tasks beside the calls.
LEMMA GoesOnAdvancing ==
    ASSUME Rows, Owned, CreateTask \/ Reap \/ RetryReady \/ ReworkTask
    PROVE  \A r \in Steps : TaskGoesOn(r)
<1> DEFINE N == Len(commits)
<1>0. /\ N \in Nat /\ tasks \in [Steps -> TaskRow(N)] /\ run.candidate \in 1 .. N /\ MaxAttempts \in Nat
      /\ 1 \in Attempts /\ Attempts \subseteq 0 .. MaxAttempts
  BY Numbers DEF Rows, Upto
<1>1. CASE CreateTask
  <2> DEFINE row == [state |-> "READY", attempt |-> 1, in |-> run.candidate, ws |-> 0, wsAttempt |-> 0, success |-> 0]
  <2>1. PICK s \in Steps : s = run.step /\ tasks[s].state = "none" /\ tasks' = [tasks EXCEPT ![s] = row]
    BY <1>1 DEF CreateTask
  <2>2. row.in = run.candidate /\ row.success < row.attempt
    OBVIOUS
  <2> HIDE DEF row
  <2>3. tasks'[s] = row /\ \A r \in Steps : r # s => tasks'[r] = tasks[r]
    BY <1>0, <2>1
  <2>4. TaskGoesOn(s)
    BY <2>1, <2>2, <2>3 DEF TaskGoesOn
  <2> QED
    BY <2>3, <2>4, TaskStaysOn
<1>2. CASE Reap
  <2>1. PICK s \in Steps : tasks[s].state = "RUNNING" /\ tasks' = [tasks EXCEPT ![s].state = "FAILED"]
    BY <1>2 DEF Reap
  <2>2. "FAILED" \in States
    BY DEF States
  <2>3. OnlyTask(s, N) /\ tasks'[s].state = "FAILED" /\ tasks'[s].in = tasks[s].in
    BY <1>0, <2>1, <2>2, TaskMoved
  <2>4. TaskGoesOn(s)
    BY <2>1, <2>3 DEF TaskGoesOn
  <2> QED
    BY <2>3, <2>4, GoesOnAlone
<1>3. CASE RetryReady \/ ReworkTask
  <2>1. PICK s \in Steps : /\ tasks[s].attempt < MaxAttempts /\ tasks[s].state # "none"
                           /\ \/ tasks' = [tasks EXCEPT ![s].state = "READY", ![s].attempt = @ + 1, ![s].ws = 0,
                                                       ![s].wsAttempt = 0]
                              \/ tasks' = [tasks EXCEPT ![s].state = "READY", ![s].attempt = @ + 1]
    BY <1>3 DEF RetryReady, ReworkTask
  <2>2. tasks[s] \in TaskRow(N) /\ tasks[s].attempt \in Nat /\ tasks[s].attempt + 1 \in 0 .. MaxAttempts
    BY <1>0, <2>1 DEF TaskRow
  <2>3. /\ OnlyTask(s, N) /\ tasks'[s].state = "READY" /\ tasks'[s].in = tasks[s].in
        /\ tasks'[s].success = tasks[s].success /\ tasks'[s].attempt = tasks[s].attempt + 1
    <3>1. CASE tasks' = [tasks EXCEPT ![s].state = "READY", ![s].attempt = @ + 1, ![s].ws = 0,
                                        ![s].wsAttempt = 0]
      BY <1>0, <2>2, <3>1, TaskRetried
    <3>2. CASE tasks' = [tasks EXCEPT ![s].state = "READY", ![s].attempt = @ + 1]
      BY <1>0, <2>2, <3>2, TaskReworked
    <3> QED
      BY <2>1, <3>1, <3>2
  <2>4. tasks[s].success <= tasks[s].attempt /\ tasks[s].success \in Nat
    <3>1. WorkspaceOfTask(s)
      BY OwnedTypes
    <3> QED
      BY <1>0, <2>2, <3>1 DEF WorkspaceOfTask, TaskRow
  <2>5. tasks'[s].success < tasks'[s].attempt
    BY <2>2, <2>3, <2>4
  <2>6. TaskGoesOn(s)
    BY <2>1, <2>3, <2>5 DEF TaskGoesOn
  <2> QED
    BY <2>3, <2>6, GoesOnAlone
<1> QED
  BY <1>1, <1>2, <1>3

\* Every task goes on with every step.
LEMMA TasksGoOn ==
    ASSUME Rows, Owned, Ordered, [Next]_vars
    PROVE  \A r \in Steps : TaskGoesOn(r)
<1>0. Len(commits) \in Nat /\ tasks \in [Steps -> TaskRow(Len(commits))]
  BY CallTypes, Numbers
<1>1. UNCHANGED tasks => \A r \in Steps : TaskGoesOn(r)
  BY TaskStaysOn
<1>2. ASSUME NEW c \in Calls, RecordWorkspace(c) \/ Dispatch(c) PROVE \A r \in Steps : TaskGoesOn(r)
  <2>1. Starting(c)
    BY <1>2 DEF RecordWorkspace, Dispatch, Starting, At
  <2>2. PICK s \in Steps, w \in Workspaces, a \in 0 .. MaxAttempts :
           s = call[c].step /\ w = call[c].ws /\ a = call[c].attempt /\ tasks[s].state = "READY"
    BY <2>1, StartsAlone, Numbers DEF TaskOfCall, Starts, Starting
  <2>3. CASE RecordWorkspace(c)
    <3>1. tasks' = [tasks EXCEPT ![s].ws = w, ![s].wsAttempt = a]
      BY <2>2, <2>3 DEF RecordWorkspace
    <3>2. /\ OnlyTask(s, Len(commits)) /\ tasks'[s].state = tasks[s].state /\ tasks'[s].in = tasks[s].in
          /\ tasks'[s].success = tasks[s].success /\ tasks'[s].attempt = tasks[s].attempt
      BY <1>0, <3>1, TaskRecorded
    <3>3. TaskGoesOn(s)
      BY <2>2, <3>2 DEF TaskGoesOn
    <3> QED
      BY <3>2, <3>3, GoesOnAlone
  <2>4. CASE Dispatch(c)
    <3>1. CASE tasks' = [tasks EXCEPT ![s].state = "RUNNING"]
      <4>1. "RUNNING" \in States
        BY DEF States
      <4>2. /\ OnlyTask(s, Len(commits)) /\ tasks'[s].state = "RUNNING" /\ tasks'[s].in = tasks[s].in
            /\ tasks'[s].success = tasks[s].success /\ tasks'[s].attempt = tasks[s].attempt
        BY <1>0, <3>1, <4>1, TaskMoved
      <4>3. tasks[s].success < tasks[s].attempt
        BY <2>2 DEF Ordered, TaskIsOrdered
      <4>4. TaskGoesOn(s)
        BY <2>2, <4>2, <4>3 DEF TaskGoesOn
      <4> QED
        BY <4>2, <4>4, GoesOnAlone
    <3>2. tasks' = [tasks EXCEPT ![s].state = "RUNNING"] \/ UNCHANGED tasks
      BY <2>2, <2>4 DEF Dispatch
    <3> QED
      BY <1>1, <3>1, <3>2
  <2> QED
    BY <1>2, <2>3, <2>4
<1>3. ASSUME NEW c \in Calls, LoseLease(c) PROVE \A r \in Steps : TaskGoesOn(r)
  <2>1. PICK s \in Steps : s = call[c].step /\ tasks[s].state = "RUNNING"
    BY <1>3, HeldTask DEF LoseLease
  <2>2. tasks' = [tasks EXCEPT ![s].state = "FAILED"] /\ "FAILED" \in States
    BY <1>3, <2>1 DEF LoseLease, States
  <2>3. OnlyTask(s, Len(commits)) /\ tasks'[s].state = "FAILED" /\ tasks'[s].in = tasks[s].in
    BY <1>0, <2>2, TaskMoved
  <2>4. TaskGoesOn(s)
    BY <2>1, <2>3 DEF TaskGoesOn
  <2> QED
    BY <2>3, <2>4, GoesOnAlone
<1>4. CASE UNCHANGED vars
  BY <1>1, <1>4 DEF vars, db
<1>5. CASE Next
  <2>1. \/ UNCHANGED tasks
        \/ CreateTask \/ Reap \/ RetryReady \/ ReworkTask
        \/ \E c \in Calls : RecordWorkspace(c) \/ Dispatch(c) \/ CommitResult(c) \/ CommitFailure(c) \/ LoseLease(c)
    <3>1. ASSUME NEW c \in Callers, Snapshot(c) \/ Crash(c) PROVE UNCHANGED tasks
      BY <3>1 DEF Snapshot, PinSnapshot, PinFails, CreateSnapshot, CreateSnapshotFails, UpdateCandidate,
                  UpdateCandidateFails, Crash, disk, db
    <3>2. ASSUME NEW w \in Workspaces, AgentEdits(w) \/ AgentCommits(w) \/ AgentChecksOut(w) \/ AgentMerges(w)
          PROVE  UNCHANGED tasks
      BY <3>2 DEF AgentEdits, AgentCommits, AgentChecksOut, AgentMerges, db
    <3>3. ASSUME \/ Restore \/ AddRestoreTree \/ AddRestoreTreeFails \/ RestoreIsOrphaned
                 \/ CleanupRestore \/ CleanupRestoreFails \/ Revert \/ Advance
          PROVE  UNCHANGED tasks
      BY <3>3 DEF Restore, AddRestoreTree, AddRestoreTreeFails, RestoreIsOrphaned, CleanupRestore,
                  CleanupRestoreFails, Revert, Advance, db
    <3>4. ASSUME NEW c \in Calls,
                 \/ TaskForStep(c) \/ Prepare(c) \/ PreparationFails(c) \/ Completes(c) \/ Reports(c)
                 \/ AgentFails(c) \/ Verify(c) \/ CaptureRecovery(c) \/ CaptureFails(c) \/ CommitResultFails(c)
          PROVE  UNCHANGED tasks
      BY <3>4 DEF TaskForStep, Prepare, PreparationFails, Completes, Reports, AgentFails, Verify, CaptureRecovery,
                  CaptureFails, CommitResultFails, db
    <3> QED
      BY <1>5, <3>1, <3>2, <3>3, <3>4 DEF Next, ExecuteTask
  <2> QED
    BY <1>1, <1>2, <1>3, <2>1, GoesOnAdvancing, GoesOnDecided
<1> QED
  BY <1>4, <1>5

\* A caller starts: a call with the task of the step that the run is at, the operator with a
\* restore or a revert.
Started(c) ==
    /\ At(c, "idle")
    /\ IF c = Operator THEN call'[c].pc \in {"add", "pin"} /\ call'[c].mode \in {"restore", "revert"}
       ELSE /\ call'[c].pc \in Starts /\ call'[c].step = run.step /\ run.step \in Steps
            /\ call'[c].in = tasks[run.step].in /\ tasks[run.step].state = "READY"

\* A caller goes on with what it has: what is accepted was verified, what becomes the candidate
\* was indexed, and an accepted result is committed behind the candidate.
WentOn(c) ==
    /\ ~At(c, "idle") /\ SamePlace(c) /\ (call'[c].held => call[c].held)
    /\ call'[c].pc \in {"pin", "index"} /\ call'[c].mode = "accept" =>
          /\ call'[c].out = call[c].out
          /\ \/ call[c].pc \in {"pin", "index"} /\ call[c].mode = "accept"
             \/ At(c, "verify") /\ Verified(c) /\ Authorized(c)
    /\ call'[c].pc = "candidate" =>
          /\ call'[c].out = call[c].out
          /\ At(c, "candidate") \/ (CreateSnapshot(c) /\ call[c].mode \in {"accept", "revert"})
    /\ call'[c].pc = "commit" /\ call'[c].mode = "accept" =>
          UpdateCandidate(c) \/ (At(c, "commit") /\ call[c].mode = "accept")

CallGoesOn(c) == call'[c] = call[c] \/ call'[c] = Idle \/ Started(c) \/ WentOn(c)

\* A step to anywhere else.
LEMMA GoesOnGoing ==
    ASSUME NEW c \in Callers, ~At(c, "idle"), SamePlace(c), call'[c].held = call[c].held,
           call'[c].pc \in {"record", "dispatch", "run", "verify", "capture", "fail", "cleanup"}
                \/ (call'[c].pc \in {"pin", "index"} /\ call'[c].mode # "accept")
    PROVE  CallGoesOn(c)
  BY DEF CallGoesOn, WentOn

\* Every caller goes on with every step.
LEMMA CallersGoOn ==
    ASSUME Rows, Owned, [Next]_vars
    PROVE  \A c \in Callers : CallGoesOn(c)
<1>0. /\ \A c \in Calls : c \in Callers /\ c # Operator
      /\ {"record", "dispatch", "run", "pin", "index", "fail", "cleanup", "commit", "candidate"} \subseteq Pcs
      /\ Len(commits) \in Nat /\ call \in [Callers -> CallRow(Len(commits))]
  BY Numbers DEF Pcs, Rows, Upto
<1>1. ASSUME NEW c \in Callers, NEW n, OnlyCall(c, n), CallGoesOn(c)
      PROVE  \A d \in Callers : CallGoesOn(d)
  BY <1>1 DEF OnlyCall, CallGoesOn
<1>2. UNCHANGED call => \A d \in Callers : CallGoesOn(d)
  BY DEF CallGoesOn
<1>d. ASSUME NEW c \in Callers, Done(c)
      PROVE  \A d \in Callers : CallGoesOn(d)
  <2>1. OnlyCall(c, Len(commits)) /\ CallGoesOn(c)
    BY <1>d, DoneAt DEF CallGoesOn
  <2> QED
    BY <1>1, <2>1
<1>3. ASSUME NEW c \in Calls, TaskForStep(c) PROVE \A d \in Callers : CallGoesOn(d)
  <2>1. /\ At(c, "idle") /\ call'[c].pc \in Starts /\ OnlyCall(c, Len(commits)) /\ run.step \in Steps
        /\ call'[c].step = run.step /\ call'[c].in = tasks[run.step].in /\ tasks[run.step].state = "READY"
    BY <1>3, AskGoes DEF Starts
  <2>2. CallGoesOn(c)
    BY <1>0, <2>1 DEF CallGoesOn, Started
  <2> QED
    BY <1>0, <1>1, <2>1, <2>2
<1>4. ASSUME NEW c \in Calls, Prepare(c) \/ PreparationFails(c) \/ RecordWorkspace(c) \/ Dispatch(c)
      PROVE  \A d \in Callers : CallGoesOn(d)
  <2>1. ~At(c, "idle")
    BY <1>4 DEF Prepare, PreparationFails, RecordWorkspace, Dispatch, At
  <2>2. Done(c) \/ Goes(c, "record") \/ Goes(c, "dispatch") \/ Goes(c, "run")
    BY <1>0, <1>4, GoesTo DEF Prepare, PreparationFails, RecordWorkspace, Dispatch
  <2>3. ASSUME NEW p \in {"record", "dispatch", "run"}, Goes(c, p) PROVE CallGoesOn(c) /\ OnlyCall(c, Len(commits))
    BY <1>0, <2>1, <2>3, GoesOnGoing DEF Goes
  <2> QED
    BY <1>0, <1>1, <1>d, <2>2, <2>3
<1>5. ASSUME NEW c \in Calls, Completes(c) \/ Reports(c) \/ AgentFails(c)
      PROVE  \A d \in Callers : CallGoesOn(d)
  <2>1. ~At(c, "idle")
    BY <1>5 DEF Completes, Reports, AgentFails, At
  <2>2. /\ OnlyCall(c, Len(commits)) /\ SamePlace(c) /\ call'[c].held = call[c].held
        /\ call'[c].pc \in {"verify", "capture"}
    <3>1. CASE Completes(c)
      <4>1. PICK out \in 1 .. Len(commits) :
               call' = [call EXCEPT ![c].pc = "verify", ![c].mode = "accept", ![c].out = out]
        BY <3>1 DEF Completes
      <4>2. out \in 0 .. Len(commits)
        BY <1>0
      <4> QED
        BY <1>0, <4>1, <4>2, WasCompleted
    <3>2. CASE Reports(c)
      <4>1. PICK s \in {"FAILED", "SUCCEEDED"} :
               call' = [call EXCEPT ![c].pc = "capture", ![c].mode = "recover", ![c].result = s]
        BY <3>2 DEF Reports
      <4> QED
        BY <1>0, <4>1, WasReported
    <3>3. CASE AgentFails(c)
      BY <1>0, <3>3, WasRescued DEF AgentFails
    <3> QED
      BY <1>5, <3>1, <3>2, <3>3
  <2>3. CallGoesOn(c)
    BY <1>0, <2>1, <2>2, GoesOnGoing
  <2> QED
    BY <1>0, <1>1, <2>2, <2>3
<1>6. ASSUME NEW c \in Calls, Verify(c)
      PROVE  \A d \in Callers : CallGoesOn(d)
  <2>1. At(c, "verify") /\ ~At(c, "idle")
    BY <1>6 DEF Verify, At
  <2>2. CASE Verified(c) /\ Authorized(c) /\ Begins(c, Len(commits), call[c].out)
    BY <1>0, <1>1, <2>1, <2>2 DEF CallGoesOn, WentOn, Begins
  <2>3. CASE Rescued(c)
    <3>1. CallGoesOn(c)
      BY <1>0, <2>1, <2>3, GoesOnGoing DEF Rescued
    <3> QED
      BY <1>0, <1>1, <2>3, <3>1 DEF Rescued
  <2> QED
    BY <1>6, <2>2, <2>3, VerifyGoes
<1>7. ASSUME NEW c \in Calls, CaptureRecovery(c)
      PROVE  \A d \in Callers : CallGoesOn(d)
  <2>1. ~At(c, "idle") /\ call[c].mode # "accept"
    <3>1. At(c, "capture")
      BY <1>7 DEF CaptureRecovery
    <3> QED
      BY <1>0, <3>1, CallTypes DEF CallAt, CallOfTask, At
  <2>2. PICK n, o : Begins(c, n, o)
    BY <1>7, CaptureGoes
  <2>3. CallGoesOn(c)
    BY <1>0, <2>1, <2>2, GoesOnGoing DEF Begins
  <2> QED
    BY <1>0, <1>1, <2>2, <2>3 DEF Begins
<1>8. ASSUME NEW c \in Callers, PinFails(c) \/ CreateSnapshotFails(c) \/ (c \in Calls /\ CaptureFails(c))
      PROVE  \A d \in Callers : CallGoesOn(d)
  <2>1. ~At(c, "idle") /\ Failed(c) /\ (Persisting(c) \/ (c # Operator /\ At(c, "capture")))
    BY <1>0, <1>8 DEF PinFails, CreateSnapshotFails, CaptureFails, At, Persisting, Persists
  <2>2. Done(c) \/ Goes(c, "cleanup") \/ Goes(c, "fail") \/ Rescued(c)
    BY <2>1, FailedGoes
  <2>3. ASSUME Goes(c, "cleanup") \/ Goes(c, "fail") \/ Rescued(c)
        PROVE  CallGoesOn(c) /\ OnlyCall(c, Len(commits))
    BY <2>1, <2>3, GoesOnGoing DEF Goes, Rescued
  <2> QED
    BY <1>1, <1>d, <2>2, <2>3
<1>9. ASSUME NEW c \in Callers, PinSnapshot(c)
      PROVE  \A d \in Callers : CallGoesOn(d)
  <2>1. At(c, "pin") /\ Goes(c, "index")
    BY <1>0, <1>9, GoesTo DEF PinSnapshot
  <2>2. CallGoesOn(c)
    BY <2>1 DEF CallGoesOn, WentOn, Goes, At
  <2> QED
    BY <1>1, <2>1, <2>2 DEF Goes
<1>10. ASSUME NEW c \in Callers, CreateSnapshot(c)
       PROVE  \A d \in Callers : CallGoesOn(d)
  <2>1. ~At(c, "idle")
    BY <1>10 DEF CreateSnapshot, At
  <2>2. \/ Done(c)
        \/ Goes(c, "candidate") /\ call[c].mode \in {"accept", "revert"}
        \/ Goes(c, "commit") /\ call[c].mode = "recover"
        \/ Goes(c, "fail")
    BY <1>10, IndexedGoes
  <2>3. CASE Goes(c, "candidate") /\ call[c].mode \in {"accept", "revert"}
    <3>1. CallGoesOn(c)
      BY <1>10, <2>1, <2>3 DEF CallGoesOn, WentOn, Goes
    <3> QED
      BY <1>1, <2>3, <3>1 DEF Goes
  <2>4. CASE (Goes(c, "commit") /\ call[c].mode = "recover") \/ Goes(c, "fail")
    <3>1. CallGoesOn(c)
      BY <2>1, <2>4 DEF CallGoesOn, WentOn, Goes
    <3> QED
      BY <1>1, <2>4, <3>1 DEF Goes
  <2> QED
    BY <1>d, <2>2, <2>3, <2>4
<1>11. ASSUME NEW c \in Callers, UpdateCandidate(c) \/ UpdateCandidateFails(c)
       PROVE  \A d \in Callers : CallGoesOn(d)
  <2>1. ~At(c, "idle")
    BY <1>11 DEF UpdateCandidate, UpdateCandidateFails, At
  <2>2. Done(c) \/ (UpdateCandidate(c) /\ Goes(c, "commit")) \/ Goes(c, "fail")
    BY <1>11, CandidateGoes
  <2>3. ASSUME (UpdateCandidate(c) /\ Goes(c, "commit")) \/ Goes(c, "fail")
        PROVE  CallGoesOn(c) /\ OnlyCall(c, Len(commits))
    BY <2>1, <2>3 DEF CallGoesOn, WentOn, Goes
  <2> QED
    BY <1>1, <1>d, <2>2, <2>3
<1>12. ASSUME \/ \E c \in Callers : Crash(c)
              \/ \E c \in Calls : CommitResult(c) \/ CommitFailure(c)
       PROVE  \A d \in Callers : CallGoesOn(d)
  BY <1>0, <1>d, <1>12 DEF Crash, CommitResult, CommitFailure, Decide
<1>13. ASSUME NEW c \in Calls, CommitResultFails(c)
       PROVE  \A d \in Callers : CallGoesOn(d)
  <2>1. ~At(c, "idle") /\ Goes(c, "fail")
    BY <1>0, <1>13, GoesTo DEF CommitResultFails, At
  <2>2. CallGoesOn(c)
    BY <1>0, <2>1, GoesOnGoing DEF Goes
  <2> QED
    BY <1>0, <1>1, <2>1, <2>2 DEF Goes
<1>14. ASSUME NEW c \in Calls, LoseLease(c)
       PROVE  \A d \in Callers : CallGoesOn(d)
  <2>1. call' = [call EXCEPT ![c].held = FALSE] /\ ~At(c, "idle") /\ call[c].held
    BY <1>14, HeldTask DEF LoseLease, At
  <2>2. /\ OnlyCall(c, Len(commits)) /\ SamePlace(c) /\ call'[c].pc = call[c].pc /\ call'[c].mode = call[c].mode
        /\ call'[c].out = call[c].out
    BY <1>0, <2>1, LeaseWasLost
  <2>3. CallGoesOn(c)
    BY <2>1, <2>2 DEF CallGoesOn, WentOn, At
  <2> QED
    BY <1>0, <1>1, <2>2, <2>3
<1>15. ASSUME Restore \/ Revert
       PROVE  \A d \in Callers : CallGoesOn(d)
  <2> DEFINE o == Operator
  <2>0. At(o, "idle") /\ o \in Callers
    BY <1>15, Numbers DEF Restore, Revert, Asked
  <2>1. PICK k, p, m, i, q :
           /\ k \in DOMAIN rows /\ p \in {"add", "pin"} /\ m \in {"restore", "revert"}
           /\ call' = [call EXCEPT ![o] = [Source(k) EXCEPT !.pc = p, !.mode = m, !.in = i, !.out = q]]
    <3>1. CASE Restore
      <4>1. PICK k \in DOMAIN rows :
               call' = [call EXCEPT ![o] = [Source(k) EXCEPT !.pc = "add", !.mode = "restore",
                                                   !.in = rows[k].out, !.out = rows[k].out]]
        BY <3>1 DEF Restore
      <4> QED
        BY <4>1
    <3>2. CASE Revert
      <4>1. PICK k \in DOMAIN rows, head \in 1 .. Len(commits) :
               call' = [call EXCEPT ![o] = [Source(k) EXCEPT !.pc = "pin", !.mode = "revert",
                                                   !.in = head, !.out = NewCommit]]
        BY <3>2 DEF Revert
      <4> QED
        BY <4>1
    <3> QED
      BY <1>15, <3>1, <3>2
  <2>2. DOMAIN Idle = {"pc", "mode", "step", "attempt", "ws", "in", "out", "id", "result", "held"}
    BY DEF Idle
  <2>3. DOMAIN Source(k) = DOMAIN Idle
    BY <2>2 DEF Source
  <2>4. /\ \A d \in Callers : d # o => call'[d] = call[d]
        /\ call'[o].pc = p /\ call'[o].mode = m
    BY <1>0, <2>0, <2>1, <2>2, <2>3
  <2>5. CallGoesOn(o)
    BY <2>0, <2>1, <2>4 DEF CallGoesOn, Started
  <2> QED
    BY <2>4, <2>5 DEF CallGoesOn
<1>16. ASSUME AddRestoreTree
       PROVE  \A d \in Callers : CallGoesOn(d)
  <2> DEFINE o == Operator
  <2>1. o \in Callers /\ At(o, "add") /\ ~At(o, "idle") /\ Goes(o, "pin")
    BY <1>0, <1>16, GoesTo, Numbers DEF AddRestoreTree, At
  <2>2. call[o].mode # "accept"
    BY <2>1, CallTypes DEF CallAt, CallOfOperator, At
  <2>3. CallGoesOn(o)
    BY <2>1, <2>2, GoesOnGoing DEF Goes
  <2> QED
    BY <1>1, <2>1, <2>3 DEF Goes
<1>17. ASSUME AddRestoreTreeFails \/ RestoreIsOrphaned \/ CleanupRestore \/ CleanupRestoreFails
       PROVE  \A d \in Callers : CallGoesOn(d)
  <2>1. Operator \in Callers /\ Done(Operator)
    BY <1>17, Numbers DEF AddRestoreTreeFails, RestoreIsOrphaned, CleanupRestore, CleanupRestoreFails
  <2> QED
    BY <1>d, <2>1
<1>18. ASSUME \/ CreateTask \/ Reap \/ RetryReady \/ ReworkTask \/ Advance
              \/ \E w \in Workspaces : AgentEdits(w) \/ AgentCommits(w) \/ AgentChecksOut(w) \/ AgentMerges(w)
              \/ UNCHANGED vars
       PROVE  UNCHANGED call
  BY <1>18 DEF CreateTask, Reap, RetryReady, ReworkTask, Advance, AgentEdits, AgentCommits, AgentChecksOut,
               AgentMerges, vars
<1>19. CASE UNCHANGED vars
  BY <1>2, <1>18, <1>19
<1>20. CASE Next
  <2>1. CASE \E c \in Calls : ExecuteTask(c)
    BY <1>0, <1>3, <1>4, <1>5, <1>6, <1>7, <1>8, <1>12, <1>13, <1>14, <2>1 DEF ExecuteTask
  <2>2. CASE \E c \in Callers : Snapshot(c) \/ Crash(c)
    BY <1>8, <1>9, <1>10, <1>11, <1>12, <2>2 DEF Snapshot
  <2> QED
    BY <1>2, <1>15, <1>16, <1>17, <1>18, <1>20, <2>1, <2>2 DEF Next
<1> QED
  BY <1>19, <1>20

-----------------------------------------------------------------------------
(* In which order tasks and attempts come. *)

\* Every step keeps the order.
LEMMA NextOrdered == Rows /\ Owned /\ Ordered /\ [Next]_vars => Ordered'
<1> SUFFICES ASSUME Rows, Owned, Ordered, [Next]_vars PROVE Ordered'
  OBVIOUS
<1>0. /\ run.step \in Nat /\ run'.step \in Nat /\ Steps \subseteq Nat
      /\ \A c \in Calls : c \in Callers /\ c # Operator
      /\ \A s \in Steps : tasks'[s].success \in Nat /\ tasks'[s].attempt \in Nat
  <2>1. Rows'
    BY NextRows
  <2>2. Len(Agents) \in Nat /\ MaxAttempts \in Nat
    BY Numbers
  <2>3. run.step \in Nat /\ run'.step \in Nat
    BY <2>1, <2>2 DEF Rows, Upto
  <2>4. \A s \in Steps : tasks'[s].success \in 0 .. MaxAttempts /\ tasks'[s].attempt \in 0 .. MaxAttempts
    BY <2>1 DEF Rows, Upto, TaskRow
  <2> QED
    BY <2>2, <2>3, <2>4, Numbers
<1>1. run.step <= run'.step
  BY <1>0, HistoryGrows DEF Advance, Rows, Upto
<1>2. ASSUME NEW c \in Calls, call'[c].held PROVE call'[c].step = run'.step
  <2>1. CASE Started(c)
    <3>1. call'[c].step = run.step /\ tasks[run.step].state = "READY"
      BY <1>0, <2>1 DEF Started
    <3> QED
      BY <3>1, HistoryGrows DEF Advance
  <2>2. CASE call'[c] = call[c] \/ WentOn(c)
    <3>1. call[c].held /\ call'[c].step = call[c].step
      BY <1>2, <2>2 DEF WentOn, SamePlace
    <3>2. call[c].step = run.step /\ tasks[run.step].state \in {"READY", "RUNNING"}
      BY <3>1, HeldTask DEF Ordered
    <3> QED
      BY <3>1, <3>2, HistoryGrows DEF Advance
  <2>3. call'[c] # Idle
    BY <1>2, IdleRow, CallTypes
  <2> QED
    BY <1>0, <2>1, <2>2, <2>3, CallersGoOn DEF CallGoesOn
<1>3. ASSUME NEW s \in Steps, s > run'.step PROVE tasks'[s].state = "none"
  <2>1. s > run.step /\ s # run.step
    BY <1>0, <1>1, <1>3
  <2> QED
    BY <2>1, TasksGoOn DEF TaskGoesOn, Ordered, TaskIsOrdered
<1>4. ASSUME NEW s \in Steps, tasks'[s].state \in {"READY", "RUNNING"} PROVE tasks'[s].success < tasks'[s].attempt
  BY <1>4, TasksGoOn DEF TaskGoesOn, Ordered, TaskIsOrdered
<1> QED
  BY <1>2, <1>3, <1>4 DEF Ordered, TaskIsOrdered

\* Nobody has done anything in the first state.
LEMMA InitOrdered == Init => Ordered
<1> SUFFICES ASSUME Init PROVE Ordered
  OBVIOUS
<1>1. \A c \in Calls : c \in Callers
  BY Numbers
<1>2. \A s \in Steps : tasks[s].state = "none"
  BY DEF Init
<1>3. \A c \in Calls : ~call[c].held
  BY <1>1, IdleRow, SMT DEF Init, Idle
<1> QED
  BY <1>2, <1>3 DEF Ordered, TaskIsOrdered

\* The three layers hold together.
LEMMA RowsOwnedOrdered == Spec => [](Rows /\ Owned /\ Ordered)
<1>1. Init => Rows /\ Owned /\ Ordered
  BY InitRows, InitOwned, InitOrdered
<1>2. Rows /\ Owned /\ Ordered /\ [Next]_vars => (Rows /\ Owned /\ Ordered)'
  BY NextRows, NextOwned, NextOrdered
<1> QED
  BY <1>1, <1>2, PTL DEF Spec

-----------------------------------------------------------------------------
(* Which commits are authorized. *)

\* The history of a commit stays what it is.
LEMMA AncestorsStay ==
    ASSUME Rows, Owned, [Next]_vars, NEW m \in 1 .. Len(commits), NEW n \in Ancestors(m)
    PROVE  n \in Ancestors(m)'
<1>1. CASE UNCHANGED commits
  BY <1>1 DEF Ancestors, Closed
<1>2. ASSUME NEW p \in SUBSET (1 .. Len(commits)), Commit(p)
      PROVE  n \in Ancestors(m)'
  <2> DEFINE N == Len(commits)
  <2>1. /\ N \in Nat /\ Len(commits') = N + 1
        /\ \A x \in 1 .. N : commits'[x] = commits[x] /\ commits[x] \subseteq 1 .. N
    BY <1>2, Committed, Numbers DEF Rows
  <2>2. n \in 1 .. N /\ \A T \in SUBSET (1 .. N) : m \in T /\ Closed(T) => n \in T
    BY DEF Ancestors
  <2>3. ASSUME NEW S \in SUBSET (1 .. N + 1), m \in S, Closed(S)'
        PROVE  n \in S
    <3> DEFINE T == S \cap (1 .. N)
    <3>1. m \in T /\ T \in SUBSET (1 .. N)
      BY <2>3
    <3>2. \A x \in T : commits[x] \subseteq T
      BY <2>1, <2>3 DEF Closed
    <3> QED
      BY <2>2, <3>1, <3>2 DEF Closed
  <2>4. n \in 1 .. N + 1
    BY <2>1, <2>2
  <2> QED
    BY <2>1, <2>3, <2>4 DEF Ancestors
<1> QED
  BY <1>1, <1>2, CommitsGrow

\* What was vouched for stays vouched for.
LEMMA VouchedStays ==
    ASSUME Rows, [Next]_vars, NEW n, NEW k \in 0 .. Len(rows), Vouched(n, k)
    PROVE  Vouched(n, k)' /\ Vouched(n, Len(rows))'
<1>1. rows \in Seq(SnapRow(Len(commits))) /\ Len(rows) \in Nat /\ DOMAIN rows = 1 .. Len(rows)
  <2>1. rows \in Seq(SnapRow(Len(commits)))
    BY DEF Rows, Upto
  <2> QED
    BY <2>1
<1>2. Len(rows') \in Nat /\ Len(rows) <= Len(rows')
  BY <1>1, HistoryGrows, RowAppended
<1>3. ASSUME NEW j \in 1 .. k PROVE rows'[j] = rows[j] /\ j \in 1 .. Len(rows')
  <2>1. j \in DOMAIN rows /\ j \in 1 .. Len(rows')
    BY <1>1, <1>2
  <2> QED
    BY <2>1, RowsStay
<1> QED
  BY <1>3 DEF Vouched

\* The row of a snapshot that is accepted or reverted vouches for its commit.
LEMMA IndexedIsVouched ==
    ASSUME Rows, Chained, [Next]_vars, NEW c \in Callers, CreateSnapshot(c), call[c].mode \in {"accept", "revert"},
           NEW o, o = call[c].out
    PROVE  Vouched(o, Len(rows))'
<1>1. PICK j \in DOMAIN rows' : j = Len(rows) + 1 /\ rows'[j].out = o /\ rows'[j].kind = Kind(c)
  BY RowAppended
<1>2. j \in 1 .. Len(rows') /\ Len(rows) \in Nat /\ Len(rows) \in 0 .. Len(rows)
  BY <1>1, RowAppended
<1>3. CASE call[c].mode = "revert"
  <2>1. Kind(c) = "REVERT"
    BY <1>3 DEF Kind
  <2> QED
    BY <1>1, <1>2, <2>1 DEF Vouched
<1>4. CASE call[c].mode = "accept" /\ call[c].in = call[c].out
  <2>1. c # Operator /\ call[c].pc # "idle"
    <3>1. At(c, "index")
      BY DEF CreateSnapshot
    <3> QED
      BY <1>4, <3>1, CallTypes DEF CallAt, CallOfOperator, At
  <2>2. Vouched(o, Len(rows))
    BY <1>4, <2>1 DEF Chained, CallIsChained
  <2> QED
    BY <1>2, <2>2, VouchedStays
<1>5. CASE call[c].mode = "accept" /\ call[c].in # call[c].out
  <2>1. Kind(c) = "ACCEPTED"
    BY <1>5 DEF Kind
  <2> QED
    BY <1>1, <1>2, <2>1 DEF Vouched
<1> QED
  BY <1>3, <1>4, <1>5

\* A caller keeps what it has been given and what it has verified.
LEMMA CallStaysChained ==
    ASSUME Rows, Owned, Chained, [Next]_vars, NEW c \in Callers
    PROVE  CallIsChained(c)'
<1>0. PICK i, o : i = call[c].in /\ o = call[c].out
  OBVIOUS
<1>1. CallIsChained(c) /\ Len(rows) \in 0 .. Len(rows)
  <2>1. rows \in Seq(SnapRow(Len(commits)))
    BY DEF Rows, Upto
  <2> QED
    BY <2>1 DEF Chained
<1>2. ASSUME c # Operator, call[c].pc # "idle" PROVE Vouched(i, Len(rows))'
  <2>1. Vouched(i, Len(rows))
    BY <1>0, <1>1, <1>2 DEF CallIsChained
  <2> QED
    BY <1>1, <2>1, VouchedStays
<1>3. ASSUME call[c].pc = "candidate" PROVE Vouched(o, Len(rows))'
  <2>1. Vouched(o, Len(rows))
    BY <1>0, <1>1, <1>3 DEF CallIsChained
  <2> QED
    BY <1>1, <2>1, VouchedStays
<1>4. ASSUME call[c].pc \in {"pin", "index", "verify"}, i \in Ancestors(o)
      PROVE  i \in Ancestors(o)'
  <2>1. o \in 1 .. Len(commits)
    <3>1. o \in 0 .. Len(commits) /\ Len(commits) \in Nat /\ o # 0
      BY <1>0, <1>4, CallTypes DEF CallAt, Persists
    <3> QED
      BY <3>1
  <2> QED
    BY <1>4, <2>1, AncestorsStay
<1>5. CASE call'[c] = Idle
  <2>1. call'[c].pc = "idle"
    BY <1>5, IdleRow, CallTypes
  <2> QED
    BY <2>1 DEF CallIsChained
<1>6. CASE Started(c)
  <2>1. call'[c].pc \in {"add", "prepare", "record", "dispatch"} \/ (call'[c].pc = "pin" /\ call'[c].mode # "accept")
    BY <1>6 DEF Started, Starts
  <2>2. c # Operator => Vouched(call[c].in, Len(rows))'
    <3> SUFFICES ASSUME c # Operator PROVE Vouched(call[c].in, Len(rows))'
      OBVIOUS
    <3>1. PICK n : n = call'[c].in
      OBVIOUS
    <3>2. Vouched(n, Len(rows))
      BY <1>6, <3>1 DEF Started, Chained
    <3>3. Vouched(n, Len(rows))'
      BY <1>1, <3>2, VouchedStays
    <3> QED
      BY <3>1, <3>3
  <2> QED
    BY <2>1, <2>2 DEF CallIsChained
<1>7. CASE WentOn(c)
  <2>1. call'[c].in = i /\ call[c].pc # "idle" /\ call'[c].step = call[c].step
    BY <1>0, <1>7 DEF WentOn, SamePlace, At
  <2>2. ASSUME call'[c].pc \in {"pin", "index"}, call'[c].mode = "accept"
        PROVE  call'[c].out = o /\ i \in Ancestors(o)' /\ (i = o \/ Agents[call[c].step] \in MUTATING_AGENTS)
    <3>1. call'[c].out = o
      BY <1>0, <1>7, <2>2 DEF WentOn
    <3>2. CASE call[c].pc \in {"pin", "index"} /\ call[c].mode = "accept"
      BY <1>0, <1>1, <1>4, <3>1, <3>2 DEF CallIsChained, Authorized
    <3>3. CASE At(c, "verify") /\ Verified(c) /\ Authorized(c)
      <4>1. call[c].pc \in {"pin", "index", "verify"} /\ i \in Ancestors(o)
        BY <1>0, <3>3 DEF Verified, At
      <4> QED
        BY <1>0, <1>4, <3>1, <3>3, <4>1 DEF Authorized
    <3> QED
      BY <1>7, <2>2, <3>2, <3>3 DEF WentOn
  <2>3. ASSUME call'[c].pc = "candidate" PROVE call'[c].out = o /\ Vouched(o, Len(rows))'
    BY <1>0, <1>3, <1>7, <2>3, IndexedIsVouched DEF WentOn, At
  <2>4. c # Operator => Vouched(i, Len(rows))'
    BY <1>2, <2>1
  <2>5. c # Operator => Vouched(call[c].in, Len(rows))'
    BY <2>1, <2>4
  <2>6. call'[c].pc = "candidate" => Vouched(call[c].out, Len(rows))'
    BY <2>3
  <2>7. call'[c].pc \in {"pin", "index"} /\ call'[c].mode = "accept" =>
            (call[c].in \in Ancestors(call[c].out))' /\ Authorized(c)'
    BY <2>1, <2>2 DEF Authorized
  <2> QED
    BY <2>5, <2>6, <2>7 DEF CallIsChained
<1>8. CASE call'[c] = call[c]
  <2>1. c # Operator /\ call'[c].pc # "idle" => Vouched(call[c].in, Len(rows))'
    BY <1>0, <1>2, <1>8
  <2>2. call'[c].pc = "candidate" => Vouched(call[c].out, Len(rows))'
    BY <1>0, <1>3, <1>8
  <2>3. call'[c].pc \in {"pin", "index"} /\ call'[c].mode = "accept" =>
            (call[c].in \in Ancestors(call[c].out))' /\ Authorized(c)'
    BY <1>0, <1>1, <1>4, <1>8 DEF CallIsChained, Authorized
  <2> QED
    BY <2>1, <2>2, <2>3 DEF CallIsChained
<1> QED
  BY <1>5, <1>6, <1>7, <1>8, CallersGoOn DEF CallGoesOn

\* The candidate stays vouched for.
LEMMA CandidateStaysVouched ==
    ASSUME Rows, Chained, [Next]_vars
    PROVE  Vouched(run.candidate, Len(rows))'
<1>0. Len(rows) \in 0 .. Len(rows)
  <2>1. rows \in Seq(SnapRow(Len(commits)))
    BY DEF Rows, Upto
  <2> QED
    BY <2>1
<1>1. PICK n : n = run'.candidate
  OBVIOUS
<1>2. CASE run'.candidate = run.candidate
  <2>1. Vouched(n, Len(rows))
    BY <1>1, <1>2 DEF Chained, CandidateIsAuthorized
  <2> QED
    BY <1>0, <1>1, <2>1, VouchedStays
<1>3. ASSUME NEW c \in Callers, UpdateCandidate(c) PROVE Vouched(run.candidate, Len(rows))'
  <2>1. n = call[c].out /\ call[c].pc = "candidate"
    BY <1>1, <1>3 DEF UpdateCandidate, At, Rows, Upto
  <2>2. Vouched(n, Len(rows))
    BY <2>1 DEF Chained, CallIsChained
  <2> QED
    BY <1>0, <1>1, <2>2, VouchedStays
<1> QED
  BY <1>2, <1>3, HistoryGrows

\* An accepted snapshot, of an agent that may change the repository, and on top of an input that
\* the first k snapshots vouched for.
Chains(row, k) ==
    row.kind = "ACCEPTED" => /\ Agents[row.step] \in MUTATING_AGENTS
                             /\ row.in \in Ancestors(row.out) /\ Vouched(row.in, k)

\* It stays one.
LEMMA ChainsOn ==
    ASSUME Rows, Owned, [Next]_vars, NEW row, NEW k \in 0 .. Len(rows), row.out \in 1 .. Len(commits), Chains(row, k)
    PROVE  Chains(row, k)'
<1> SUFFICES ASSUME row.kind = "ACCEPTED"
             PROVE  row.in \in Ancestors(row.out)' /\ Vouched(row.in, k)'
  BY DEF Chains
<1>1. PICK i, o : i = row.in /\ o = row.out
  OBVIOUS
<1>2. i \in Ancestors(o) /\ Vouched(i, k) /\ o \in 1 .. Len(commits)
  BY <1>1 DEF Chains
<1>3. i \in Ancestors(o)' /\ Vouched(i, k)'
  BY <1>2, AncestorsStay, VouchedStays
<1> QED
  BY <1>1, <1>3

\* A row that is appended is one.
LEMMA ChainsAppended ==
    ASSUME Rows, Chained, NEW c \in Callers, CreateSnapshot(c), NEW row, row.step = call[c].step,
           row.in = call[c].in, row.out = call[c].out, row.kind = Kind(c)
    PROVE  Chains(row, Len(rows)) /\ row.out \in 1 .. Len(commits)
<1>1. At(c, "index")
  BY DEF CreateSnapshot
<1>2. call[c].out \in 1 .. Len(commits)
  <2>1. call[c].out \in 0 .. Len(commits) /\ Len(commits) \in Nat /\ call[c].out # 0
    BY <1>1, CallTypes DEF CallAt, At, Persists
  <2> QED
    BY <2>1
<1>3. ASSUME Kind(c) = "ACCEPTED" PROVE Chains(row, Len(rows))
  <2>1. call[c].mode # "restore" /\ call[c].mode # "revert"
    BY <1>3 DEF Kind
  <2>2. Kind(c) = IF call[c].in = call[c].out THEN "NO_CHANGE"
                  ELSE IF call[c].mode = "accept" THEN "ACCEPTED" ELSE "FAILED_RECOVERY"
    BY <2>1 DEF Kind
  <2>3. call[c].in # call[c].out /\ call[c].mode = "accept"
    BY <1>3, <2>2
  <2>4. c # Operator
    BY <1>1, <2>3, CallTypes DEF CallAt, CallOfOperator, At
  <2>5. call[c].in \in Ancestors(call[c].out) /\ Authorized(c) /\ Vouched(call[c].in, Len(rows))
    BY <1>1, <2>3, <2>4 DEF Chained, CallIsChained, At
  <2> QED
    BY <2>3, <2>5 DEF Chains, Authorized
<1> QED
  BY <1>2, <1>3 DEF Chains

\* Every row stays one.
LEMMA RowsChain ==
    ASSUME Rows, Owned, Chained, [Next]_vars, NEW k \in DOMAIN rows'
    PROVE  Chains(rows[k], k - 1)'
<1>0. /\ rows \in Seq(SnapRow(Len(commits))) /\ Len(rows) \in Nat /\ DOMAIN rows = 1 .. Len(rows)
  <2>1. rows \in Seq(SnapRow(Len(commits)))
    BY DEF Rows, Upto
  <2> QED
    BY <2>1
<1>1. PICK row, j : row = rows'[k] /\ j = k - 1
  OBVIOUS
<1>2. CASE k \in DOMAIN rows
  <2>1. row = rows[k] /\ j \in 0 .. Len(rows)
    BY <1>0, <1>1, <1>2, RowsStay
  <2>2. Chains(row, j)
    BY <1>1, <1>2, <2>1 DEF Chained, CandidateIsAuthorized, Chains
  <2>3. row.out \in 1 .. Len(commits)
    <3>1. row \in SnapRow(Len(commits))
      BY <1>0, <1>2, <2>1, ElementOfSeq
    <3> QED
      BY <3>1 DEF SnapRow
  <2>4. Chains(row, j)'
    BY <2>1, <2>2, <2>3, ChainsOn
  <2> QED
    BY <1>1, <2>4
<1>3. CASE k \notin DOMAIN rows
  <2>1. PICK c \in Callers : CreateSnapshot(c)
    BY <1>3, HistoryGrows
  <2>2. k = Len(rows) + 1
    BY <1>3, <2>1, RowAppended
  <2>3. row.step = call[c].step /\ row.in = call[c].in /\ row.out = call[c].out /\ row.kind = Kind(c)
    BY <1>1, <2>1, <2>2, RowAppended
  <2>4. j = Len(rows) /\ j \in 0 .. Len(rows)
    BY <1>0, <1>1, <2>2
  <2>5. Chains(row, j) /\ row.out \in 1 .. Len(commits)
    BY <2>1, <2>3, <2>4, ChainsAppended
  <2>6. Chains(row, j)'
    BY <2>4, <2>5, ChainsOn
  <2> QED
    BY <1>1, <2>6
<1> QED
  BY <1>2, <1>3

\* Every step keeps the chain.
LEMMA NextChained == Rows /\ Owned /\ Ordered /\ Chained /\ [Next]_vars => Chained'
<1> SUFFICES ASSUME Rows, Owned, Ordered, Chained, [Next]_vars PROVE Chained'
  OBVIOUS
<1>1. ASSUME NEW s \in Steps, tasks'[s].state # "none" PROVE Vouched(tasks[s].in, Len(rows))'
  <2>3. PICK n : n = tasks'[s].in
    OBVIOUS
  <2>1. Vouched(n, Len(rows))
    BY <1>1, <2>3, TasksGoOn DEF TaskGoesOn, Chained, CandidateIsAuthorized
  <2>2. Len(rows) \in 0 .. Len(rows)
    <3>1. rows \in Seq(SnapRow(Len(commits)))
      BY DEF Rows, Upto
    <3> QED
      BY <3>1
  <2>4. Vouched(n, Len(rows))'
    BY <2>1, <2>2, VouchedStays
  <2> QED
    BY <2>3, <2>4
<1>2. CandidateIsAuthorized'
  BY CandidateStaysVouched, RowsChain DEF CandidateIsAuthorized, Chains
<1> QED
  BY <1>1, <1>2, CallStaysChained DEF Chained

\* The candidate of the first state is the base.
LEMMA InitChained == Init => Chained
<1> SUFFICES ASSUME Init PROVE Chained
  OBVIOUS
<1>1. \A s \in Steps : tasks[s].state = "none"
  BY DEF Init
<1>2. \A c \in Callers : call[c].pc = "idle"
  BY IdleRow DEF Init
<1>3. run.candidate = Base /\ DOMAIN rows = {}
  BY DEF Init
<1> QED
  BY <1>1, <1>2, <1>3 DEF Chained, CallIsChained, CandidateIsAuthorized, Vouched

\* The candidate comes down from the base, or from a revert, by accepted snapshots alone, each of
\* an agent that may change the repository and on top of an input that was vouched for: what a
\* recovery saved and what a reader changed is never the candidate (accept, revert).
THEOREM OnlyAuthorizedCommits == Spec => []CandidateIsAuthorized
<1>1. Init => Rows /\ Owned /\ Ordered /\ Chained
  BY InitRows, InitOwned, InitOrdered, InitChained
<1>2. Rows /\ Owned /\ Ordered /\ Chained /\ [Next]_vars => (Rows /\ Owned /\ Ordered /\ Chained)'
  BY NextRows, NextOwned, NextOrdered, NextChained
<1>3. Chained => CandidateIsAuthorized
  BY DEF Chained
<1> QED
  BY <1>1, <1>2, <1>3, PTL DEF Spec

-----------------------------------------------------------------------------
(* What the candidate is from. *)

\* What is the candidate stays handed in as long as the candidate is not moved.
LEMMA HandedInStays ==
    ASSUME Rows, [Next]_vars, run'.candidate = run.candidate, NEW x, HandedIn(x)
    PROVE  HandedIn(x)'
<1>1. PICK k \in DOMAIN rows :
         /\ rows[k].out = run.candidate
         /\ <<rows[k].step, rows[k].attempt>> \in {x} \cup late \/ rows[k].kind = "REVERT"
  BY DEF HandedIn
<1>2. k \in DOMAIN rows' /\ rows'[k] = rows[k] /\ late \subseteq late'
  BY RowsStay, HistoryGrows
<1> QED
  BY <1>1, <1>2 DEF HandedIn

\* The candidate is moved to what the caller has indexed: by the attempt itself, by an attempt
\* without its lease, by a revert, or by another attempt that has the lease.
LEMMA HandedInMoves ==
    ASSUME Rows, Accounted, [Next]_vars, NEW c \in Callers, UpdateCandidate(c), NEW x
    PROVE  HandedIn(x)' \/ (c \in Calls /\ call[c].held /\ x # Attempt(c))
<1> SUFFICES ASSUME c = Operator \/ ~call[c].held \/ x = Attempt(c) PROVE HandedIn(x)'
  BY DEF Callers
<1>1. At(c, "candidate") /\ RowOfCall(c)
  BY DEF UpdateCandidate, Accounted, CallIsAccounted
<1>2. PICK k \in DOMAIN rows : /\ rows[k].out = call[c].out
                               /\ IF c = Operator THEN rows[k].kind = "REVERT"
                                  ELSE <<rows[k].step, rows[k].attempt>> = Attempt(c)
  BY <1>1 DEF RowOfCall
<1>3. k \in DOMAIN rows' /\ rows'[k] = rows[k]
  BY RowsStay
<1>4. run'.candidate = call[c].out
  BY DEF UpdateCandidate, Rows, Upto
<1>5. ~call[c].held => Attempt(c) \in late'
  BY DEF UpdateCandidate
<1> QED
  BY <1>2, <1>3, <1>4, <1>5 DEF HandedIn

\* A caller keeps the row that it has indexed.
LEMMA RowOfCallStays ==
    ASSUME Rows, [Next]_vars, NEW c \in Callers, RowOfCall(c), SamePlace(c), call'[c].out = call[c].out
    PROVE  RowOfCall(c)'
<1>1. PICK k \in DOMAIN rows : /\ rows[k].out = call[c].out
                               /\ IF c = Operator THEN rows[k].kind = "REVERT"
                                  ELSE <<rows[k].step, rows[k].attempt>> = Attempt(c)
  BY DEF RowOfCall
<1>2. k \in DOMAIN rows' /\ rows'[k] = rows[k]
  BY RowsStay
<1> QED
  BY <1>1, <1>2 DEF RowOfCall, SamePlace, Attempt

\* What is about to become the candidate has just been indexed.
LEMMA RowOfCallBegins ==
    ASSUME Rows, NEW c \in Callers, CreateSnapshot(c), call[c].mode \in {"accept", "revert"}, SamePlace(c),
           call'[c].out = call[c].out
    PROVE  RowOfCall(c)'
<1>1. PICK j \in DOMAIN rows' : /\ rows'[j].step = call[c].step /\ rows'[j].attempt = call[c].attempt
                                /\ rows'[j].out = call[c].out /\ rows'[j].kind = Kind(c)
  BY RowAppended
<1>2. c = Operator => Kind(c) = "REVERT"
  BY IndexedGoes DEF Kind
<1> QED
  BY <1>1, <1>2 DEF RowOfCall, SamePlace, Attempt

\* A caller keeps what it has indexed, and what it has made the candidate.
LEMMA CallStaysAccounted ==
    ASSUME Rows, Owned, Accounted, [Next]_vars, NEW c \in Callers
    PROVE  CallIsAccounted(c)'
<1>0. CallIsAccounted(c)
  BY DEF Accounted
<1>1. PICK x : x = Attempt(c)
  OBVIOUS
<1>2. ASSUME c # Operator, call[c].pc = "commit", call[c].mode = "accept", call[c].held PROVE HandedIn(x)'
  <2>1. HandedIn(x)
    BY <1>0, <1>1, <1>2 DEF CallIsAccounted, At
  <2>2. ASSUME NEW d \in Callers, UpdateCandidate(d) PROVE HandedIn(x)'
    <3>1. d # c
      BY <1>2, <2>2 DEF UpdateCandidate, At
    <3>2. ~call[d].held
      BY <1>2, <3>1 DEF Owned
    <3> QED
      BY <2>2, <3>2, HandedInMoves
  <2> QED
    BY <2>1, <2>2, HandedInStays, HistoryGrows
<1>3. CASE call'[c] = Idle
  <2>1. call'[c].pc = "idle"
    BY <1>3, IdleRow, CallTypes
  <2> QED
    BY <2>1 DEF CallIsAccounted, At
<1>4. CASE Started(c)
  <2>1. call'[c].pc \in {"add", "pin", "prepare", "record", "dispatch"}
    BY <1>4 DEF Started, Starts
  <2> QED
    BY <2>1 DEF CallIsAccounted, At
<1>5. CASE call'[c] = call[c]
  <2>1. SamePlace(c) /\ call'[c].out = call[c].out
    BY <1>5 DEF SamePlace
  <2>2. At(c, "candidate")' => RowOfCall(c)'
    BY <1>0, <1>5, <2>1, RowOfCallStays DEF CallIsAccounted, At
  <2>3. Attempt(c)' = x
    BY <1>1, <1>5 DEF Attempt
  <2>4. (c # Operator /\ At(c, "commit") /\ call[c].mode = "accept" /\ call[c].held)' => HandedIn(x)'
    BY <1>2, <1>5 DEF At
  <2> QED
    BY <2>2, <2>3, <2>4 DEF CallIsAccounted
<1>6. CASE WentOn(c)
  <2>1. SamePlace(c) /\ (call'[c].held => call[c].held)
    BY <1>6 DEF WentOn
  <2>2. ASSUME call'[c].pc = "candidate" PROVE RowOfCall(c)'
    <3>1. /\ call'[c].out = call[c].out
          /\ At(c, "candidate") \/ (CreateSnapshot(c) /\ call[c].mode \in {"accept", "revert"})
      BY <1>6, <2>2 DEF WentOn
    <3>2. CASE At(c, "candidate")
      BY <1>0, <2>1, <3>1, <3>2, RowOfCallStays DEF CallIsAccounted
    <3>3. CASE CreateSnapshot(c) /\ call[c].mode \in {"accept", "revert"}
      BY <2>1, <3>1, <3>3, RowOfCallBegins
    <3> QED
      BY <3>1, <3>2, <3>3
  <2>3. Attempt(c)' = x
    BY <1>1, <2>1 DEF Attempt, SamePlace
  <2>4. ASSUME c # Operator, call'[c].pc = "commit", call'[c].mode = "accept", call'[c].held PROVE HandedIn(x)'
    <3>1. UpdateCandidate(c) \/ (call[c].pc = "commit" /\ call[c].mode = "accept")
      BY <1>6, <2>4 DEF WentOn, At
    <3> QED
      BY <1>1, <1>2, <2>1, <2>4, <3>1, HandedInMoves
  <2> QED
    BY <2>2, <2>3, <2>4 DEF CallIsAccounted, At
<1> QED
  BY <1>3, <1>4, <1>5, <1>6, CallersGoOn DEF CallGoesOn

\* While a step is completed no other attempt has the lease.
LEMMA CompletedIsUnheld ==
    ASSUME Rows, Owned, Ordered, NEW s \in Steps, Completed(s), NEW c \in Calls
    PROVE  ~call[c].held \/ At(c, "prepare") \/ At(c, "record") \/ At(c, "dispatch")
<1> SUFFICES ASSUME call[c].held, ~Starting(c) PROVE FALSE
  BY DEF Starting, At
<1>1. /\ call[c].step = run.step /\ call[c].step \in Steps /\ tasks[run.step].state = "RUNNING"
  BY HeldTask DEF Ordered
<1>2. s \in Nat /\ run.step \in Nat
  BY <1>1, Numbers
<1>3. s # run.step
  BY <1>1 DEF Completed
<1>4. ~(run.step > s)
  BY <1>1 DEF Completed
<1>5. ~(s > run.step)
  BY DEF Completed, Ordered, TaskIsOrdered
<1> QED
  BY <1>2, <1>3, <1>4, <1>5

\* What completes a step is the candidate.
LEMMA CompletedStaysHandedIn ==
    ASSUME Rows, Owned, Ordered, Accounted, [Next]_vars, NEW s \in Steps, Completed(s)'
    PROVE  HandedIn(<<s, tasks[s].success>>)'
<1>1. PICK x : x = <<s, tasks'[s].success>>
  OBVIOUS
<1>2. /\ tasks'[s].state = "SUCCEEDED" /\ tasks'[s].success = tasks'[s].attempt
      /\ \A r \in Steps : r > s => tasks'[r].state = "none"
  BY DEF Completed
<1>3. ~(tasks'[s].success < tasks'[s].attempt)
  <2>1. tasks'[s].success \in 0 .. MaxAttempts
    BY NextRows DEF Rows, Upto, TaskRow
  <2> QED
    BY <1>2, <2>1
<1>4. ASSUME tasks'[s].state = tasks[s].state, tasks'[s].success = tasks[s].success,
             tasks'[s].attempt = tasks[s].attempt
      PROVE  HandedIn(x)'
  <2>1. Completed(s)
    <3>1. \A r \in Steps : tasks'[r].state = "none" => tasks[r].state = "none"
      BY TasksGoOn DEF TaskGoesOn
    <3> QED
      BY <1>2, <1>4, <3>1 DEF Completed
  <2>2. HandedIn(x)
    BY <1>1, <1>4, <2>1 DEF Accounted
  <2>3. ASSUME NEW c \in Callers, UpdateCandidate(c) PROVE HandedIn(x)'
    <3>1. call[c].pc = "candidate"
      BY <2>3 DEF UpdateCandidate, At
    <3>2. ~(c \in Calls /\ call[c].held)
      BY <2>1, <3>1, CompletedIsUnheld DEF At
    <3> QED
      BY <2>3, <3>2, HandedInMoves
  <2> QED
    BY <1>1, <2>2, <2>3, HandedInStays, HistoryGrows
<1>5. ASSUME NEW c \in Calls, At(c, "commit"), call[c].mode = "accept", call[c].held, call[c].step = s,
             tasks'[s].success = call[c].attempt
      PROVE  HandedIn(x)'
  <2>0. c \in Callers /\ c # Operator
    BY Numbers
  <2>1. x = Attempt(c)
    BY <1>1, <1>5 DEF Attempt
  <2>2. HandedIn(x)
    BY <1>5, <2>0, <2>1 DEF Accounted, CallIsAccounted
  <2>3. ASSUME NEW d \in Callers, UpdateCandidate(d) PROVE FALSE
    <3>1. UNCHANGED tasks
      BY <2>3 DEF UpdateCandidate
    <3>2. tasks[s].state = "RUNNING"
      BY <1>5, HeldTask DEF Starting, At
    <3> QED
      BY <1>2, <3>1, <3>2
  <2> QED
    BY <2>2, <2>3, HandedInStays, HistoryGrows
<1>6. HandedIn(x)'
  <2>1. \/ /\ tasks'[s].state = tasks[s].state /\ tasks'[s].success = tasks[s].success
           /\ tasks'[s].attempt = tasks[s].attempt
        \/ \E c \in Calls : /\ At(c, "commit") /\ call[c].mode = "accept" /\ call[c].held /\ call[c].step = s
                            /\ tasks'[s].success = call[c].attempt
    <3>1. TaskGoesOn(s)
      BY TasksGoOn
    <3> QED
      BY <1>2, <1>3, <3>1 DEF TaskGoesOn
  <2> QED
    BY <1>4, <1>5, <2>1
<1> QED
  BY <1>1, <1>6

\* Every step keeps what the candidate is from.
LEMMA NextAccounted == Rows /\ Owned /\ Ordered /\ Accounted /\ [Next]_vars => Accounted'
<1> SUFFICES ASSUME Rows, Owned, Ordered, Accounted, [Next]_vars PROVE Accounted'
  OBVIOUS
<1>1. \A c \in Callers : CallIsAccounted(c)'
  BY CallStaysAccounted
<1>2. \A s \in Steps : Completed(s)' => HandedIn(<<s, tasks[s].success>>)'
  BY CompletedStaysHandedIn
<1> QED
  BY <1>1, <1>2 DEF Accounted

\* No step is completed in the first state.
LEMMA InitAccounted == Init => Accounted
<1> SUFFICES ASSUME Init PROVE Accounted
  OBVIOUS
<1>1. \A s \in Steps : tasks[s].state = "none"
  BY DEF Init
<1>2. \A c \in Callers : call[c].pc = "idle"
  BY IdleRow DEF Init
<1> QED
  BY <1>1, <1>2 DEF Accounted, CallIsAccounted, Completed, At

\* Once an attempt has completed its step, the candidate that the next step starts from is what
\* that attempt handed in: not what an attempt left that moved the candidate and then failed.
\* Only a revert and an attempt without its lease move it from there (accept, executeTask).
THEOREM CompletedIsCandidate == Spec => []SuccessIsCandidate
<1>1. Init => Rows /\ Owned /\ Ordered /\ Accounted
  BY InitRows, InitOwned, InitOrdered, InitAccounted
<1>2. Rows /\ Owned /\ Ordered /\ Accounted /\ [Next]_vars => (Rows /\ Owned /\ Ordered /\ Accounted)'
  BY NextRows, NextOwned, NextOrdered, NextAccounted
<1>3. Accounted => SuccessIsCandidate
  BY DEF Accounted, HandedIn, SuccessIsCandidate
<1> QED
  BY <1>1, <1>2, <1>3, PTL DEF Spec

-----------------------------------------------------------------------------
(* What failed attempts leave. *)

\* What is saved stays saved.
LEMMA SavedStays ==
    ASSUME Rows, [Next]_vars, NEW n, Saved(n)
    PROVE  \E k \in DOMAIN rows' : rows'[k].out = n
  BY RowsStay DEF Saved

\* Faults do not go away.
LEMMA FaultlessBefore ==
    ASSUME Rows, Owned, [Next]_vars, Faultless'
    PROVE  Faultless
<1>1. faults \in FaultRow
  BY DEF Rows
<1>2. CASE UNCHANGED faults
  BY <1>2 DEF Faultless
<1>3. CASE \E k \in {"crash", "lease", "effect", "undo", "orphan"} : Fault(k)
  <2>1. FaultsGrow
    BY <1>3, Faulty
  <2> QED
    BY <1>1, <2>1 DEF FaultsGrow, FaultRow, Faultless
<1>4. CASE faults' = [faults EXCEPT !.undo = @ + 1]
  BY <1>1, <1>4 DEF FaultRow, Faultless
<1>5. CASE UNCHANGED vars
  BY <1>2, <1>5 DEF vars
<1>6. ASSUME NEW c \in Callers, Snapshot(c) \/ Crash(c)
      PROVE  UNCHANGED faults \/ \E k \in {"crash", "lease", "effect", "undo", "orphan"} : Fault(k)
  BY <1>6 DEF Snapshot, PinSnapshot, PinFails, CreateSnapshot, CreateSnapshotFails, UpdateCandidate,
              UpdateCandidateFails, Crash
<1>7. ASSUME NEW c \in Calls, ExecuteTask(c)
      PROVE  UNCHANGED faults \/ \E k \in {"crash", "lease", "effect", "undo", "orphan"} : Fault(k)
  <2>1. CASE \/ TaskForStep(c) \/ Prepare(c) \/ PreparationFails(c) \/ RecordWorkspace(c) \/ Dispatch(c)
             \/ Completes(c) \/ Reports(c) \/ AgentFails(c)
    BY <2>1 DEF TaskForStep, Prepare, PreparationFails, RecordWorkspace, Dispatch, Completes, Reports, AgentFails
  <2>2. CASE Verify(c) \/ CaptureRecovery(c) \/ CaptureFails(c) \/ CommitResult(c) \/ CommitResultFails(c)
             \/ CommitFailure(c) \/ LoseLease(c)
    BY <2>2 DEF Verify, CaptureRecovery, CaptureFails, CommitResult, CommitResultFails, CommitFailure, LoseLease,
                Decide
  <2> QED
    BY <1>7, <2>1, <2>2 DEF ExecuteTask
<1>8. ASSUME \/ CreateTask \/ Reap \/ RetryReady \/ ReworkTask \/ Advance
             \/ \E w \in Workspaces : AgentEdits(w) \/ AgentCommits(w) \/ AgentChecksOut(w) \/ AgentMerges(w)
             \/ Restore \/ AddRestoreTree \/ CleanupRestore \/ Revert
      PROVE  UNCHANGED faults
  BY <1>8 DEF CreateTask, Reap, RetryReady, ReworkTask, Advance, AgentEdits, AgentCommits, AgentChecksOut,
              AgentMerges, Restore, AddRestoreTree, CleanupRestore, Revert
<1>9. CleanupRestoreFails => faults' = [faults EXCEPT !.undo = @ + 1]
  BY DEF CleanupRestoreFails
<1>10. AddRestoreTreeFails \/ RestoreIsOrphaned => \E k \in {"crash", "lease", "effect", "undo", "orphan"} : Fault(k)
  BY DEF AddRestoreTreeFails, RestoreIsOrphaned
<1> QED
  BY <1>2, <1>3, <1>4, <1>5, <1>6, <1>7, <1>8, <1>9, <1>10 DEF Next

\* An effect that fails is a fault.
LEMMA EffectIsFault ==
    ASSUME Rows, Fault("effect") \/ Fault("undo")
    PROVE  ~Faultless'
<1>1. faults \in FaultRow
  BY DEF Rows
<1>2. PICK k \in {"effect", "undo"} : Fault(k) /\ k \in {"crash", "lease", "effect", "undo", "orphan"}
  OBVIOUS
<1>3. /\ faults'.effect = faults.effect + (IF k = "effect" THEN 1 ELSE 0)
      /\ faults'.undo = faults.undo + (IF k = "undo" THEN 1 ELSE 0)
  BY <1>1, <1>2, Faulted
<1> QED
  BY <1>1, <1>2, <1>3 DEF FaultRow, Faultless

\* The situation of the steps below.
Keeping == Rows /\ Owned /\ Kept /\ Faultless /\ [Next]_vars

\* A tree that nobody touches, and that nobody has left, stays kept.
LEMMA TreeStaysKept ==
    ASSUME Keeping, NEW w \in Workspaces, trees'[w] = trees[w] \/ (trees[w].busy /\ trees'[w].used = trees[w].used),
           (\A c \in Calls : call'[c].ws # w) => \A c \in Calls : call[c].ws # w
    PROVE  TreeIsKept(w)'
<1>1. TreeIsKept(w) /\ gone \subseteq gone'
  BY HistoryGrows DEF Keeping, Kept
<1>2. CASE trees'[w].used \ gone' = {} \/ \E c \in Calls : call'[c].ws = w
  BY <1>2 DEF TreeIsKept
<1>3. CASE trees'[w].used \ gone' # {} /\ \A c \in Calls : call'[c].ws # w
  <2>1. trees'[w].used = trees[w].used /\ trees[w].used \ gone # {} /\ \A c \in Calls : call[c].ws # w
    BY <1>1, <1>3
  <2>2. ~trees[w].dirty /\ ~trees[w].busy /\ Saved(trees[w].head)
    BY <1>1, <2>1 DEF TreeIsKept
  <2>3. trees'[w] = trees[w]
    BY <2>2
  <2>4. Saved(trees[w].head)'
    BY <2>2, <2>3, SavedStays DEF Saved, Keeping
  <2> QED
    BY <2>2, <2>3, <2>4 DEF TreeIsKept
<1> QED
  BY <1>2, <1>3

\* A call that does not move, in a tree that nobody touches or only an agent.
LEMMA CallStaysKept ==
    ASSUME Keeping, NEW c \in Calls, call'[c] = call[c],
           ~At(c, "idle") => \/ trees'[call[c].ws] = trees[call[c].ws]
                             \/ trees[call[c].ws].busy
    PROVE  CallKeeps(c)'
<1>1. CallKeeps(c)
  BY DEF Keeping, Kept
<1>2. CASE call[c].pc \in Persists \cup {"candidate", "commit", "fail"}
  <2>1. ~At(c, "idle") /\ ~Starting(c) /\ call[c].pc # "run"
    BY <1>2 DEF At, Starting, Persists
  <2>2. trees'[call[c].ws] = trees[call[c].ws]
    BY <2>1, UsedTree DEF Keeping
  <2>3. Tree(c)' = Tree(c)
    BY <2>2 DEF Tree
  <2>4. Saved(Tree(c).head) => Saved(Tree(c).head)'
    BY <2>3, SavedStays DEF Saved, Keeping
  <2> QED
    BY <1>1, <2>3, <2>4 DEF CallKeeps
<1>3. CASE call[c].pc \notin Persists \cup {"candidate", "commit", "fail"}
  BY <1>3 DEF CallKeeps
<1> QED
  BY <1>2, <1>3

\* Nobody moves but agents and the operator.
LEMMA KeptAlone ==
    ASSUME Keeping, \A c \in Calls : call'[c] = call[c],
           \A w \in Workspaces : trees'[w] = trees[w] \/ (trees[w].busy /\ trees'[w].used = trees[w].used)
    PROVE  Kept'
<1>1. ASSUME NEW w \in Workspaces PROVE TreeIsKept(w)'
  BY TreeStaysKept
<1>2. ASSUME NEW c \in Calls PROVE CallKeeps(c)'
  <2>1. ~At(c, "idle") => call[c].ws \in Workspaces
    BY CallTypes, Numbers DEF Keeping
  <2> QED
    BY <2>1, CallStaysKept
<1> QED
  BY <1>1, <1>2 DEF Kept

\* A call moves and has its tree afterwards.
LEMMA KeptMoves ==
    ASSUME Keeping, NEW c \in Calls, \A d \in Callers : d # c => call'[d] = call[d],
           ~At(c, "idle")', At(c, "idle") \/ call[c].ws = call'[c].ws,
           \A w \in Workspaces : w # call'[c].ws => trees'[w] = trees[w], CallKeeps(c)'
    PROVE  Kept'
<1>0. Owned' /\ c \in Callers /\ (\A d \in Calls : d \in Callers) /\ 0 \notin Workspaces
  BY NextOwned, Numbers DEF Keeping
<1>1. At(c, "idle") => call[c].ws = 0
  BY <1>0, CallTypes, IdleRow DEF Keeping, CallAt, At, Idle
<1>2. ASSUME NEW w \in Workspaces PROVE TreeIsKept(w)'
  <2>1. CASE w = call'[c].ws
    BY <2>1 DEF TreeIsKept
  <2>2. CASE w # call'[c].ws
    <3>1. call[c].ws # w
      BY <1>0, <1>1, <2>2
    <3>2. (\A d \in Calls : call'[d].ws # w) => \A d \in Calls : call[d].ws # w
      BY <1>0, <3>1
    <3> QED
      BY <2>2, <3>2, TreeStaysKept
  <2> QED
    BY <2>1, <2>2
<1>3. ASSUME NEW d \in Calls PROVE CallKeeps(d)'
  <2>1. CASE d # c
    <3>1. call'[d] = call[d]
      BY <1>0, <2>1
    <3>2. ~At(d, "idle") => call[d].ws # call'[c].ws
      BY <1>0, <2>1, <3>1 DEF Owned, At
    <3>3. ~At(d, "idle") => call[d].ws \in Workspaces
      BY CallTypes, Numbers DEF Keeping
    <3> QED
      BY <3>1, <3>2, <3>3, CallStaysKept
  <2> QED
    BY <2>1
<1> QED
  BY <1>2, <1>3 DEF Kept

\* A call is done with its tree, which holds what is saved or nothing that counts.
LEMMA KeptDone ==
    ASSUME Keeping, NEW c \in Calls, Done(c), UNCHANGED trees, ~At(c, "idle"),
           \/ Tree(c).used \subseteq gone'
           \/ ~Tree(c).dirty /\ ~Tree(c).busy /\ Saved(Tree(c).head)
    PROVE  Kept'
<1>0. c \in Callers /\ (\A d \in Calls : d \in Callers)
  BY Numbers
<1>1. call'[c] = Idle /\ \A d \in Callers : d # c => call'[d] = call[d]
  BY <1>0, DoneAt DEF Keeping, OnlyCall
<1>2. ASSUME NEW w \in Workspaces PROVE TreeIsKept(w)'
  <2>1. CASE w = call[c].ws
    <3>1. trees'[w] = Tree(c)
      BY <2>1 DEF Tree
    <3>2. CASE Tree(c).used \subseteq gone'
      BY <3>1, <3>2 DEF TreeIsKept
    <3>3. CASE ~Tree(c).dirty /\ ~Tree(c).busy /\ Saved(Tree(c).head)
      <4>1. \E k \in DOMAIN rows' : rows'[k].out = Tree(c).head
        BY <3>3, SavedStays DEF Keeping
      <4> QED
        BY <3>1, <3>3, <4>1 DEF TreeIsKept, Saved
    <3> QED
      BY <3>2, <3>3
  <2>2. CASE w # call[c].ws
    <3>1. (\A d \in Calls : call'[d].ws # w) => \A d \in Calls : call[d].ws # w
      BY <1>0, <1>1, <2>2
    <3> QED
      BY <3>1, TreeStaysKept
  <2> QED
    BY <2>1, <2>2
<1>3. ASSUME NEW d \in Calls PROVE CallKeeps(d)'
  <2>1. CASE d # c
    BY <1>0, <1>1, <2>1, CallStaysKept
  <2>2. CASE d = c
    <3>1. call'[d].pc = "idle"
      BY <1>1, <2>2 DEF Idle
    <3> QED
      BY <3>1 DEF CallKeeps, Persists
  <2> QED
    BY <2>1, <2>2
<1> QED
  BY <1>2, <1>3 DEF Kept

\* A call that starts has a tree in which nobody has worked.
LEMMA KeptStarting ==
    ASSUME Keeping, Faultless', NEW c \in Calls,
           TaskForStep(c) \/ Prepare(c) \/ PreparationFails(c) \/ RecordWorkspace(c) \/ Dispatch(c)
    PROVE  Kept'
<1> DEFINE N == Len(commits)
<1>0. /\ N \in Nat /\ c \in Callers /\ call \in [Callers -> CallRow(N)] /\ trees \in [Workspaces -> TreeRow(N)]
      /\ {"record", "dispatch", "run"} \subseteq Pcs /\ Rows /\ Owned
  BY CallTypes, Numbers DEF Keeping, Pcs
<1> HIDE DEF N
<1>1. ASSUME call'[c].pc \in Starts \cup {"run"} PROVE CallKeeps(c)' /\ ~At(c, "idle")'
  BY <1>1 DEF CallKeeps, Starts, Persists, At
<1>2. CASE TaskForStep(c)
  <2>1. /\ OnlyCall(c, N) /\ At(c, "idle") /\ call'[c].pc \in Starts
        /\ \/ UNCHANGED trees
           \/ call'[c].ws \in Workspaces /\ trees' = [trees EXCEPT ![call'[c].ws].state = "reserved"]
    BY <1>0, <1>2, AskGoes DEF N, Starts
  <2>2. \A w \in Workspaces : w # call'[c].ws => trees'[w] = trees[w]
    BY <1>0, <2>1
  <2> QED
    BY <1>1, <2>1, <2>2, KeptMoves DEF OnlyCall
<1>3. ASSUME Starting(c), Goto(c, "record") \/ Goto(c, "dispatch") \/ Goto(c, "run"),
             \A w \in Workspaces : w # call[c].ws => trees'[w] = trees[w]
      PROVE  Kept'
  <2>1. Goes(c, "record") \/ Goes(c, "dispatch") \/ Goes(c, "run")
    BY <1>0, <1>3, GoesTo
  <2>2. /\ call'[c].pc \in Starts \cup {"run"} /\ call'[c].ws = call[c].ws
        /\ \A d \in Callers : d # c => call'[d] = call[d]
    BY <2>1 DEF Goes, SamePlace, OnlyCall, Starts
  <2> QED
    BY <1>1, <1>3, <2>2, KeptMoves
<1>4. Starting(c) => call[c].ws \in Workspaces /\ Tree(c).used = {} /\ ~At(c, "idle")
  BY <1>0, StartsAlone DEF TreeOfCall, Starting, Starts, At
<1>5. CASE Prepare(c)
  <2>1. Starting(c) /\ Goto(c, "record")
    BY <1>5 DEF Prepare, At, Starting
  <2>2. \A w \in Workspaces : w # call[c].ws => trees'[w] = trees[w]
    BY <1>0, <1>5 DEF Prepare
  <2> QED
    BY <1>3, <2>1, <2>2
<1>6. CASE PreparationFails(c)
  BY <1>0, <1>6, EffectIsFault DEF PreparationFails
<1>7. CASE RecordWorkspace(c)
  <2>1. Starting(c) /\ Goto(c, "dispatch") /\ UNCHANGED trees
    BY <1>7 DEF RecordWorkspace, At, Starting, disk
  <2> QED
    BY <1>3, <2>1
<1>8. CASE Dispatch(c)
  <2>1. Starting(c)
    BY <1>8 DEF Dispatch, At, Starting
  <2>2. CASE Goto(c, "run") /\ trees' = [trees EXCEPT ![call[c].ws].busy = TRUE,
                                                      ![call[c].ws].used = @ \cup {Attempt(c)}]
    <3>1. \A w \in Workspaces : w # call[c].ws => trees'[w] = trees[w]
      BY <1>0, <2>2
    <3> QED
      BY <1>3, <2>1, <2>2, <3>1
  <2>3. CASE Done(c) /\ UNCHANGED trees
    BY <1>4, <2>1, <2>3, KeptDone
  <2> QED
    BY <1>8, <2>2, <2>3 DEF Dispatch
<1> QED
  BY <1>2, <1>5, <1>6, <1>7, <1>8

\* An agent ends, and its call goes on to verify or to capture what it left.
LEMMA KeptTurning ==
    ASSUME Keeping, NEW c \in Calls, Completes(c) \/ Reports(c) \/ AgentFails(c)
    PROVE  Kept'
<1> DEFINE N == Len(commits)
<1>0. /\ N \in Nat /\ c \in Callers /\ call \in [Callers -> CallRow(N)] /\ trees \in [Workspaces -> TreeRow(N)]
  BY CallTypes, Numbers DEF Keeping
<1>1. AgentEnds(c)
  BY DEF Completes, Reports, AgentFails
<1>2. OnlyCall(c, N) /\ SamePlace(c) /\ call'[c].pc \in {"verify", "capture"}
  <2>1. CASE Completes(c)
    <3>1. PICK out \in 1 .. N : call' = [call EXCEPT ![c].pc = "verify", ![c].mode = "accept", ![c].out = out]
      BY <2>1 DEF Completes
    <3>2. out \in 0 .. N
      BY <1>0
    <3> QED
      BY <1>0, <3>1, <3>2, WasCompleted
  <2>2. CASE Reports(c)
    <3>1. PICK s \in {"FAILED", "SUCCEEDED"} :
             call' = [call EXCEPT ![c].pc = "capture", ![c].mode = "recover", ![c].result = s]
      BY <2>2 DEF Reports
    <3> QED
      BY <1>0, <3>1, WasReported
  <2>3. CASE AgentFails(c)
    BY <1>0, <2>3, WasRescued DEF AgentFails
  <2> QED
    BY <2>1, <2>2, <2>3
<1>3. ~At(c, "idle")' /\ CallKeeps(c)' /\ call[c].ws = call'[c].ws /\ \A d \in Callers : d # c => call'[d] = call[d]
  BY <1>2 DEF OnlyCall, SamePlace, At, CallKeeps, Persists
<1>4. \A w \in Workspaces : w # call'[c].ws => trees'[w] = trees[w]
  BY <1>0, <1>1, <1>3 DEF AgentEnds
<1> QED
  BY <1>3, <1>4, KeptMoves

\* What is verified, and what is captured, is the head of a tree without changes; what is
\* persisted is saved when it is indexed.
LEMMA KeptPersisting ==
    ASSUME Keeping, Faultless', NEW c \in Calls,
           Verify(c) \/ CaptureRecovery(c) \/ CaptureFails(c) \/ Snapshot(c)
    PROVE  Kept'
<1> DEFINE N == Len(commits)
<1>0. /\ N \in Nat /\ c \in Callers /\ c # Operator /\ CallKeeps(c)
      /\ trees \in [Workspaces -> TreeRow(N)] /\ Rows /\ Owned
  BY CallTypes, Numbers DEF Keeping, Kept
<1> HIDE DEF N
<1>1. ASSUME SamePlace(c), \A d \in Callers : d # c => call'[d] = call[d], ~At(c, "idle")', CallKeeps(c)',
             \A w \in Workspaces : w # call[c].ws => trees'[w] = trees[w]
      PROVE  Kept'
  BY <1>1, KeptMoves DEF SamePlace
<1>2. ASSUME UNCHANGED trees, Rescued(c) PROVE Kept'
  <2>1. ~At(c, "idle")' /\ CallKeeps(c)'
    BY <1>2 DEF Rescued, At, CallKeeps, Persists
  <2> QED
    BY <1>1, <1>2, <2>1 DEF Rescued, OnlyCall
<1>3. ASSUME NEW p \in {"index", "commit", "fail", "candidate"}, Goes(c, p), UNCHANGED trees,
             p = "index" => At(c, "pin"),
             p # "index" => ~Tree(c).dirty /\ Saved(Tree(c).head)'
      PROVE  Kept'
  <2>1. call'[c].pc = p /\ SamePlace(c) /\ call'[c].out = call[c].out /\ Tree(c)' = Tree(c)
    BY <1>3 DEF Goes, SamePlace, Tree
  <2>2. CallKeeps(c)'
    <3>1. CASE p = "index"
      BY <1>0, <1>3, <2>1, <3>1 DEF CallKeeps, Persists, At
    <3>2. CASE p # "index"
      <4>1. PICK h : h = Tree(c).head
        OBVIOUS
      <4>2. Tree(c)'.head = h /\ ~Tree(c)'.dirty /\ Saved(h)'
        BY <1>3, <2>1, <3>2, <4>1
      <4> QED
        BY <2>1, <3>2, <4>2 DEF CallKeeps, Persists
    <3> QED
      BY <3>1, <3>2
  <2> QED
    BY <1>1, <1>3, <2>1, <2>2 DEF Goes, OnlyCall, At
<1>4. CASE Verify(c)
  <2>1. UNCHANGED trees
    BY <1>4 DEF Verify, disk
  <2>2. CASE Verified(c) /\ Begins(c, Len(commits), call[c].out)
    <3>1. Tree(c)' = Tree(c) /\ SamePlace(c) /\ call'[c].pc = "pin" /\ call'[c].out = call[c].out
      BY <2>1, <2>2 DEF Begins, SamePlace, Tree
    <3>2. Tree(c).head = call[c].out /\ ~Tree(c).dirty
      BY <2>2 DEF Verified
    <3>3. CallKeeps(c)' /\ ~At(c, "idle")'
      BY <3>1, <3>2 DEF CallKeeps, Persists, At
    <3> QED
      BY <1>1, <2>1, <2>2, <3>1, <3>3 DEF Begins, OnlyCall
  <2> QED
    BY <1>0, <1>2, <1>4, <2>1, <2>2, VerifyGoes
<1>5. CASE CaptureRecovery(c)
  <2>1. /\ OnlyTree(call[c].ws, Len(commits')) /\ trees'[call[c].ws].dirty = FALSE
        /\ Begins(c, Len(commits'), trees'[call[c].ws].head)
    BY <1>0, <1>5, CaptureGoes
  <2>2. SamePlace(c) /\ call'[c].pc = "pin" /\ call'[c].out = trees'[call[c].ws].head
    BY <2>1 DEF Begins
  <2>3. CallKeeps(c)' /\ ~At(c, "idle")'
    BY <2>1, <2>2 DEF CallKeeps, Persists, At, Tree, SamePlace
  <2> QED
    BY <1>1, <2>1, <2>2, <2>3 DEF Begins, OnlyCall, OnlyTree
<1>6. CASE CaptureFails(c) \/ PinFails(c) \/ CreateSnapshotFails(c) \/ UpdateCandidateFails(c)
  BY <1>0, <1>6, EffectIsFault DEF CaptureFails, PinFails, CreateSnapshotFails, UpdateCandidateFails
<1>7. CASE PinSnapshot(c)
  <2>1. At(c, "pin") /\ Goto(c, "index") /\ UNCHANGED trees /\ "index" \in Pcs
    BY <1>7 DEF PinSnapshot, Pcs
  <2> QED
    BY <1>0, <1>3, <2>1, GoesTo
<1>8. CASE CreateSnapshot(c)
  <2>1. UNCHANGED trees /\ At(c, "index")
    BY <1>8 DEF CreateSnapshot, disk
  <2>2. ~Tree(c).dirty /\ Tree(c).head = call[c].out
    BY <1>0, <2>1 DEF CallKeeps, Persists, At
  <2>3. PICK h : h = Tree(c).head
    OBVIOUS
  <2>4. Saved(h)'
    BY <1>0, <1>8, <2>2, <2>3, RowAppended DEF Saved
  <2>5. Goes(c, "candidate") \/ Goes(c, "commit") \/ Goes(c, "fail")
    BY <1>0, <1>8, IndexedGoes
  <2>6. Saved(Tree(c).head)'
    <3>1. Tree(c)' = Tree(c)
      BY <2>1, <2>5 DEF Goes, SamePlace, Tree
    <3> QED
      BY <2>3, <2>4, <3>1
  <2> QED
    BY <1>3, <2>1, <2>2, <2>5, <2>6
<1>9. CASE UpdateCandidate(c)
  <2>1. UNCHANGED <<trees, rows>> /\ At(c, "candidate")
    BY <1>9 DEF UpdateCandidate, disk
  <2>2. Goes(c, "commit") \/ Goes(c, "fail")
    BY <1>0, <1>9, CandidateGoes
  <2>3. ~Tree(c).dirty /\ Saved(Tree(c).head)
    BY <1>0, <2>1 DEF CallKeeps, At
  <2>4. Saved(Tree(c).head)'
    <3>1. Tree(c)' = Tree(c)
      BY <2>1, <2>2 DEF Goes, SamePlace, Tree
    <3> QED
      BY <2>1, <2>3, <3>1 DEF Saved
  <2> QED
    BY <1>3, <2>2, <2>1, <2>3, <2>4
<1> QED
  BY <1>4, <1>5, <1>6, <1>7, <1>8, <1>9 DEF Snapshot

\* At its end an attempt leaves what is saved; when it loses its lease, or its process, it is
\* in the history.
LEMMA KeptEnding ==
    ASSUME Keeping, Faultless', NEW c \in Calls,
           CommitResult(c) \/ CommitResultFails(c) \/ CommitFailure(c) \/ LoseLease(c) \/ Crash(c)
    PROVE  Kept'
<1>0. /\ c \in Callers /\ c # Operator /\ CallKeeps(c) /\ Rows /\ Owned
      /\ Len(commits) \in Nat /\ call \in [Callers -> CallRow(Len(commits))]
  BY CallTypes, Numbers DEF Keeping, Kept
<1>1. UNCHANGED trees
  BY DEF CommitResult, CommitResultFails, CommitFailure, Decide, LoseLease, Crash, disk
<1>2. CASE CommitResult(c) \/ CommitFailure(c)
  <2>1. Done(c) /\ call[c].pc \in {"commit", "fail"}
    BY <1>2 DEF CommitResult, CommitFailure, Decide, At
  <2>2. ~At(c, "idle") /\ ~Starting(c) /\ call[c].pc # "run"
    BY <2>1 DEF At, Starting
  <2>3. ~Tree(c).busy /\ ~Tree(c).dirty /\ Saved(Tree(c).head)
    BY <1>0, <2>1, <2>2, UsedTree DEF CallKeeps, Tree
  <2> QED
    BY <1>1, <2>1, <2>2, <2>3, KeptDone
<1>3. CASE LoseLease(c)
  <2>1. call' = [call EXCEPT ![c].held = FALSE] /\ call[c].pc # "idle"
    BY <1>0, <1>3, HeldTask DEF LoseLease
  <2>2. OnlyCall(c, Len(commits)) /\ SamePlace(c) /\ call'[c].pc = call[c].pc /\ call'[c].out = call[c].out
    BY <1>0, <2>1, LeaseWasLost
  <2>3. UNCHANGED rows /\ Tree(c)' = Tree(c)
    BY <1>1, <1>3, <2>2 DEF LoseLease, SamePlace, Tree
  <2>4. CallKeeps(c)' /\ ~At(c, "idle")'
    BY <1>0, <2>1, <2>2, <2>3 DEF CallKeeps, Saved, At
  <2> QED
    BY <1>1, <2>2, <2>4, KeptMoves DEF OnlyCall, SamePlace
<1>4. CASE Crash(c)
  <2>1. ~At(c, "idle") /\ Done(c) /\ Attempt(c) \in gone'
    BY <1>0, <1>4 DEF Crash
  <2>2. Tree(c).used \subseteq gone'
    <3>1. CASE Starting(c)
      <4>1. Tree(c).used = {}
        BY <1>0, <3>1, StartsAlone DEF TreeOfCall, Starting, Starts
      <4> QED
        BY <4>1
    <3>2. CASE ~Starting(c)
      <4>1. Tree(c).used = {Attempt(c)}
        BY <1>0, <2>1, <3>2, UsedTree DEF Tree
      <4> QED
        BY <2>1, <4>1
    <3> QED
      BY <3>1, <3>2
  <2> QED
    BY <1>1, <2>1, <2>2, KeptDone
<1>5. CASE CommitResultFails(c)
  BY <1>0, <1>5, EffectIsFault DEF CommitResultFails
<1> QED
  BY <1>2, <1>3, <1>4, <1>5

\* Nobody else touches a tree without its agent.
LEMMA KeptOthers ==
    ASSUME Keeping,
           \/ CreateTask \/ Reap \/ RetryReady \/ ReworkTask \/ Advance
           \/ Snapshot(Operator) \/ Crash(Operator)
           \/ \E w \in Workspaces : AgentEdits(w) \/ AgentCommits(w) \/ AgentChecksOut(w) \/ AgentMerges(w)
           \/ Restore \/ AddRestoreTree \/ AddRestoreTreeFails \/ RestoreIsOrphaned
           \/ CleanupRestore \/ CleanupRestoreFails \/ Revert
           \/ UNCHANGED vars
    PROVE  Kept'
<1>0. /\ \A c \in Calls : c \in Callers /\ c # Operator
      /\ trees \in [Workspaces -> TreeRow(Len(commits))]
      /\ call \in [Callers -> CallRow(Len(commits))]
      /\ Operator \in Callers /\ Rows
  BY Numbers DEF Keeping, Rows, Upto
<1>1. CASE UNCHANGED <<trees, call>>
  BY <1>1, KeptAlone
<1>2. CASE UNCHANGED trees /\ \A c \in Callers : c # Operator => call'[c] = call[c]
  BY <1>0, <1>2, KeptAlone
<1>3. ASSUME NEW w \in Workspaces, AgentEdits(w) \/ AgentCommits(w) \/ AgentChecksOut(w) \/ AgentMerges(w)
      PROVE  Kept'
  <2>1. UNCHANGED call /\ trees[w].busy
    BY <1>3 DEF AgentEdits, AgentCommits, AgentChecksOut, AgentMerges, Working
  <2>2. /\ \A v \in Workspaces : v # w => trees'[v] = trees[v]
        /\ trees'[w].used = trees[w].used
    <3>1. trees[w] \in TreeRow(Len(commits))
      BY <1>0
    <3>2. CASE AgentEdits(w)
      BY <1>0, <3>1, <3>2 DEF AgentEdits, TreeRow
    <3>3. CASE AgentCommits(w)
      BY <1>0, <3>1, <3>3 DEF AgentCommits, TreeRow
    <3>4. CASE AgentChecksOut(w)
      <4>1. PICK n : trees' = [trees EXCEPT ![w].head = n]
        BY <3>4 DEF AgentChecksOut
      <4> QED
        BY <1>0, <3>1, <4>1 DEF TreeRow
    <3>5. CASE AgentMerges(w)
      BY <1>0, <3>1, <3>5 DEF AgentMerges, TreeRow
    <3> QED
      BY <1>3, <3>2, <3>3, <3>4, <3>5
  <2> QED
    BY <2>1, <2>2, KeptAlone
<1>4. CASE CreateTask \/ Reap \/ RetryReady \/ ReworkTask \/ Advance \/ UNCHANGED vars
  BY <1>1, <1>4 DEF CreateTask, Reap, RetryReady, ReworkTask, Advance, disk, vars
<1>5. CASE Restore \/ Revert
  <2>1. UNCHANGED trees /\ \A c \in Callers : c # Operator => call'[c] = call[c]
    BY <1>0, <1>5 DEF Restore, Revert
  <2> QED
    BY <1>2, <2>1
<1>6. CASE \/ AddRestoreTreeFails \/ RestoreIsOrphaned \/ CleanupRestore \/ CleanupRestoreFails
           \/ Crash(Operator)
  <2>1. UNCHANGED trees /\ Done(Operator)
    BY <1>6 DEF AddRestoreTreeFails, RestoreIsOrphaned, CleanupRestore, CleanupRestoreFails, Crash, disk
  <2> QED
    BY <1>0, <1>2, <2>1 DEF Done
<1>7. CASE Snapshot(Operator)
  <2>1. UNCHANGED trees
    BY <1>7 DEF Snapshot, PinSnapshot, PinFails, CreateSnapshot, CreateSnapshotFails, UpdateCandidate,
                UpdateCandidateFails, disk
  <2>2. \A c \in Callers : c # Operator => call'[c] = call[c]
    <3>1. CASE PinSnapshot(Operator)
      BY <1>0, <3>1 DEF PinSnapshot, Goto
    <3>2. CASE PinFails(Operator) \/ CreateSnapshotFails(Operator)
      <4>1. Persisting(Operator) /\ Failed(Operator)
        BY <3>2 DEF PinFails, CreateSnapshotFails, Persisting, Persists, At
      <4> QED
        BY <1>0, <4>1, FailedGoes DEF Goes, OnlyCall, Done
    <3>3. CASE CreateSnapshot(Operator)
      BY <1>0, <3>3, IndexedGoes DEF Goes, OnlyCall, Done
    <3>4. CASE UpdateCandidate(Operator) \/ UpdateCandidateFails(Operator)
      BY <1>0, <3>4, CandidateGoes DEF Goes, OnlyCall, Done
    <3> QED
      BY <1>7, <3>1, <3>2, <3>3, <3>4 DEF Snapshot
  <2> QED
    BY <1>2, <2>1, <2>2
<1>8. CASE AddRestoreTree
  BY <1>0, <1>2, <1>8 DEF AddRestoreTree, Goto, disk
<1> QED
  BY <1>3, <1>4, <1>5, <1>6, <1>7, <1>8

\* Every step keeps what failed attempts leave.
LEMMA NextKept == Rows /\ Owned /\ Kept /\ [Next]_vars => Kept'
<1> SUFFICES ASSUME Rows, Owned, Kept, [Next]_vars, Faultless' PROVE Kept'
  BY DEF Kept
<1>1. Keeping
  BY FaultlessBefore DEF Keeping
<1>2. CASE UNCHANGED vars
  BY <1>1, <1>2, KeptOthers
<1>3. ASSUME NEW c \in Callers, Snapshot(c) \/ Crash(c) PROVE Kept'
  BY <1>1, <1>3, KeptPersisting, KeptEnding, KeptOthers DEF Callers
<1>4. CASE Next
  BY <1>1, <1>3, <1>4, KeptStarting, KeptTurning, KeptPersisting, KeptEnding, KeptOthers DEF Next, ExecuteTask
<1> QED
  BY <1>2, <1>4

\* At first nobody has worked anywhere.
LEMMA InitKept == Init => Kept
<1> SUFFICES ASSUME Init PROVE Kept
  OBVIOUS
<1>1. \A w \in Workspaces : trees[w].used = {}
  BY DEF Init, NoTree
<1>2. \A c \in Calls : call[c].pc = "idle"
  BY Numbers DEF Init, Idle
<1> QED
  BY <1>1, <1>2 DEF Kept, TreeIsKept, CallKeeps, Persists

\* What the agent of an attempt that failed left behind is in a snapshot, when no effect
\* failed and the attempt kept its lease and its process (capture, recover, rescue).
THEOREM FailuresAreKept == Spec => []FailedWorkIsKept
<1>1. Init => Rows /\ Owned /\ Kept
  BY InitRows, InitOwned, InitKept
<1>2. Rows /\ Owned /\ Kept /\ [Next]_vars => (Rows /\ Owned /\ Kept)'
  BY NextRows, NextOwned, NextKept
<1>3. Kept => FailedWorkIsKept
  BY DEF Kept, Faultless, TreeIsKept, Saved, FailedWorkIsKept
<1> QED
  BY <1>1, <1>2, <1>3, PTL DEF Spec
=============================================================================
