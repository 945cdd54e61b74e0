------------------------ MODULE AttemptOutput_proofs ------------------------
(***************************************************************************)
(* Theorems about AttemptOutput for any attempts, texts and bounds: type   *)
(* correctness and the two safety invariants of its run, by way of the     *)
(* inductive invariant IInv.                                               *)
(***************************************************************************)
EXTENDS AttemptOutput, TLAPS

CommitRow == [input : Attempts, done : Seq(Changes)]
TreeRow   == [head : CommitRow, dirty : BOOLEAN]
ResultBy(roles) ==
    [text : Texts \cup NoText \cup {"bare"}, fits : BOOLEAN, of : Attempts, role : roles,
     status : {"COMPLETED", "BLOCKED"}, isolation : {"docker", "local"},
     refs : {"inside", "missing", "outside", "container"}, out : CommitRow]
AgentResult == ResultBy({"agent"})
StagingRow  == [tree : TreeRow, raw : AgentResult \cup {None}]

\* What the files, the worktrees and the replies are made of.
Kinds ==
    /\ staging \in StagingRow \cup {None}
    /\ reply \in [Attempts -> AgentResult \cup {None}]
    /\ raw \in [Attempts -> AgentResult \cup {None}]
    /\ canonical \in [Attempts -> TreeRow]
    /\ published \in [Attempts -> ResultBy({"agent", "orchestrator"}) \cup {None}]

Preparing == {"ready", "preparing", "cleaned"}
Turning   == {"prepared", "turn", "replied", "delivered"}
Importing == {"published", "matched", "clean"}

\* Where an attempt's files are in each phase.  Its staging is its own until it gives
\* the lease back; no agent works while the process reads what the turn left behind.
PhaseOf(a) ==
    /\ phase[a] \in {"preparing", "cleaned"} \cup Importing => a \in sandboxed
    /\ phase[a] \in Preparing => a \notin attested
    /\ phase[a] \in Preparing \cup Turning => published[a] = None
    /\ phase[a] \in Preparing \cup (Turning \ {"turn"}) \cup Importing \cup {"finished"} => agent[a] = None
    /\ phase[a] = "replied" => reply[a] \in AgentResult
    /\ phase[a] \in Importing \cup {"finished"} =>
          published[a] \in ResultBy({"agent"}) /\ raw[a] \in AgentResult /\ raw[a].text \in Accepted
    /\ a \in sandboxed /\ phase[a] \in Turning \cup Importing \cup {"finished"} => staging \in StagingRow
    /\ a \in sandboxed /\ phase[a] \in Preparing \cup Turning \cup Importing =>
          canonical[a] = Checkout(InputCommit(a))

\* What is published of an attempt; the host's own result ends the attempt at once.
Own(a) ==
    published[a] # None =>
        /\ published[a].of = a
        /\ published[a].refs = "inside"
        /\ published[a].isolation = "docker" <=> a \in attested
        /\ published[a].role = "orchestrator" =>
              published[a].status = "BLOCKED" /\ agent[a] = None /\ phase[a] = "closed"

\* What is checked out in the worktree of a sandboxed attempt.
Verified(a) ==
    a \in sandboxed /\ canonical[a] # Checkout(InputCommit(a)) =>
        /\ canonical[a] = Checkout(published[a].out)
        /\ Descends(published[a].out, a)
        /\ Range(published[a].out.done) \subseteq {"test"}

AttemptAt(a) == PhaseOf(a) /\ Own(a) /\ Verified(a)

IInv == TypeOK /\ Kinds /\ \A a \in Attempts : AttemptAt(a)

-----------------------------------------------------------------------------
(* Parts of a step. *)

Living(p) == p \notin {"ready", "closed", "dead"}

\* The process of a sandboxed attempt that is under way holds the lease.
LEMMA HolderIsAlive ==
    ASSUME IInv, NEW a \in sandboxed, Living(phase[a])
    PROVE  lease = a /\ lease # None /\ a \in Attempts
  BY AttemptOutputAssumption DEF IInv, TypeOK, Alive, Living

\* A commit on top of another is a commit of the same attempt.
LEMMA CommitOnTop ==
    ASSUME NEW c \in CommitRow, NEW change \in Changes
    PROVE  /\ Commit(c.input, Append(c.done, change)) \in CommitRow
           /\ Commit(c.input, Append(c.done, change)).input = c.input
  BY DEF Commit, CommitRow

\* The input commit of an attempt, and its checkout.
LEMMA InputRow ==
    ASSUME NEW a \in Attempts
    PROVE  /\ InputCommit(a) \in CommitRow /\ InputCommit(a).input = a
           /\ Checkout(InputCommit(a)) \in TreeRow
           /\ Checkout(InputCommit(a)).head = InputCommit(a)
<1>1. <<>> \in Seq(Changes)
  OBVIOUS
<1> QED
  BY <1>1 DEF InputCommit, Commit, Checkout, CommitRow, TreeRow

\* What an agent says of its attempt, and what the host says for it, are results.
LEMMA ResultRow ==
    ASSUME NEW a \in Attempts, NEW c \in CommitRow
    PROVE  /\ Result(a, c) \in AgentResult
           /\ Result(a, c).of = a
           /\ BlockedResult(a) \in ResultBy({"orchestrator"})
           /\ BlockedResult(a).of = a /\ BlockedResult(a).refs = "inside"
           /\ BlockedResult(a).isolation = "local" /\ BlockedResult(a).status = "BLOCKED"
           /\ BlockedResult(a).role = "orchestrator"
<1>1. \A d \in CommitRow : Result(a, d) \in AgentResult /\ Result(a, d).of = a
  BY DEF Result, AgentResult, ResultBy
<1>2. InputCommit(a) \in CommitRow
  BY InputRow
<1>3. BlockedResult(a) \in ResultBy({"orchestrator"})
  BY <1>2 DEF BlockedResult, ResultBy
<1>4. /\ BlockedResult(a).of = a /\ BlockedResult(a).refs = "inside"
      /\ BlockedResult(a).isolation = "local" /\ BlockedResult(a).status = "BLOCKED"
      /\ BlockedResult(a).role = "orchestrator"
  BY DEF BlockedResult
<1> QED
  BY <1>1, <1>3, <1>4

\* Every reply of an agent is a result that its role signs.
LEMMA ReplyRow ==
    ASSUME NEW a \in Attempts, NEW c \in CommitRow, NEW r \in Results(a, c)
    PROVE  r \in AgentResult
<1> DEFINE right == Result(a, c)
<1>1. right \in AgentResult
  BY ResultRow
<1>2. InputCommit(a) \in CommitRow
  BY InputRow
<1>3. \/ r = right
      \/ \E t \in Texts \union NoText : r = [right EXCEPT !.text = t]
      \/ \E b \in Attempts : r = [right EXCEPT !.of = b]
      \/ \E f \in {"inside", "missing", "outside"} : r = [right EXCEPT !.refs = f]
      \/ \E i \in {"docker", "local"} : r = [right EXCEPT !.isolation = i]
      \/ r \in {[right EXCEPT !.fits = FALSE], [right EXCEPT !.out = InputCommit(a)]}
  BY DEF Results
<1> HIDE DEF right
<1>4. \A f \in {"inside", "missing", "outside"} : [right EXCEPT !.refs = f] \in AgentResult
  BY <1>1 DEF AgentResult, ResultBy
<1>5. \A i \in {"docker", "local"} : [right EXCEPT !.isolation = i] \in AgentResult
  BY <1>1 DEF AgentResult, ResultBy
<1>6. /\ [right EXCEPT !.fits = FALSE] \in AgentResult
      /\ [right EXCEPT !.out = InputCommit(a)] \in AgentResult
  BY <1>1, <1>2 DEF AgentResult, ResultBy
<1>7. /\ \A t \in Texts \union NoText : [right EXCEPT !.text = t] \in AgentResult
      /\ \A b \in Attempts : [right EXCEPT !.of = b] \in AgentResult
  BY <1>1 DEF AgentResult, ResultBy
<1> QED
  BY <1>1, <1>3, <1>4, <1>5, <1>6, <1>7

\* A step of one attempt's process: the types follow from what happens to the lease.
LEMMA TypesKept ==
    ASSUME IInv, NEW a \in Attempts, NEW p \in Phases, To(a, p), UNCHANGED sandboxed,
           attested' \in SUBSET sandboxed,
           agent' \in [Attempts -> {None, "working", "orphan"}],
           regeneration' \in [Attempts -> 0 .. MAX_JSON_REGENERATIONS],
           \A b \in Attempts : canonical'[b].head.input = b,
           \/ lease' = lease /\ (a \in sandboxed => (Living(phase[a]) <=> Living(p)))
           \/ a \in sandboxed /\ lease = None /\ lease' = a /\ Living(p)
           \/ lease' = (IF lease = a THEN None ELSE lease) /\ ~Living(p)
    PROVE  /\ TypeOK'
           /\ phase'[a] = p /\ \A b \in Attempts \ {a} : phase'[b] = phase[b]
<1>1. phase \in [Attempts -> Phases] /\ phase' = [phase EXCEPT ![a] = p]
  BY DEF IInv, TypeOK, To
<1>2. phase' \in [Attempts -> Phases] /\ phase'[a] = p /\ \A b \in Attempts \ {a} : phase'[b] = phase[b]
  BY <1>1
<1>3. \A b \in sandboxed : Living(phase[b]) <=> lease = b
  BY DEF IInv, TypeOK, Alive, Living
<1>4. sandboxed \subseteq Attempts /\ None \notin Attempts /\ lease \in sandboxed \cup {None}
  BY AttemptOutputAssumption DEF IInv, TypeOK
<1>5. lease' \in sandboxed' \cup {None}
  BY <1>4
<1>6. \A b \in sandboxed' : Living(phase'[b]) <=> lease' = b
  BY <1>2, <1>3, <1>4 DEF Living
<1>7. \A b \in sandboxed' : Alive(b)' <=> lease' = b
  BY <1>6 DEF Alive, Living
<1> QED
  BY <1>2, <1>4, <1>5, <1>7 DEF TypeOK

\* What one attempt's process or agent does leaves the other attempts as they are; only
\* the holder of the lease can take the staging away.
LEMMA OthersKept ==
    ASSUME IInv, NEW a \in Attempts, UNCHANGED sandboxed,
           \A b \in Attempts \ {a} :
              /\ phase'[b] = phase[b] /\ agent'[b] = agent[b] /\ reply'[b] = reply[b]
              /\ raw'[b] = raw[b] /\ canonical'[b] = canonical[b] /\ published'[b] = published[b]
              /\ b \in attested' <=> b \in attested,
           staging' \in StagingRow \/ staging' = staging \/ lease = a
    PROVE  \A b \in Attempts \ {a} : AttemptAt(b)'
<1> SUFFICES ASSUME NEW b \in Attempts \ {a}
             PROVE  AttemptAt(b)'
  OBVIOUS
<1>1. AttemptAt(b)
  BY DEF IInv
<1>2. b \in sandboxed /\ phase[b] \in Turning \cup Importing \cup {"finished"} =>
          staging' \in StagingRow
  <2>1. b \in sandboxed /\ phase[b] \in Turning \cup Importing \cup {"finished"} => lease = b
    BY HolderIsAlive DEF Living, Turning, Importing
  <2> QED
    BY <1>1, <2>1 DEF AttemptAt, PhaseOf
<1>3. PhaseOf(b)'
  BY <1>1, <1>2 DEF AttemptAt, PhaseOf, Checkout, InputCommit, Commit
<1>4. Own(b)'
  BY <1>1 DEF AttemptAt, Own
<1>5. Verified(b)'
  BY <1>1 DEF AttemptAt, Verified, Checkout, InputCommit, Commit, Descends
<1> QED
  BY <1>3, <1>4, <1>5 DEF AttemptAt

\* The codes of the checks: what is published passed each of them.
LEMMA ChecksPassed ==
    ASSUME NEW a \in Attempts, NEW r \in AgentResult \cup {None}, ingestTaskOutput(a, r, TRUE) = ""
    PROVE  LET value == mappedReferences(a, r)
           IN /\ r # None /\ r.text \in Accepted
              /\ value \in AgentResult
              /\ value.of = a /\ value.refs = "inside"
              /\ a \notin sandboxed => value.isolation = "local"
              /\ a \in sandboxed => value.isolation = "docker" /\ a \in attested
<1> DEFINE value == mappedReferences(a, r)
<1>1. r # None /\ r.text \in Accepted
  BY DEF ingestTaskOutput
<1>2. attachHostSandboxAttestation(a, value, TRUE) /\ assertIdentity(a, value) = ""
  BY <1>1 DEF ingestTaskOutput
<1>3. value \in AgentResult
  BY <1>1 DEF mappedReferences, AgentResult, ResultBy
<1> HIDE DEF value
<1>4. value.of = a /\ value.refs = "inside"
  <2>1. value.refs \in {"inside", "missing", "outside", "container"}
    BY <1>3 DEF AgentResult, ResultBy
  <2> QED
    BY <1>2, <2>1 DEF assertIdentity
<1>5. /\ a \notin sandboxed => value.isolation = "local"
      /\ a \in sandboxed => value.isolation = "docker" /\ a \in attested
  BY <1>2 DEF attachHostSandboxAttestation
<1> QED
  BY <1>1, <1>3, <1>4, <1>5 DEF value

\* A step that publishes nothing and checks out nothing keeps the invariant, when the
\* attempt's files are where they should be in its new phase.
LEMMA MoveKeeps ==
    ASSUME IInv, NEW a \in Attempts, NEW p \in Phases, To(a, p), phase[a] # "closed",
           UNCHANGED <<sandboxed, attested, canonical, published>>,
           agent' \in [Attempts -> {None, "working", "orphan"}],
           regeneration' \in [Attempts -> 0 .. MAX_JSON_REGENERATIONS],
           Kinds',
           \A b \in Attempts \ {a} : agent'[b] = agent[b] /\ reply'[b] = reply[b] /\ raw'[b] = raw[b],
           staging' \in StagingRow \/ staging' = staging \/ lease = a,
           \/ lease' = lease /\ (a \in sandboxed => (Living(phase[a]) <=> Living(p)))
           \/ a \in sandboxed /\ lease = None /\ lease' = a /\ Living(p)
           \/ lease' = (IF lease = a THEN None ELSE lease) /\ ~Living(p),
           phase'[a] = p => PhaseOf(a)'
    PROVE  IInv'
<1>1. TypeOK' /\ phase'[a] = p /\ \A b \in Attempts \ {a} : phase'[b] = phase[b]
  <2>1. attested' \in SUBSET sandboxed /\ \A b \in Attempts : canonical'[b].head.input = b
    BY DEF IInv, TypeOK
  <2> QED
    BY <2>1, TypesKept
<1>2. \A b \in Attempts \ {a} : AttemptAt(b)'
  BY <1>1, OthersKept
<1>3. AttemptAt(a)
  BY DEF IInv
<1>4. Own(a)'
  BY <1>3 DEF AttemptAt, Own
<1>5. Verified(a)'
  BY <1>3 DEF AttemptAt, Verified, Checkout, InputCommit, Commit, Descends
<1> QED
  BY <1>1, <1>2, <1>4, <1>5 DEF IInv, AttemptAt

\* An attempt that fails, ends or loses its process has nothing left to keep in order.
LEMMA EndKeeps ==
    ASSUME IInv, NEW a \in Attempts, NEW p \in {"failing", "closed", "dead"}, To(a, p),
           phase[a] # "closed",
           UNCHANGED <<sandboxed, attested, canonical, published>>,
           agent' \in [Attempts -> {None, "working", "orphan"}],
           regeneration' \in [Attempts -> 0 .. MAX_JSON_REGENERATIONS],
           Kinds',
           \A b \in Attempts \ {a} : agent'[b] = agent[b] /\ reply'[b] = reply[b] /\ raw'[b] = raw[b],
           staging' \in StagingRow \/ staging' = staging \/ lease = a,
           \/ lease' = lease /\ (a \in sandboxed => (Living(phase[a]) <=> Living(p)))
           \/ lease' = (IF lease = a THEN None ELSE lease) /\ ~Living(p)
    PROVE  IInv'
<1>1. p \in Phases
  BY DEF Phases
<1>2. phase'[a] = p => PhaseOf(a)'
  BY DEF PhaseOf, Preparing, Turning, Importing
<1> QED
  BY <1>1, <1>2, MoveKeeps

-----------------------------------------------------------------------------
(* The preparation. *)

\* The initial state.
LEMMA InitKeeps == Init => IInv
<1> SUFFICES ASSUME Init PROVE IInv
  OBVIOUS
<1>1. \A a \in Attempts : InputCommit(a) \in CommitRow /\ InputCommit(a).input = a
                          /\ Checkout(InputCommit(a)) \in TreeRow
                          /\ Checkout(InputCommit(a)).head = InputCommit(a)
  BY InputRow
<1>2. TypeOK
  <2>1. sandboxed \subseteq Attempts /\ phase \in [Attempts -> {"ready", "closed"}]
    BY DEF Init
  <2>2. lease = None /\ attested = {} /\ \A a \in Attempts : ~Alive(a)
    BY <2>1 DEF Init, Alive
  <2>3. /\ agent \in [Attempts -> {None, "working", "orphan"}]
        /\ regeneration \in [Attempts -> 0 .. MAX_JSON_REGENERATIONS]
        /\ \A a \in Attempts : canonical[a].head.input = a
    BY <1>1 DEF Init, MAX_JSON_REGENERATIONS
  <2> QED
    BY <2>1, <2>2, <2>3, AttemptOutputAssumption DEF TypeOK, Phases
<1>3. Kinds
  BY <1>1 DEF Init, Kinds
<1>4. \A a \in Attempts : AttemptAt(a)
  <2>1. \A a \in Attempts : phase[a] \in {"ready", "closed"}
    BY DEF Init
  <2> QED
    BY <2>1 DEF Init, AttemptAt, PhaseOf, Own, Verified, Preparing, Turning, Importing
<1> QED
  BY <1>2, <1>3, <1>4 DEF IInv

\* A preparation begins: without the sandbox at once, or with the lease of the endpoint;
\* the directory is cleaned, and the agent dispatched.
LEMMA PrepareKeeps ==
    ASSUME IInv, NEW a \in Attempts,
           StartUnsandboxed(a) \/ acquireTestSandboxLease(a) \/ cleanRoot(a)
    PROVE  IInv'
<1>1. /\ AttemptAt(a) /\ TypeOK /\ Kinds
      /\ UNCHANGED <<sandboxed, attested, agent, reply, regeneration, raw, canonical, published>>
  BY DEF IInv, StartUnsandboxed, acquireTestSandboxLease, cleanRoot
<1>2. CASE StartUnsandboxed(a)
  <2>1. phase[a] = "ready" /\ a \notin sandboxed /\ To(a, "prepared") /\ UNCHANGED <<lease, staging>>
    BY <1>2 DEF StartUnsandboxed
  <2>2. phase'[a] = "prepared" => PhaseOf(a)'
    BY <1>1, <2>1 DEF AttemptAt, PhaseOf, Preparing, Turning, Importing
  <2>3. Kinds'
    BY <1>1, <2>1 DEF Kinds
  <2> QED
    BY <1>1, <2>1, <2>2, <2>3, MoveKeeps DEF TypeOK, Phases
<1>3. CASE acquireTestSandboxLease(a)
  <2>1. /\ phase[a] = "ready" /\ a \in sandboxed /\ lease = None /\ lease' = a
        /\ To(a, "preparing") /\ UNCHANGED staging
    BY <1>3 DEF acquireTestSandboxLease
  <2>2. phase'[a] = "preparing" => PhaseOf(a)'
    BY <1>1, <2>1 DEF AttemptAt, PhaseOf, Preparing, Turning, Importing, Checkout, InputCommit, Commit
  <2>3. Kinds'
    BY <1>1, <2>1 DEF Kinds
  <2> QED
    BY <1>1, <2>1, <2>2, <2>3, MoveKeeps DEF TypeOK, Phases, Living
<1>4. CASE cleanRoot(a)
  <2>1. phase[a] = "preparing" /\ staging' = None /\ To(a, "cleaned") /\ UNCHANGED lease
    BY <1>4 DEF cleanRoot
  <2>2. phase'[a] = "cleaned" => PhaseOf(a)'
    BY <1>1, <2>1 DEF AttemptAt, PhaseOf, Preparing, Turning, Importing, Checkout, InputCommit, Commit
  <2>3. Kinds'
    BY <1>1, <2>1 DEF Kinds
  <2>4. a \in sandboxed /\ lease = a
    BY <1>1, <2>1, HolderIsAlive DEF Living, AttemptAt, PhaseOf
  <2> QED
    BY <1>1, <2>1, <2>2, <2>3, <2>4, MoveKeeps DEF TypeOK, Phases, Living
<1> QED
  BY <1>2, <1>3, <1>4

\* The host publishes its own result when the staging cannot be prepared.
LEMMA BlockedKeeps ==
    ASSUME IInv, NEW a \in Attempts, LeaseIsBusy(a) \/ StageFails(a)
    PROVE  IInv'
<1> DEFINE blocked == BlockedResult(a)
<1>1. /\ phase[a] \in Preparing /\ a \in sandboxed
      /\ To(a, "closed") /\ published' = [published EXCEPT ![a] = blocked]
      /\ UNCHANGED <<sandboxed, attested, agent, reply, regeneration, raw, canonical>>
      /\ staging' \in {staging, None} /\ (staging' # staging => lease = a)
      /\ lease' = (IF lease = a THEN None ELSE lease)
  <2>1. CASE LeaseIsBusy(a)
    <3>1. lease # a
      BY <2>1 DEF LeaseIsBusy, IInv, TypeOK, Alive
    <3> QED
      BY <2>1, <3>1 DEF LeaseIsBusy, PublishBlocked, Preparing
  <2>2. CASE StageFails(a)
    <3>1. phase[a] \in {"preparing", "cleaned"} /\ a \in sandboxed
      BY <2>2 DEF StageFails, IInv, AttemptAt, PhaseOf
    <3>2. lease = a
      BY <3>1, HolderIsAlive DEF Living
    <3> QED
      BY <2>2, <3>1, <3>2 DEF StageFails, PublishBlocked, Preparing
  <2> QED
    BY <2>1, <2>2
<1>2. /\ blocked \in ResultBy({"orchestrator"}) /\ blocked.of = a /\ blocked.refs = "inside"
      /\ blocked.isolation = "local" /\ blocked.status = "BLOCKED" /\ blocked.role = "orchestrator"
  <2>1. \E c : c \in CommitRow
    BY InputRow
  <2> QED
    BY <2>1, ResultRow
<1> HIDE DEF blocked
<1>3. /\ AttemptAt(a) /\ Kinds
      /\ agent \in [Attempts -> {None, "working", "orphan"}]
      /\ regeneration \in [Attempts -> 0 .. MAX_JSON_REGENERATIONS]
      /\ attested \in SUBSET sandboxed /\ \A b \in Attempts : canonical[b].head.input = b
      /\ "closed" \in Phases
  BY DEF IInv, TypeOK, Phases
<1>4. TypeOK' /\ phase'[a] = "closed" /\ \A b \in Attempts \ {a} : phase'[b] = phase[b]
  BY <1>1, <1>3, TypesKept DEF Living
<1>5. /\ published' \in [Attempts -> ResultBy({"agent", "orchestrator"}) \cup {None}]
      /\ published'[a] = blocked /\ \A b \in Attempts \ {a} : published'[b] = published[b]
  <2>1. blocked \in ResultBy({"agent", "orchestrator"})
    BY <1>2 DEF ResultBy
  <2> QED
    BY <1>1, <1>3, <2>1 DEF Kinds
<1>6. Kinds'
  BY <1>1, <1>3, <1>5 DEF Kinds
<1>7. \A b \in Attempts \ {a} : AttemptAt(b)'
  BY <1>1, <1>4, <1>5, OthersKept
<1>8. PhaseOf(a)'
  BY <1>4 DEF PhaseOf, Preparing, Turning, Importing
<1>9. Own(a)'
  BY <1>1, <1>2, <1>3, <1>4, <1>5 DEF AttemptAt, PhaseOf, Own, Preparing
<1>10. Verified(a)'
  BY <1>1, <1>3 DEF AttemptAt, PhaseOf, Verified, Checkout, InputCommit, Commit
<1> QED
  BY <1>4, <1>6, <1>7, <1>8, <1>9, <1>10 DEF IInv, AttemptAt

\* The attempt's worktree is cloned to the staging.
LEMMA StageKeeps ==
    ASSUME IInv, NEW a \in Attempts, Stage(a)
    PROVE  IInv'
<1>1. /\ phase[a] = "cleaned" /\ To(a, "prepared")
      /\ staging' = [tree |-> Checkout(canonical[a].head), raw |-> None]
      /\ attested' = attested \union {a}
      /\ UNCHANGED <<sandboxed, lease, agent, reply, regeneration, raw, canonical, published>>
      /\ canonical[a].head = InputCommit(a)
  BY DEF Stage
<1>2. /\ AttemptAt(a) /\ Kinds /\ a \in sandboxed
      /\ agent \in [Attempts -> {None, "working", "orphan"}]
      /\ regeneration \in [Attempts -> 0 .. MAX_JSON_REGENERATIONS]
      /\ attested \in SUBSET sandboxed /\ \A b \in Attempts : canonical[b].head.input = b
      /\ "prepared" \in Phases
  BY <1>1 DEF IInv, TypeOK, Phases, AttemptAt, PhaseOf
<1>3. TypeOK' /\ phase'[a] = "prepared" /\ \A b \in Attempts \ {a} : phase'[b] = phase[b]
  BY <1>1, <1>2, TypesKept DEF Living
<1>4. staging' \in StagingRow
  <2>1. Checkout(canonical[a].head) \in TreeRow
    BY <1>1, InputRow
  <2> QED
    BY <1>1, <2>1 DEF StagingRow
<1>5. Kinds'
  BY <1>1, <1>2, <1>4 DEF Kinds
<1>6. lease = a /\ lease # None
  BY <1>1, <1>2, HolderIsAlive DEF Living
<1>7. \A b \in Attempts \ {a} : AttemptAt(b)'
  BY <1>1, <1>3, <1>6, OthersKept
<1>8. PhaseOf(a)'
  BY <1>1, <1>2, <1>3, <1>4
     DEF AttemptAt, PhaseOf, Preparing, Turning, Importing, Checkout, InputCommit, Commit
<1>9. Own(a)'
  BY <1>1, <1>2 DEF AttemptAt, PhaseOf, Own, Preparing
<1>10. Verified(a)'
  BY <1>1, <1>2 DEF AttemptAt, PhaseOf, Verified, Preparing, Checkout, InputCommit, Commit
<1> QED
  BY <1>3, <1>5, <1>7, <1>8, <1>9, <1>10 DEF IInv, AttemptAt

-----------------------------------------------------------------------------
(* The agents and their turns. *)

\* The worktree that an agent reaches is one.
LEMMA ReachedTree ==
    ASSUME IInv, NEW a \in Attempts, Reaches(a)
    PROVE  /\ Tree(a) \in TreeRow /\ Tree(a).head \in CommitRow
           /\ a \in sandboxed => staging \in StagingRow
           /\ a \notin sandboxed => Tree(a).head.input = a
           /\ phase[a] \notin Preparing \cup (Turning \ {"turn"}) \cup Importing \cup {"finished"}
<1>1. a \in sandboxed => staging \in StagingRow
  BY DEF Reaches, IInv, Kinds
<1>2. Tree(a) \in TreeRow
  BY <1>1 DEF Tree, IInv, Kinds, StagingRow
<1>3. a \notin sandboxed => Tree(a).head.input = a
  BY DEF Tree, IInv, TypeOK
<1>4. phase[a] \notin Preparing \cup (Turning \ {"turn"}) \cup Importing \cup {"finished"}
  BY DEF Reaches, IInv, AttemptAt, PhaseOf
<1> QED
  BY <1>1, <1>2, <1>3, <1>4 DEF TreeRow

\* An agent changes the staging, whoever it was prepared for, or the worktree and the raw
\* file of an attempt outside the sandbox; nothing of what is published or was checked out.
LEMMA AgentKeeps ==
    ASSUME IInv, NEW a \in Attempts, Agent(a)
    PROVE  IInv'
<1>1. /\ Tree(a) \in TreeRow /\ Tree(a).head \in CommitRow
      /\ a \in sandboxed => staging \in StagingRow
      /\ a \notin sandboxed => Tree(a).head.input = a
      /\ phase[a] \notin Preparing \cup (Turning \ {"turn"}) \cup Importing \cup {"finished"}
  BY ReachedTree DEF Agent, AgentCommits, AgentEdits, AgentWritesRaw
<1>2. UNCHANGED <<sandboxed, phase, lease, attested, agent, reply, regeneration, published>>
  BY DEF Agent, AgentCommits, AgentEdits, AgentWritesRaw
<1>3. Kinds
  BY DEF IInv
<1>4. \/ a \in sandboxed /\ staging' \in StagingRow /\ UNCHANGED <<canonical, raw>>
      \/ /\ a \notin sandboxed /\ UNCHANGED staging
         /\ \/ UNCHANGED raw /\ \E t \in TreeRow : t.head.input = a /\ canonical' = [canonical EXCEPT ![a] = t]
            \/ UNCHANGED canonical /\ \E r \in AgentResult : raw' = [raw EXCEPT ![a] = r]
  <2>1. ASSUME NEW t \in TreeRow, a \notin sandboxed => t.head.input = a, Work(a, t), UNCHANGED raw
        PROVE  \/ a \in sandboxed /\ staging' \in StagingRow /\ UNCHANGED <<canonical, raw>>
               \/ /\ a \notin sandboxed /\ UNCHANGED staging
                  /\ UNCHANGED raw /\ \E u \in TreeRow : u.head.input = a /\ canonical' = [canonical EXCEPT ![a] = u]
    BY <1>1, <2>1 DEF Work, StagingRow
  <2>2. CASE AgentCommits(a)
    <3>1. PICK c \in Changes :
            Work(a, Checkout(Commit(Tree(a).head.input, Append(Tree(a).head.done, c))))
      BY <2>2 DEF AgentCommits
    <3> DEFINE made == Commit(Tree(a).head.input, Append(Tree(a).head.done, c))
    <3>2. made \in CommitRow /\ made.input = Tree(a).head.input
      BY <1>1, CommitOnTop
    <3>3. Work(a, Checkout(made)) /\ UNCHANGED raw
      BY <2>2, <3>1 DEF AgentCommits
    <3> HIDE DEF made
    <3>4. Checkout(made) \in TreeRow /\ Checkout(made).head = made
      BY <3>2 DEF Checkout, TreeRow
    <3> QED
      BY <1>1, <2>1, <3>2, <3>3, <3>4
  <2>3. CASE AgentEdits(a)
    <3> DEFINE edited == [Tree(a) EXCEPT !.dirty = TRUE]
    <3>1. edited \in TreeRow /\ edited.head = Tree(a).head
      BY <1>1 DEF TreeRow
    <3>2. Work(a, edited) /\ UNCHANGED raw
      BY <2>3 DEF AgentEdits
    <3> HIDE DEF edited
    <3> QED
      BY <1>1, <2>1, <3>1, <3>2
  <2>4. CASE AgentWritesRaw(a)
    <3> DEFINE r == Result(a, Tree(a).head)
    <3>1. r \in AgentResult
      BY <1>1, ResultRow
    <3>2. IF a \in sandboxed THEN staging' = [staging EXCEPT !.raw = r] /\ UNCHANGED raw
                             ELSE raw' = [raw EXCEPT ![a] = r] /\ UNCHANGED staging
      BY <2>4 DEF AgentWritesRaw
    <3>3. UNCHANGED canonical
      BY <2>4 DEF AgentWritesRaw
    <3> HIDE DEF r
    <3> QED
      BY <1>1, <3>1, <3>2, <3>3 DEF StagingRow
  <2> QED
    BY <2>2, <2>3, <2>4 DEF Agent
<1>5. /\ \A b \in Attempts \ {a} : raw'[b] = raw[b] /\ canonical'[b] = canonical[b]
      /\ a \in sandboxed => canonical' = canonical
      /\ \A b \in Attempts : canonical'[b].head.input = b
      /\ staging' \in StagingRow \/ staging' = staging
  BY <1>3, <1>4 DEF Kinds, IInv, TypeOK
<1>6. Kinds'
  BY <1>2, <1>3, <1>4 DEF Kinds
<1>7. TypeOK'
  BY <1>2, <1>5 DEF IInv, TypeOK, Alive
<1>8. \A b \in Attempts \ {a} : AttemptAt(b)'
  BY <1>2, <1>5, OthersKept
<1>9. AttemptAt(a)
  BY DEF IInv
<1>10. PhaseOf(a)'
  BY <1>1, <1>2, <1>5, <1>9
     DEF AttemptAt, PhaseOf, Preparing, Turning, Importing, Checkout, InputCommit, Commit
<1>11. Own(a)'
  BY <1>2, <1>9 DEF AttemptAt, Own
<1>12. Verified(a)'
  BY <1>2, <1>5, <1>9 DEF AttemptAt, Verified, Checkout, InputCommit, Commit, Descends
<1> QED
  BY <1>6, <1>7, <1>8, <1>10, <1>11, <1>12 DEF IInv, AttemptAt

\* A turn begins, for the first time or again, and ends with a reply or without one.
LEMMA TurnKeeps ==
    ASSUME IInv, NEW a \in Attempts, Dispatch(a) \/ Regenerate(a) \/ TurnEnds(a)
    PROVE  IInv'
<1>1. /\ AttemptAt(a) /\ Kinds
      /\ agent \in [Attempts -> {None, "working", "orphan"}]
      /\ regeneration \in [Attempts -> 0 .. MAX_JSON_REGENERATIONS]
      /\ {"turn", "replied", "failing"} \subseteq Phases
      /\ UNCHANGED <<sandboxed, lease, staging, attested, raw, canonical, published>>
  BY DEF IInv, TypeOK, Phases, Dispatch, Regenerate, TurnEnds, AgentReplies, AgentFails
<1>2. CASE Dispatch(a) \/ Regenerate(a)
  <2>1. /\ phase[a] \in {"prepared", "delivered"} /\ To(a, "turn") /\ UNCHANGED reply
        /\ agent' = [agent EXCEPT ![a] = "working"]
    BY <1>2 DEF Dispatch, Regenerate
  <2>2. regeneration' \in [Attempts -> 0 .. MAX_JSON_REGENERATIONS]
    <3>1. CASE Dispatch(a)
      BY <1>1, <3>1 DEF Dispatch
    <3>2. CASE Regenerate(a)
      <4>1. /\ regeneration' = [regeneration EXCEPT ![a] = @ + 1]
            /\ regeneration[a] < MAX_JSON_REGENERATIONS
        BY <3>2 DEF Regenerate
      <4>2. regeneration[a] + 1 \in 0 .. MAX_JSON_REGENERATIONS
        BY <1>1, <4>1 DEF MAX_JSON_REGENERATIONS
      <4> QED
        BY <1>1, <4>1, <4>2
    <3> QED
      BY <1>2, <3>1, <3>2
  <2>3. /\ agent' \in [Attempts -> {None, "working", "orphan"}]
        /\ \A b \in Attempts \ {a} : agent'[b] = agent[b]
    BY <1>1, <2>1
  <2>4. Kinds'
    BY <1>1, <2>1 DEF Kinds
  <2>5. phase'[a] = "turn" => PhaseOf(a)'
    BY <1>1, <2>1
       DEF AttemptAt, PhaseOf, Preparing, Turning, Importing, Checkout, InputCommit, Commit
  <2> QED
    BY <1>1, <2>1, <2>2, <2>3, <2>4, <2>5, MoveKeeps DEF Living
<1>3. CASE AgentReplies(a)
  <2>1. /\ phase[a] = "turn" /\ To(a, "replied") /\ UNCHANGED regeneration /\ Reaches(a)
        /\ agent' = [agent EXCEPT ![a] = None]
    BY <1>3 DEF AgentReplies
  <2>2. PICK r \in Results(a, Tree(a).head) : reply' = [reply EXCEPT ![a] = r]
    BY <1>3 DEF AgentReplies
  <2>3. r \in AgentResult
    BY <2>1, ReachedTree, ReplyRow
  <2>4. /\ agent' \in [Attempts -> {None, "working", "orphan"}] /\ agent'[a] = None
        /\ \A b \in Attempts \ {a} : agent'[b] = agent[b] /\ reply'[b] = reply[b]
        /\ reply' \in [Attempts -> AgentResult \cup {None}] /\ reply'[a] = r
    BY <1>1, <2>1, <2>2, <2>3 DEF Kinds
  <2>5. Kinds'
    BY <1>1, <2>4 DEF Kinds
  <2>6. phase'[a] = "replied" => PhaseOf(a)'
    BY <1>1, <2>1, <2>3, <2>4
       DEF AttemptAt, PhaseOf, Preparing, Turning, Importing, Checkout, InputCommit, Commit
  <2>7. regeneration' \in [Attempts -> 0 .. MAX_JSON_REGENERATIONS]
    BY <1>1, <2>1
  <2> QED
    BY <1>1, <2>1, <2>4, <2>5, <2>6, <2>7, MoveKeeps DEF Living
<1>4. CASE AgentFails(a)
  <2>1. /\ phase[a] = "turn" /\ To(a, "failing") /\ UNCHANGED <<reply, regeneration>>
        /\ agent' = [agent EXCEPT ![a] = None]
    BY <1>4 DEF AgentFails, Fail
  <2>2. /\ agent' \in [Attempts -> {None, "working", "orphan"}]
        /\ \A b \in Attempts \ {a} : agent'[b] = agent[b]
        /\ regeneration' \in [Attempts -> 0 .. MAX_JSON_REGENERATIONS]
    BY <1>1, <2>1
  <2>3. Kinds'
    BY <1>1, <2>1 DEF Kinds
  <2> QED
    BY <1>1, <2>1, <2>2, <2>3, EndKeeps DEF Living
<1> QED
  BY <1>2, <1>3, <1>4 DEF TurnEnds

-----------------------------------------------------------------------------
(* The result of a turn. *)

\* The raw result is collected, or the answer of a repair turn accepted, unless it is refused.
LEMMA CollectKeeps ==
    ASSUME IInv, NEW a \in Attempts, Collect(a) \/ AcceptRepair(a)
    PROVE  IInv'
<1>1. /\ AttemptAt(a) /\ Kinds /\ phase[a] = "replied"
      /\ agent \in [Attempts -> {None, "working", "orphan"}]
      /\ regeneration \in [Attempts -> 0 .. MAX_JSON_REGENERATIONS]
      /\ {"delivered", "failing"} \subseteq Phases
      /\ UNCHANGED <<sandboxed, lease, staging, attested, agent, regeneration, canonical, published>>
      /\ reply' = [reply EXCEPT ![a] = None]
  BY DEF IInv, TypeOK, Phases, Collect, AcceptRepair
<1>2. reply[a] \in AgentResult /\ (a \in sandboxed => staging \in StagingRow)
  BY <1>1 DEF AttemptAt, PhaseOf, Turning
<1>3. \/ Fail(a) /\ UNCHANGED raw
      \/ To(a, "delivered") /\ \E r \in AgentResult \cup {None} : raw' = [raw EXCEPT ![a] = r]
  <2>1. CASE Collect(a)
    <3> DEFINE kept == IF a \in sandboxed THEN staging.raw ELSE raw[a]
    <3>1. kept \in AgentResult \cup {None}
      BY <1>1, <1>2 DEF Kinds, StagingRow
    <3>2. \/ Fail(a) /\ UNCHANGED raw
          \/ /\ To(a, "delivered")
             /\ raw' = [raw EXCEPT ![a] = IF reply[a].text \in NoText THEN kept ELSE reply[a]]
      BY <2>1 DEF Collect
    <3> HIDE DEF kept
    <3> QED
      BY <1>2, <3>1, <3>2
  <2>2. CASE AcceptRepair(a)
    BY <1>2, <2>2 DEF AcceptRepair
  <2> QED
    BY <2>1, <2>2
<1>4. CASE Fail(a) /\ UNCHANGED raw
  <2>1. Kinds' /\ \A b \in Attempts \ {a} : reply'[b] = reply[b]
    BY <1>1, <1>4 DEF Kinds
  <2> QED
    BY <1>1, <1>4, <2>1, EndKeeps DEF Fail, Living
<1>5. CASE To(a, "delivered") /\ \E r \in AgentResult \cup {None} : raw' = [raw EXCEPT ![a] = r]
  <2>1. Kinds' /\ \A b \in Attempts \ {a} : reply'[b] = reply[b] /\ raw'[b] = raw[b]
    BY <1>1, <1>5 DEF Kinds
  <2>2. phase'[a] = "delivered" => PhaseOf(a)'
    BY <1>1, <1>2
       DEF AttemptAt, PhaseOf, Preparing, Turning, Importing, Checkout, InputCommit, Commit
  <2> QED
    BY <1>1, <1>5, <2>1, <2>2, MoveKeeps DEF Living
<1> QED
  BY <1>3, <1>4, <1>5

\* The result that passed every check is published.
LEMMA PublishKeeps ==
    ASSUME IInv, NEW a \in Attempts, Publish(a)
    PROVE  IInv'
<1> DEFINE p     == IF a \in sandboxed THEN "published" ELSE "finished"
           value == mappedReferences(a, raw[a])
           own   == [value EXCEPT !.text = "bare"]
<1>1. /\ phase[a] = "delivered" /\ ingestTaskOutput(a, raw[a], TRUE) = ""
      /\ published' = [published EXCEPT ![a] = own]
      /\ To(a, p)
      /\ UNCHANGED <<sandboxed, lease, staging, attested, agent, reply, regeneration, raw, canonical>>
  BY DEF Publish
<1>2. /\ AttemptAt(a) /\ Kinds
      /\ agent \in [Attempts -> {None, "working", "orphan"}]
      /\ regeneration \in [Attempts -> 0 .. MAX_JSON_REGENERATIONS]
      /\ attested \in SUBSET sandboxed /\ \A b \in Attempts : canonical[b].head.input = b
      /\ p \in Phases
  BY DEF IInv, TypeOK, Phases
<1>3. /\ raw[a] \in AgentResult /\ raw[a].text \in Accepted
      /\ value \in AgentResult /\ value.of = a /\ value.refs = "inside"
      /\ a \notin sandboxed => value.isolation = "local"
      /\ a \in sandboxed => value.isolation = "docker" /\ a \in attested
  <2>1. PICK r \in AgentResult \cup {None} : r = raw[a]
    BY <1>2 DEF Kinds
  <2>2. ingestTaskOutput(a, r, TRUE) = "" /\ value = mappedReferences(a, r)
    BY <1>1, <2>1
  <2> HIDE DEF value
  <2>3. /\ r # None /\ r.text \in Accepted
        /\ value \in AgentResult /\ value.of = a /\ value.refs = "inside"
        /\ a \notin sandboxed => value.isolation = "local"
        /\ a \in sandboxed => value.isolation = "docker" /\ a \in attested
    BY <2>2, ChecksPassed
  <2> QED
    BY <2>1, <2>3
<1>4. p \in {"published", "finished"} /\ (p = "published" <=> a \in sandboxed) /\ Living(p)
  BY DEF Living
<1> HIDE DEF p, value
<1>5. /\ own \in AgentResult /\ own.of = a /\ own.refs = "inside" /\ own.role = "agent"
      /\ own.isolation = "docker" <=> a \in attested
  BY <1>2, <1>3 DEF AgentResult, ResultBy
<1> HIDE DEF own
<1>6. TypeOK' /\ phase'[a] = p /\ \A b \in Attempts \ {a} : phase'[b] = phase[b]
  BY <1>1, <1>2, <1>4, TypesKept DEF Living
<1>7. /\ published' \in [Attempts -> ResultBy({"agent", "orchestrator"}) \cup {None}]
      /\ published'[a] = own /\ \A b \in Attempts \ {a} : published'[b] = published[b]
  <2>1. own \in ResultBy({"agent", "orchestrator"})
    BY <1>5 DEF AgentResult, ResultBy
  <2> QED
    BY <1>1, <1>2, <2>1 DEF Kinds
<1>8. Kinds'
  BY <1>1, <1>2, <1>7 DEF Kinds
<1>9. \A b \in Attempts \ {a} : AttemptAt(b)'
  BY <1>1, <1>6, <1>7, OthersKept
<1>10. PhaseOf(a)'
  BY <1>1, <1>2, <1>3, <1>4, <1>5, <1>6, <1>7
     DEF AttemptAt, PhaseOf, Preparing, Turning, Importing, AgentResult, Checkout, InputCommit, Commit
<1>11. Own(a)'
  BY <1>1, <1>5, <1>7 DEF Own
<1>12. Verified(a)'
  BY <1>1, <1>2 DEF AttemptAt, PhaseOf, Verified, Turning, Checkout, InputCommit, Commit
<1> QED
  BY <1>6, <1>8, <1>9, <1>10, <1>11, <1>12 DEF IInv, AttemptAt

-----------------------------------------------------------------------------
(* The import and the end. *)

\* A result that is refused, and the checks of the staged clone.
LEMMA CheckKeeps ==
    ASSUME IInv, NEW a \in Attempts, Refuse(a) \/ MatchHead(a) \/ RequireClean(a)
    PROVE  IInv'
<1>1. /\ AttemptAt(a) /\ Kinds
      /\ agent \in [Attempts -> {None, "working", "orphan"}]
      /\ regeneration \in [Attempts -> 0 .. MAX_JSON_REGENERATIONS]
      /\ {"matched", "clean", "failing"} \subseteq Phases
      /\ UNCHANGED <<sandboxed, lease, staging, attested, agent, reply, regeneration, raw, canonical,
                     published>>
  BY DEF IInv, TypeOK, Phases, Refuse, MatchHead, RequireClean
<1>2. /\ phase[a] \in {"delivered", "published", "matched"}
      /\ \/ To(a, "failing")
         \/ phase[a] \in {"published", "matched"} /\ \E p \in {"matched", "clean"} : To(a, p)
  BY DEF Refuse, MatchHead, RequireClean, Fail
<1>3. Kinds'
  BY <1>1 DEF Kinds
<1>4. CASE To(a, "failing")
  BY <1>1, <1>2, <1>3, <1>4, EndKeeps DEF Living
<1>5. ASSUME NEW p \in {"matched", "clean"}, To(a, p), phase[a] \in {"published", "matched"}
      PROVE  IInv'
  <2>1. phase'[a] = p => PhaseOf(a)'
    BY <1>1, <1>5
       DEF AttemptAt, PhaseOf, Preparing, Turning, Importing, Checkout, InputCommit, Commit
  <2> QED
    BY <1>1, <1>2, <1>3, <1>5, <2>1, MoveKeeps DEF Living
<1> QED
  BY <1>2, <1>4, <1>5

\* The commit that the published result names is checked out, if it may be.
LEMMA ImportKeeps ==
    ASSUME IInv, NEW a \in Attempts, ImportCommit(a)
    PROVE  IInv'
<1>1. /\ AttemptAt(a) /\ Kinds
      /\ agent \in [Attempts -> {None, "working", "orphan"}]
      /\ regeneration \in [Attempts -> 0 .. MAX_JSON_REGENERATIONS]
      /\ attested \in SUBSET sandboxed /\ \A b \in Attempts : canonical[b].head.input = b
      /\ {"finished", "failing"} \subseteq Phases
      /\ phase[a] = "clean"
      /\ UNCHANGED <<sandboxed, lease, staging, attested, agent, reply, regeneration, raw, published>>
  BY DEF IInv, TypeOK, Phases, ImportCommit
<1> DEFINE out == published[a].out
<1>2. a \in sandboxed /\ published[a] \in ResultBy({"agent"}) /\ out \in CommitRow
  BY <1>1 DEF AttemptAt, PhaseOf, Importing, ResultBy
<1>3. CASE ~Importable(a, out)
  <2>1. Fail(a) /\ UNCHANGED canonical
    BY <1>3 DEF ImportCommit
  <2>2. Kinds'
    BY <1>1, <2>1 DEF Kinds
  <2> QED
    BY <1>1, <2>1, <2>2, EndKeeps DEF Fail, Living
<1>4. CASE Importable(a, out)
  <2>1. canonical' = [canonical EXCEPT ![a] = Checkout(out)] /\ To(a, "finished")
    BY <1>4 DEF ImportCommit
  <2>2. Descends(out, a) /\ out.input = a /\ Range(out.done) \subseteq {"test"}
    BY <1>4 DEF Importable, Descends, testChangeAllowed
  <2>3. Checkout(out) \in TreeRow /\ Checkout(out).head = out
    BY <1>2 DEF Checkout, TreeRow
  <2>4. /\ canonical' \in [Attempts -> TreeRow] /\ canonical'[a] = Checkout(out)
        /\ \A b \in Attempts \ {a} : canonical'[b] = canonical[b]
        /\ \A b \in Attempts : canonical'[b].head.input = b
    BY <1>1, <2>1, <2>2, <2>3 DEF Kinds
  <2>5. TypeOK' /\ phase'[a] = "finished" /\ \A b \in Attempts \ {a} : phase'[b] = phase[b]
    BY <1>1, <2>1, <2>4, TypesKept DEF Living
  <2>6. Kinds'
    BY <1>1, <2>4 DEF Kinds
  <2>7. \A b \in Attempts \ {a} : AttemptAt(b)'
    BY <1>1, <2>4, <2>5, OthersKept
  <2>8. PhaseOf(a)'
    BY <1>1, <2>5 DEF AttemptAt, PhaseOf, Preparing, Turning, Importing
  <2>9. Own(a)'
    BY <1>1 DEF AttemptAt, Own
  <2>10. Verified(a)'
    BY <1>1, <2>2, <2>4 DEF Verified, Descends, Checkout
  <2> QED
    BY <2>5, <2>6, <2>7, <2>8, <2>9, <2>10 DEF IInv, AttemptAt
<1> QED
  BY <1>3, <1>4

\* An attempt is cleaned up, loses its execution lease, or its process dies.
LEMMA EndOfAttemptKeeps ==
    ASSUME IInv, NEW a \in Attempts, cleanup(a) \/ LoseExecutionLease(a) \/ Crash(a)
    PROVE  IInv'
<1>1. /\ Kinds
      /\ agent \in [Attempts -> {None, "working", "orphan"}]
      /\ regeneration \in [Attempts -> 0 .. MAX_JSON_REGENERATIONS]
      /\ UNCHANGED <<sandboxed, attested, canonical, published>>
  BY DEF IInv, TypeOK, cleanup, LoseExecutionLease, Crash
<1>2. Living(phase[a]) /\ phase[a] # "closed"
  BY DEF cleanup, LoseExecutionLease, Crash, Alive, Living
<1>3. a \in sandboxed => lease = a
  BY <1>2, HolderIsAlive
<1>4. \/ To(a, "failing") /\ lease' = lease
      \/ \E p \in {"closed", "dead"} : To(a, p) /\ lease' = (IF lease = a THEN None ELSE lease)
  <2>1. CASE cleanup(a)
    <3>1. CASE a \in sandboxed
      BY <1>3, <2>1, <3>1 DEF cleanup
    <3>2. CASE a \notin sandboxed
      <4>1. lease # a
        BY <3>2, AttemptOutputAssumption DEF IInv, TypeOK
      <4> QED
        BY <2>1, <3>2, <4>1 DEF cleanup
    <3> QED
      BY <3>1, <3>2
  <2>2. CASE LoseExecutionLease(a)
    BY <2>2 DEF LoseExecutionLease, Fail
  <2>3. CASE Crash(a)
    BY <2>3 DEF Crash
  <2> QED
    BY <2>1, <2>2, <2>3
<1>5. /\ agent' \in [Attempts -> {None, "working", "orphan"}]
      /\ \A b \in Attempts \ {a} : agent'[b] = agent[b]
  BY <1>1 DEF cleanup, LoseExecutionLease, Crash, Orphaned
<1>6. /\ regeneration' \in [Attempts -> 0 .. MAX_JSON_REGENERATIONS]
      /\ reply' \in [Attempts -> AgentResult \cup {None}]
      /\ raw' \in [Attempts -> AgentResult \cup {None}]
      /\ \A b \in Attempts \ {a} : reply'[b] = reply[b] /\ raw'[b] = raw[b]
  <2>1. \/ Forget(a)
        \/ UNCHANGED <<reply, regeneration, raw>>
    BY DEF cleanup, LoseExecutionLease, Crash
  <2> QED
    BY <1>1, <2>1 DEF Forget, Kinds, MAX_JSON_REGENERATIONS
<1>7. staging' \in {staging, None} /\ (staging' = staging \/ lease = a)
  BY <1>3 DEF cleanup, LoseExecutionLease, Crash
<1>8. Kinds'
  BY <1>1, <1>6, <1>7 DEF Kinds
<1> QED
  BY <1>1, <1>2, <1>4, <1>5, <1>6, <1>7, <1>8, EndKeeps DEF Living

-----------------------------------------------------------------------------
(* The theorems. *)

\* Every step keeps the invariant.
LEMMA NextKeeps == IInv /\ [Next]_vars => IInv'
<1> SUFFICES ASSUME IInv, [Next]_vars
             PROVE  IInv'
  OBVIOUS
<1>1. CASE UNCHANGED vars
  <2>1. UNCHANGED <<sandboxed, phase, lease, staging, attested, agent, reply, regeneration, raw,
                    canonical, fingerprint, published>>
    BY <1>1 DEF vars
  <2>2. TypeOK' /\ Kinds'
    BY <2>1 DEF IInv, TypeOK, Kinds, Alive
  <2>3. ASSUME NEW a \in Attempts
        PROVE  AttemptAt(a)'
    <3>1. AttemptAt(a)
      BY DEF IInv
    <3>2. PhaseOf(a)' /\ Own(a)'
      BY <2>1, <3>1 DEF AttemptAt, PhaseOf, Own, Checkout, InputCommit, Commit
    <3>3. Verified(a)'
      BY <2>1, <3>1 DEF AttemptAt, Verified, Checkout, InputCommit, Commit, Descends
    <3> QED
      BY <3>2, <3>3 DEF AttemptAt
  <2> QED
    BY <2>2, <2>3 DEF IInv
<1>2. CASE Next
  <2>1. PICK a \in Attempts :
          Host(a) \/ Agent(a) \/ TurnEnds(a) \/ LoseExecutionLease(a) \/ Crash(a)
    BY <1>2 DEF Next
  <2>2. CASE StartUnsandboxed(a) \/ acquireTestSandboxLease(a) \/ cleanRoot(a)
    BY <2>2, PrepareKeeps
  <2>3. CASE LeaseIsBusy(a) \/ StageFails(a)
    BY <2>3, BlockedKeeps
  <2>4. CASE Stage(a)
    BY <2>4, StageKeeps
  <2>5. CASE Agent(a)
    BY <2>5, AgentKeeps
  <2>6. CASE Dispatch(a) \/ Regenerate(a) \/ TurnEnds(a)
    BY <2>6, TurnKeeps
  <2>7. CASE Collect(a) \/ AcceptRepair(a)
    BY <2>7, CollectKeeps
  <2>8. CASE Publish(a)
    BY <2>8, PublishKeeps
  <2>9. CASE Refuse(a) \/ MatchHead(a) \/ RequireClean(a)
    BY <2>9, CheckKeeps
  <2>10. CASE ImportCommit(a)
    BY <2>10, ImportKeeps
  <2>11. CASE cleanup(a) \/ LoseExecutionLease(a) \/ Crash(a)
    BY <2>11, EndOfAttemptKeeps
  <2> QED
    BY <2>1, <2>2, <2>3, <2>4, <2>5, <2>6, <2>7, <2>8, <2>9, <2>10, <2>11 DEF Host
<1> QED
  BY <1>1, <1>2

\* The inductive invariant holds of every reachable state.
LEMMA Invariance == Spec => []IInv
  BY InitKeeps, NextKeeps, PTL DEF Spec

\* Every variable keeps its kind, and the attempt whose process is under way in the sandbox
\* is the one that holds the lease: no two of them use the staging at once.
THEOREM TypeCorrect == Spec => []TypeOK
<1>1. IInv => TypeOK
  BY DEF IInv
<1> QED
  BY <1>1, Invariance, PTL

\* What is published of an attempt names that attempt, refers to its own files, reports
\* the isolation it had and was not chosen from two values, whoever writes beside it.
THEOREM PublishedResults == Spec => []PublishedIsOwn
<1>1. IInv => PublishedIsOwn
  <2> SUFFICES ASSUME IInv, NEW a \in Attempts, published[a] # None
               PROVE  /\ published[a].of = a
                      /\ phase[a] \in {"published", "finished"} => raw[a].text \notin Ambiguous
                      /\ published[a].refs = "inside"
                      /\ published[a].isolation = "docker" <=> a \in attested
                      /\ published[a].role = "orchestrator" =>
                            published[a].status = "BLOCKED" /\ agent[a] = None
    BY DEF PublishedIsOwn
  <2>1. PhaseOf(a) /\ Own(a)
    BY DEF IInv, AttemptAt
  <2>2. phase[a] \in {"published", "finished"} => raw[a].text \notin Ambiguous
    BY <2>1, TextsAssumption DEF PhaseOf, Importing
  <2> QED
    BY <2>1, <2>2 DEF Own
<1> QED
  BY <1>1, Invariance, PTL

\* What is checked out of a sandboxed attempt is its input commit or the verified commit
\* that its published result names.
THEOREM ImportedCommits == Spec => []ImportedIsVerified
<1>1. IInv => ImportedIsVerified
  BY DEF IInv, TypeOK, AttemptAt, Verified, ImportedIsVerified
<1> QED
  BY <1>1, Invariance, PTL

=============================================================================
