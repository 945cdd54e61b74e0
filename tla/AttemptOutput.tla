---------------------------- MODULE AttemptOutput ----------------------------
(***************************************************************************)
(* What an attempt of a TEST task gives back: the staging directory that   *)
(* all TEST attempts of a host share, the turns of the agent in it, the    *)
(* result text and its repair, the checks before a result is published,    *)
(* and the import of the commit it names.  Every attempt has a process of  *)
(* its own (an orchestrator crashes and another takes over); an agent may  *)
(* outlive the process that started it and goes on writing.                *)
(***************************************************************************)
EXTENDS JsonIngestion

CONSTANTS Attempts,      \* the attempts of TEST tasks on one host
          Texts,         \* the forms a reply comes in, of those TextOf knows
          Accepted,      \* those ingestJsonText takes,
          Strict,        \* those that are JSON as they stand,
          Ambiguous,     \* and those with two values in them
          MaxCommits,    \* bound on the commits on top of an input commit
          None

ASSUME AttemptOutputAssumption == MaxCommits \in Nat /\ None \notin Attempts

MAX_JSON_REGENERATIONS == 2

TextOf == [bare   |-> <<"{", Plain, "}">>,
           prose  |-> <<Prose, "{", Plain, "}">>,
           fenced |-> <<Fence, "{", Plain, Comma, "}", Fence>>,
           twice  |-> <<"{", Plain, "}", Prose, "[", Plain, "]">>,
           cut    |-> <<"{", Quote, Plain>>]
\* What ingestJsonText makes of them; it takes no text with two values in it.
ASSUME TextsAssumption ==
    /\ Accepted \cap Ambiguous = {}
    /\ Texts \subseteq DOMAIN TextOf
    /\ Accepted = {t \in DOMAIN TextOf : IngestJsonText(TextOf[t]) # Rejected}
    /\ Strict = {t \in DOMAIN TextOf : IsJson(TextOf[t])}
    /\ Ambiguous = {t \in DOMAIN TextOf : TwoValues(TextOf[t])}

\* A turn that ends without a final text, and one whose envelope cannot be read.
NoText == {"missing", "unreadable"}

VARIABLES
    sandboxed,      \* the attempts whose host runs TEST tasks in the sandbox
    phase,          \* where the process of an attempt is
    lease,          \* the attempt whose process listens on the staging endpoint
    staging,        \* the staging directory
    attested,       \* the attempts a receipt of their staging was written for
    agent,          \* the agent of an attempt: working or orphaned
    reply,          \* what the agent's turn returned
    regeneration,   \* how often an attempt's result was asked for again
    raw,            \* the attempt's raw result file
    canonical,      \* the attempt's worktree
    fingerprint,    \* the worktree before the first repair turn
    published       \* the attempt's published result

vars == <<sandboxed, phase, lease, staging, attested, agent, reply, regeneration, raw,
          canonical, fingerprint, published>>

\* A commit is what was committed since the input commit of an attempt; "unrelated" stands
\* for a branch without that commit.
Changes == {"test", "source", "unrelated"}
Commit(a, done) == [input |-> a, done |-> done]
InputCommit(a) == Commit(a, <<>>)
Descends(c, a) == c.input = a /\ "unrelated" \notin Range(c.done)
testChangeAllowed(change) == change = "test"
Checkout(c) == [head |-> c, dirty |-> FALSE]

\* What a result says of an attempt and its commit.
Result(a, commit) ==
    [text |-> "bare", fits |-> TRUE, of |-> a, role |-> "agent", status |-> "COMPLETED",
     isolation |-> IF a \in sandboxed THEN "docker" ELSE "local",
     refs |-> IF a \in sandboxed THEN "container" ELSE "inside", out |-> commit]

\* The results an agent gives: right, or wrong in one respect; its status decides nothing here.
Results(a, head) ==
    LET right == Result(a, head) IN
    {right}
      \union {[right EXCEPT !.text = t] : t \in Texts \union NoText}
      \union {[right EXCEPT !.of = b] : b \in Attempts}
      \union {[right EXCEPT !.refs = r] : r \in {"inside", "missing", "outside"}}
      \union {[right EXCEPT !.isolation = i] : i \in {"docker", "local"}}
      \union {[right EXCEPT !.fits = FALSE], [right EXCEPT !.out = InputCommit(a)]}

\* stagingPreparationBlockedResult, written by the host.
BlockedResult(a) ==
    [text |-> "bare", fits |-> TRUE, of |-> a, role |-> "orchestrator", status |-> "BLOCKED",
     isolation |-> "local", refs |-> "inside", out |-> InputCommit(a)]

-----------------------------------------------------------------------------
(* The checks of a raw result. *)

\* Paths of the container's log directory become host paths when logs were collected.
mappedReferences(a, r) ==
    IF a \in attested /\ r.refs = "container" THEN [r EXCEPT !.refs = "inside"] ELSE r

attachHostSandboxAttestation(a, r, prepared) ==
    CASE a \notin sandboxed -> r.isolation = "local"
      [] a \in sandboxed /\ ~prepared ->
            r.isolation = "local" /\ r.role = "orchestrator" /\ r.status = "BLOCKED"
      [] a \in sandboxed /\ prepared -> r.isolation = "docker" /\ a \in attested

\* Mutant of assertIdentity: the names in the result are not compared with the task.
assertReferences(a, r) ==
    IF r.refs = "inside" THEN "" ELSE "AGENT_OUTPUT_REFERENCE_ESCAPE"

\* The names of the task, its paths, its input commit and its manifest are one field here.
assertIdentity(a, r) ==
    CASE r.of # a                           -> "AGENT_OUTPUT_IDENTITY_MISMATCH"
      [] r.refs \in {"container", "outside"} -> "AGENT_OUTPUT_REFERENCE_ESCAPE"
      [] r.refs = "missing"                 -> "AGENT_OUTPUT_REFERENCE_UNSAFE"
      [] OTHER                              -> ""

\* The code a raw result is refused with, "" when it is published.
ingestTaskOutput(a, r, prepared) ==
    IF r = None THEN "OUTPUT_FILE_MISSING"
    ELSE IF r.text \notin Accepted THEN "AGENT_OUTPUT_JSON_INVALID"
    ELSE IF ~r.fits THEN "AGENT_OUTPUT_SCHEMA_INVALID"
    ELSE LET value == mappedReferences(a, r) IN
         IF ~attachHostSandboxAttestation(a, value, prepared) THEN "TEST_SANDBOX_ISOLATION_MISMATCH"
         ELSE assertIdentity(a, value)

REGENERABLE_CODES == {"OUTPUT_FILE_MISSING", "AGENT_OUTPUT_JSON_INVALID",
                      "AGENT_OUTPUT_SCHEMA_INVALID", "AGENT_OUTPUT_IDENTITY_MISMATCH"}

-----------------------------------------------------------------------------
Init ==
    \* Attempts outside the sandbox share nothing: one of them stands for all.
    /\ \/ sandboxed = Attempts /\ phase = [a \in Attempts |-> "ready"]
       \/ /\ sandboxed = {}
          /\ \E a \in Attempts : phase = [b \in Attempts |-> IF b = a THEN "ready" ELSE "closed"]
    /\ lease = None
    /\ staging = None
    /\ attested = {}
    /\ agent = [a \in Attempts |-> None]
    /\ reply = [a \in Attempts |-> None]
    /\ regeneration = [a \in Attempts |-> 0]
    /\ raw = [a \in Attempts |-> None]
    /\ canonical = [a \in Attempts |-> Checkout(InputCommit(a))]
    /\ fingerprint = [a \in Attempts |-> None]
    /\ published = [a \in Attempts |-> None]

To(a, next) == phase' = [phase EXCEPT ![a] = next]
Fail(a) == To(a, "failing")
\* What no other process reads is forgotten with the process.
Forget(a) ==
    /\ raw' = [raw EXCEPT ![a] = None]
    /\ reply' = [reply EXCEPT ![a] = None]
    /\ regeneration' = [regeneration EXCEPT ![a] = 0]
    /\ fingerprint' = [fingerprint EXCEPT ![a] = None]
Alive(a) == phase[a] \notin {"ready", "closed", "dead"}

(* prepare *)

\* The result the host writes itself passes through the same checks.
PublishBlocked(a) ==
    /\ ingestTaskOutput(a, BlockedResult(a), FALSE) = ""
    /\ published' = [published EXCEPT ![a] = BlockedResult(a)]
    /\ To(a, "closed")

StartUnsandboxed(a) ==
    /\ phase[a] = "ready" /\ a \notin sandboxed
    /\ To(a, "prepared")
    /\ UNCHANGED <<sandboxed, lease, staging, attested, agent, reply, regeneration, raw, canonical, fingerprint, published>>

\* Mutant of acquireTestSandboxLease: the endpoint may be listened on by another process.
acquireAnyLease(a) ==
    /\ phase[a] = "ready" /\ a \in sandboxed
    /\ lease' = a
    /\ To(a, "preparing")
    /\ UNCHANGED <<sandboxed, staging, attested, agent, reply, regeneration, raw, canonical, fingerprint, published>>

acquireTestSandboxLease(a) ==
    /\ phase[a] = "ready" /\ a \in sandboxed /\ lease = None
    /\ lease' = a
    /\ To(a, "preparing")
    /\ UNCHANGED <<sandboxed, staging, attested, agent, reply, regeneration, raw, canonical, fingerprint, published>>

LeaseIsBusy(a) ==
    /\ phase[a] = "ready" /\ a \in sandboxed /\ lease # None
    /\ PublishBlocked(a)
    /\ UNCHANGED <<sandboxed, lease, staging, attested, agent, reply, regeneration, raw, canonical, fingerprint>>

\* What an earlier attempt left is removed.
cleanRoot(a) ==
    /\ phase[a] = "preparing"
    /\ staging' = None
    /\ To(a, "cleaned")
    /\ UNCHANGED <<sandboxed, lease, attested, agent, reply, regeneration, raw, canonical, fingerprint, published>>

\* The attempt's worktree is cloned and the receipt written.
Stage(a) ==
    /\ phase[a] = "cleaned" /\ canonical[a].head = InputCommit(a)
    /\ staging' = [tree |-> Checkout(canonical[a].head), raw |-> None]
    /\ attested' = attested \union {a}
    /\ To(a, "prepared")
    /\ UNCHANGED <<sandboxed, lease, agent, reply, regeneration, raw, canonical, fingerprint, published>>

\* Mutant of StageFails: the lease is not released.
StageFailsKeepingLease(a) ==
    /\ phase[a] \in {"preparing", "cleaned"}
    /\ staging' \in {staging, None}
    /\ PublishBlocked(a)
    /\ UNCHANGED <<sandboxed, lease, attested, agent, reply, regeneration, raw, canonical, fingerprint>>

\* Any step of the preparation fails; the directory is removed if that succeeds.
StageFails(a) ==
    /\ phase[a] \in {"preparing", "cleaned"}
    /\ staging' \in {staging, None}
    /\ lease' = None
    /\ PublishBlocked(a)
    /\ UNCHANGED <<sandboxed, attested, agent, reply, regeneration, raw, canonical, fingerprint>>

(* The turns of the agent; an orphan that has ended is one that does nothing more. *)

Dispatch(a) ==
    /\ phase[a] = "prepared"
    /\ agent' = [agent EXCEPT ![a] = "working"]
    /\ To(a, "turn")
    /\ UNCHANGED <<sandboxed, lease, staging, attested, reply, regeneration, raw, canonical, fingerprint, published>>

\* The worktree an agent works in, and its change; a sandboxed agent finds whatever is
\* staged at that moment.
Tree(a) == IF a \in sandboxed THEN staging.tree ELSE canonical[a]
Reaches(a) == agent[a] # None /\ (a \in sandboxed => staging # None)
Work(a, tree) ==
    IF a \in sandboxed
    THEN staging' = [staging EXCEPT !.tree = tree] /\ UNCHANGED canonical
    ELSE canonical' = [canonical EXCEPT ![a] = tree] /\ UNCHANGED staging

AgentCommits(a) ==
    /\ Reaches(a) /\ Len(Tree(a).head.done) < MaxCommits
    /\ \E c \in Changes :
          Work(a, Checkout(Commit(Tree(a).head.input, Append(Tree(a).head.done, c))))
    /\ UNCHANGED <<sandboxed, phase, lease, attested, agent, reply, regeneration, raw, fingerprint, published>>

AgentEdits(a) ==
    /\ Reaches(a)
    /\ Work(a, [Tree(a) EXCEPT !.dirty = TRUE])
    /\ UNCHANGED <<sandboxed, phase, lease, attested, agent, reply, regeneration, raw, fingerprint, published>>

\* A worker may write the raw file itself.
AgentWritesRaw(a) ==
    /\ Reaches(a)
    /\ LET r == Result(a, Tree(a).head) IN
       IF a \in sandboxed
       THEN staging' = [staging EXCEPT !.raw = r] /\ UNCHANGED raw
       ELSE raw' = [raw EXCEPT ![a] = r] /\ UNCHANGED staging
    /\ UNCHANGED <<sandboxed, phase, lease, attested, agent, reply, regeneration, canonical, fingerprint, published>>

\* The turn ends with a final text, without one, or with an envelope that cannot be read.
AgentReplies(a) ==
    /\ phase[a] = "turn" /\ agent[a] = "working" /\ Reaches(a)
    /\ agent' = [agent EXCEPT ![a] = None]
    /\ \E r \in Results(a, Tree(a).head) :
          reply' = [reply EXCEPT ![a] = r]
    /\ To(a, "replied")
    /\ UNCHANGED <<sandboxed, lease, staging, attested, regeneration, raw, canonical, fingerprint, published>>

AgentFails(a) ==
    /\ phase[a] = "turn"
    /\ agent' = [agent EXCEPT ![a] = None]
    /\ Fail(a)
    /\ UNCHANGED <<sandboxed, lease, staging, attested, reply, regeneration, raw, canonical, fingerprint, published>>

(* The result of a turn *)

\* HEAD and status of the attempt's own worktree, also where the agent works in a clone.
worktreeFingerprint(a) == canonical[a]

\* First turn: the staged raw file is copied out and must be there; a final text
\* replaces it.
Collect(a) ==
    LET kept == IF a \in sandboxed THEN staging.raw ELSE raw[a] IN
    /\ phase[a] = "replied" /\ regeneration[a] = 0
    /\ IF \/ a \in sandboxed /\ kept = None
          \/ reply[a].text = "unreadable" /\ kept = None
       THEN Fail(a) /\ UNCHANGED raw
       ELSE /\ raw' = [raw EXCEPT ![a] = IF reply[a].text \in NoText THEN kept ELSE reply[a]]
            /\ To(a, "delivered")
    /\ reply' = [reply EXCEPT ![a] = None]
    /\ UNCHANGED <<sandboxed, lease, staging, attested, agent, regeneration, canonical, fingerprint, published>>

\* A repair turn must leave the worktree as it was and answer with the JSON value alone.
AcceptRepair(a) ==
    /\ phase[a] = "replied" /\ regeneration[a] > 0
    /\ IF \/ worktreeFingerprint(a) # fingerprint[a]
          \/ reply[a].text \notin Strict
       THEN Fail(a) /\ UNCHANGED raw
       ELSE raw' = [raw EXCEPT ![a] = reply[a]] /\ To(a, "delivered")
    /\ reply' = [reply EXCEPT ![a] = None]
    /\ UNCHANGED <<sandboxed, lease, staging, attested, agent, regeneration, canonical, fingerprint, published>>

\* The value that was read is written out as JSON.
Publish(a) ==
    /\ phase[a] = "delivered" /\ ingestTaskOutput(a, raw[a], TRUE) = ""
    /\ published' = [published EXCEPT ![a] = [mappedReferences(a, raw[a]) EXCEPT !.text = "bare"]]
    /\ To(a, IF a \in sandboxed THEN "published" ELSE "finished")
    /\ UNCHANGED <<sandboxed, lease, staging, attested, agent, reply, regeneration, raw, canonical, fingerprint>>

Regenerate(a) ==
    /\ phase[a] = "delivered" /\ ingestTaskOutput(a, raw[a], TRUE) \in REGENERABLE_CODES
    /\ regeneration[a] < MAX_JSON_REGENERATIONS
    /\ regeneration' = [regeneration EXCEPT ![a] = @ + 1]
    /\ fingerprint' = [fingerprint EXCEPT ![a] = IF @ = None THEN worktreeFingerprint(a) ELSE @]
    /\ agent' = [agent EXCEPT ![a] = "working"]
    /\ To(a, "turn")
    /\ UNCHANGED <<sandboxed, lease, staging, attested, reply, raw, canonical, published>>

Refuse(a) ==
    LET code == ingestTaskOutput(a, raw[a], TRUE) IN
    /\ phase[a] = "delivered" /\ code # ""
    /\ code \in REGENERABLE_CODES => regeneration[a] = MAX_JSON_REGENERATIONS
    /\ Fail(a)
    /\ UNCHANGED <<sandboxed, lease, staging, attested, agent, reply, regeneration, raw, canonical, fingerprint, published>>

(* integrateCommit: one git command after the other *)

MatchHead(a) ==
    /\ phase[a] = "published"
    /\ To(a, IF staging.tree.head = published[a].out THEN "matched" ELSE "failing")
    /\ UNCHANGED <<sandboxed, lease, staging, attested, agent, reply, regeneration, raw, canonical, fingerprint, published>>

RequireClean(a) ==
    /\ phase[a] = "matched"
    /\ To(a, IF staging.tree.dirty THEN "failing" ELSE "clean")
    /\ UNCHANGED <<sandboxed, lease, staging, attested, agent, reply, regeneration, raw, canonical, fingerprint, published>>

\* Only descendants that change tests are taken over into an untouched worktree.
Importable(a, out) ==
    /\ Descends(out, a)
    /\ \A c \in Range(out.done) : testChangeAllowed(c)
    /\ canonical[a] = Checkout(InputCommit(a))

\* Mutant of ImportCommit: what is staged by then is checked out.
ImportHead(a) ==
    /\ phase[a] = "clean"
    /\ IF Importable(a, published[a].out)
       THEN canonical' = [canonical EXCEPT ![a] = Checkout(staging.tree.head)] /\ To(a, "finished")
       ELSE Fail(a) /\ UNCHANGED canonical
    /\ UNCHANGED <<sandboxed, lease, staging, attested, agent, reply, regeneration, raw, fingerprint, published>>

\* The commit is fetched and checked out by its name.
ImportCommit(a) ==
    /\ phase[a] = "clean"
    /\ IF Importable(a, published[a].out)
       THEN canonical' = [canonical EXCEPT ![a] = Checkout(published[a].out)] /\ To(a, "finished")
       ELSE Fail(a) /\ UNCHANGED canonical
    /\ UNCHANGED <<sandboxed, lease, staging, attested, agent, reply, regeneration, raw, fingerprint, published>>

(* The end *)

\* The staging of a prepared attempt is removed, if that succeeds, and given back.
cleanup(a) ==
    /\ phase[a] \in {"finished", "failing"}
    /\ To(a, "closed")
    /\ IF a \in sandboxed THEN lease' = None /\ staging' \in {staging, None}
                          ELSE UNCHANGED <<lease, staging>>
    /\ Forget(a)
    /\ UNCHANGED <<sandboxed, attested, agent, canonical, published>>

Orphaned(a) == agent' = [agent EXCEPT ![a] = IF @ = "working" THEN "orphan" ELSE @]

\* The execution lease is lost: the run is aborted, the agent may go on.
LoseExecutionLease(a) ==
    /\ phase[a] \in {"prepared", "turn", "replied", "delivered", "finished"}
    /\ Fail(a)
    /\ Orphaned(a)
    /\ UNCHANGED <<sandboxed, lease, staging, attested, reply, regeneration, raw, canonical, fingerprint, published>>

\* The process dies; the system frees its endpoint and nothing else.
Crash(a) ==
    /\ Alive(a)
    /\ To(a, "dead")
    /\ lease' = IF lease = a THEN None ELSE lease
    /\ Orphaned(a)
    /\ Forget(a)
    /\ UNCHANGED <<sandboxed, staging, attested, canonical, published>>

Host(a) ==
    \/ StartUnsandboxed(a) \/ acquireTestSandboxLease(a) \/ LeaseIsBusy(a)
    \/ cleanRoot(a) \/ Stage(a) \/ StageFails(a) \/ Dispatch(a)
    \/ Collect(a) \/ AcceptRepair(a) \/ Publish(a) \/ Regenerate(a) \/ Refuse(a)
    \/ MatchHead(a) \/ RequireClean(a) \/ ImportCommit(a) \/ cleanup(a)

Agent(a) == AgentCommits(a) \/ AgentEdits(a) \/ AgentWritesRaw(a)
TurnEnds(a) == AgentReplies(a) \/ AgentFails(a)

Next == \E a \in Attempts :
            Host(a) \/ Agent(a) \/ TurnEnds(a) \/ LoseExecutionLease(a) \/ Crash(a)

\* A process that runs goes on, and a turn ends (the runner's timeout).
Spec == /\ Init /\ [][Next]_vars
        /\ \A a \in Attempts : WF_vars(Host(a)) /\ WF_vars(TurnEnds(a))

-----------------------------------------------------------------------------
Phases == {"ready", "preparing", "cleaned", "prepared", "turn", "replied", "delivered",
           "published", "matched", "clean", "finished", "failing", "closed", "dead"}

\* Every variable keeps its kind; a staging directory is in use only by the owner of the lease.
TypeOK ==
    /\ sandboxed \subseteq Attempts /\ attested \subseteq sandboxed
    /\ phase \in [Attempts -> Phases]
    /\ lease \in sandboxed \union {None}
    /\ \A a \in sandboxed : Alive(a) <=> lease = a
    /\ agent \in [Attempts -> {None, "working", "orphan"}]
    /\ regeneration \in [Attempts -> 0 .. MAX_JSON_REGENERATIONS]
    /\ \A a \in Attempts : canonical[a].head.input = a

\* PublishedIsOwn: a published result (result.json) names its own attempt, stood alone in
\* the raw text, refers to nothing outside the granted roots, and reports the isolation
\* that the attempt had, whatever an agent that outlived its process writes.
PublishedIsOwn ==
    \A a \in Attempts : published[a] # None =>
        /\ published[a].of = a
        /\ phase[a] \in {"published", "finished"} => raw[a].text \notin Ambiguous
        /\ published[a].refs = "inside"
        /\ published[a].isolation = "docker" <=> a \in attested
        /\ published[a].role = "orchestrator" => published[a].status = "BLOCKED" /\ agent[a] = None

\* ImportedIsVerified: what is checked out in the worktree of a sandboxed attempt is its
\* input commit, or the commit its published result names, descended from the input commit
\* by changes of tests only, even while an orphaned agent commits to the staged clone.
ImportedIsVerified ==
    \A a \in sandboxed : canonical[a] # Checkout(InputCommit(a)) =>
        /\ canonical[a] = Checkout(published[a].out)
        /\ Descends(published[a].out, a)
        /\ Range(published[a].out.done) \subseteq {"test"}

\* StagingIsGivenBack: the attempt that holds the staging lease gives it back, however its
\* preparation, its turns, its import and its cleanup end.
StagingIsGivenBack == lease # None ~> lease = None
=============================================================================
