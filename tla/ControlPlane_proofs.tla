-------------------------- MODULE ControlPlane_proofs --------------------------
(***************************************************************************)
(* Theorems about ControlPlane for any processes, commands, registries and *)
(* session files: what each of its four parts keeps.  The parts share no   *)
(* variable but the budget, so each has an inductive invariant of its own  *)
(* (ManagerInv, ReleaseInv, HrInv, MonitorInv) and a lemma that a step of  *)
(* the others leaves it alone.                                             *)
(***************************************************************************)
EXTENDS ControlPlane, Lemmas, FiniteSetTheorems

ManagerNext ==
    \/ \E c \in Clients : \/ ensureProject(c) \/ MakeDirectory(c) \/ InitRepository(c)
                          \/ CloneProject(c) \/ readRegistry(c) \/ register(c)
                          \/ submitDraft(c) \/ PublishRequest(c) \/ ManagerDies(c)
    \/ EditDraft \/ validateDraft \/ AnswerRequest

ReleaseNext ==
    \/ \E c \in Clients : \/ preflight(c) \/ PreflightExisting(c) \/ PreflightReserve(c)
                          \/ deploy(c) \/ RequireApproval(c) \/ Invoke(c) \/ DeployWrites(c)
                          \/ ReleaserDies(c)
    \/ ApproveDeployment

HrNext ==
    \/ \E p \in Clients : \/ AcquireWriter(p) \/ WriterEnds(p) \/ queueReview(p) \/ runPending(p)
    \/ \E l \in Loops : StartReview(l) \/ FinishReview(l) \/ EndLoop(l)

MonitorNext ==
    \/ WriteSession \/ RewriteSession \/ StartRefresh \/ ReadSession \/ StoreLine \/ EndScan
    \/ RefreshFails \/ Connect \/ OpenStream \/ Receive \/ CutStream \/ RestartMonitor

\* A step of the whole is a step of one part and leaves the others alone.
LEMMA StepOfOnePart ==
    ASSUME [Next]_vars
    PROVE  /\ ManagerNext \/ UNCHANGED mVars
           /\ ReleaseNext \/ UNCHANGED rVars
           /\ HrNext \/ UNCHANGED hVars
           /\ MonitorNext \/ UNCHANGED sVars
<1>1. CASE UNCHANGED vars
  BY <1>1 DEF vars
<1>2. CASE Next
  <2>1. \/ ManagerNext /\ UNCHANGED <<rVars, hVars, sVars>>
        \/ ReleaseNext /\ UNCHANGED <<mVars, hVars, sVars>>
        \/ HrNext /\ UNCHANGED <<rVars, mVars, sVars>>
        \/ MonitorNext /\ UNCHANGED <<rVars, mVars, hVars>>
    BY <1>2, Zenon DEF Next, ManagerNext, ReleaseNext, HrNext, MonitorNext
  <2> QED
    BY <2>1
<1> QED
  BY <1>1, <1>2

-----------------------------------------------------------------------------
(* Projects and requests *)

Entries    == projectFromOptions \cup {None}
Ensuring   == [at : {"new", "init", "remote", "register"}, project : Projects, entry : projectFromOptions]
Writing    == [at : {"write"}, project : Projects, entry : projectFromOptions, registry : [Projects -> Entries]]
Publishing == [at : {"publish"}, file : Drafts, value : Contents]
EnsureSteps == {"new", "init", "remote", "register", "write"}

\* An entry that ensureProject may register: a remote one has been looked at.
Checked(entry) == entry.mode = "remote" => validateRemote(entry.remote) = ""

ManagerTypes ==
    /\ directory \in [Projects -> {None, "empty", "repository"}]
    /\ projects \in [Projects -> Entries]
    /\ manager \in [Clients -> Ensuring \cup Writing \cup Publishing \cup {None}]
    /\ draft \in [Drafts -> Contents \cup {None}]
    /\ requests \in [Drafts -> Contents \cup {None}]
    /\ receipts \subseteq {f \in Drafts : requests[f] # None}
    /\ ensured \subseteq Projects
    /\ validated \subseteq Drafts \X Contents
    /\ interfered \in BOOLEAN

\* What is on its way into the queue, and in it, was reported VALID.
RequestsAreValidated ==
    /\ \A c \in Clients : AtStep(c, {"publish"}) => <<manager[c].file, manager[c].value>> \in validated
    /\ \A f \in Drafts : requests[f] # None => <<f, requests[f]>> \in validated

\* What an ensure command has found out, and that nobody else is writing meanwhile.
EnsureHolds ==
    /\ \A c, d \in Clients : AtStep(c, EnsureSteps) /\ AtStep(d, EnsureSteps) => c = d
    /\ \A c \in Clients :
          /\ AtStep(c, EnsureSteps) => Checked(manager[c].entry)
          /\ AtStep(c, {"write"}) =>
                /\ directory[manager[c].project] = "repository"
                /\ manager[c].registry = projects
    /\ \A k \in ensured : projects[k] # None /\ directory[k] = "repository" /\ Checked(projects[k])

ManagerInv == ManagerTypes /\ RequestsAreValidated /\ (~interfered => EnsureHolds)

\* Whoever is at a step holds what that step needs.
LEMMA ManagerAt ==
    ASSUME ManagerTypes, NEW c \in Clients
    PROVE  /\ AtStep(c, {"new", "init", "remote", "register"}) => manager[c] \in Ensuring
           /\ AtStep(c, {"write"}) => manager[c] \in Writing
           /\ AtStep(c, EnsureSteps) => manager[c].project \in Projects /\ manager[c].entry \in projectFromOptions
           /\ AtStep(c, {"publish"}) => manager[c] \in Publishing
  BY DEF ManagerTypes, AtStep, Ensuring, Writing, Publishing, EnsureSteps

\* A command that ends holds nothing more.
LEMMA ManagerEnds ==
    ASSUME ManagerTypes, NEW c \in Clients, EndManager(c)
    PROVE  /\ manager' \in [Clients -> Ensuring \cup Writing \cup Publishing \cup {None}]
           /\ \A S : ~AtStep(c, S)'
           /\ \A d \in Clients \ {c} : manager'[d] = manager[d]
  BY DEF ManagerTypes, EndManager, AtStep

\* An ensure command that moves on keeps what it was given.
LEMMA ManagerMoves ==
    ASSUME ManagerTypes, NEW c \in Clients, manager[c] \in Ensuring,
           NEW s \in {"init", "register"}, MoveTo(c, s)
    PROVE  /\ manager' \in [Clients -> Ensuring \cup Writing \cup Publishing \cup {None}]
           /\ manager'[c].at = s /\ manager'[c].entry = manager[c].entry
           /\ manager'[c].project = manager[c].project
           /\ \A d \in Clients \ {c} : manager'[d] = manager[d]
<1>1. [manager[c] EXCEPT !.at = s] \in Ensuring
  BY DEF Ensuring
<1>2. /\ [manager[c] EXCEPT !.at = s].at = s /\ [manager[c] EXCEPT !.at = s].entry = manager[c].entry
      /\ [manager[c] EXCEPT !.at = s].project = manager[c].project
  BY DEF Ensuring
<1>3. manager' = [manager EXCEPT ![c] = [manager[c] EXCEPT !.at = s]]
  BY DEF MoveTo, ManagerTypes
<1> QED
  BY <1>1, <1>2, <1>3 DEF ManagerTypes

\* A command that ends takes nothing from what the others know.
LEMMA EndKeepsManager ==
    ASSUME ManagerInv, NEW c \in Clients, EndManager(c),
           UNCHANGED <<directory, projects, ensured, interfered, draftVars>>
    PROVE  ManagerInv'
<1>1. ManagerTypes'
  BY ManagerEnds DEF ManagerInv, ManagerTypes, draftVars
<1>2. RequestsAreValidated'
  BY ManagerEnds DEF ManagerInv, RequestsAreValidated, AtStep, draftVars
<1>3. ASSUME ~interfered PROVE EnsureHolds'
  <2>1. \A d \in Clients : \A S : AtStep(d, S)' => AtStep(d, S) /\ manager'[d] = manager[d]
    BY ManagerEnds DEF ManagerInv, AtStep
  <2>2. EnsureHolds
    BY <1>3 DEF ManagerInv
  <2>3. \A d, e \in Clients : AtStep(d, EnsureSteps)' /\ AtStep(e, EnsureSteps)' => d = e
    BY <2>1, <2>2 DEF EnsureHolds
  <2>4. ASSUME NEW d \in Clients
        PROVE  /\ AtStep(d, EnsureSteps)' => Checked(manager'[d].entry)
               /\ AtStep(d, {"write"})' => /\ directory'[manager'[d].project] = "repository"
                                          /\ manager'[d].registry = projects'
    BY <2>1, <2>2 DEF EnsureHolds
  <2>5. \A k \in ensured' : projects'[k] # None /\ directory'[k] = "repository" /\ Checked(projects'[k])
    BY <2>2 DEF EnsureHolds
  <2> QED
    BY <2>3, <2>4, <2>5 DEF EnsureHolds, Checked
<1> QED
  BY <1>1, <1>2, <1>3 DEF ManagerInv

\* An ensure command goes on in the directory of its project, which becomes a repository
\* at most: a repository is never made anything else.
LEMMA MoveKeepsManager ==
    ASSUME ManagerInv, NEW c \in Clients, AtStep(c, {"new", "init", "remote"}),
           NEW s \in {"init", "register"}, MoveTo(c, s),
           NEW state \in {"empty", "repository"},
           directory' = [directory EXCEPT ![manager[c].project] = state],
           directory[manager[c].project] = "repository" => state = "repository",
           UNCHANGED <<projects, ensured, interfered, draftVars>>
    PROVE  ManagerInv'
<1>1. manager[c] \in Ensuring /\ manager[c].project \in Projects /\ AtStep(c, EnsureSteps)
  BY ManagerAt DEF ManagerInv, AtStep, EnsureSteps
<1>2. /\ manager' \in [Clients -> Ensuring \cup Writing \cup Publishing \cup {None}]
      /\ manager'[c].at = s /\ manager'[c].entry = manager[c].entry
      /\ manager'[c].project = manager[c].project
      /\ \A d \in Clients \ {c} : manager'[d] = manager[d]
  BY <1>1, ManagerMoves DEF ManagerInv
<1>3. directory' \in [Projects -> {None, "empty", "repository"}] /\ 
      /\ \A k \in Projects : directory[k] = "repository" => directory'[k] = "repository"
  BY <1>1 DEF ManagerInv, ManagerTypes
<1>4. ManagerTypes'
  BY <1>2, <1>3 DEF ManagerInv, ManagerTypes, draftVars
<1>5. ~AtStep(c, {"publish"})' /\ ~AtStep(c, {"write"})'
  BY <1>2 DEF AtStep
<1>6. RequestsAreValidated'
  BY <1>2, <1>5 DEF ManagerInv, RequestsAreValidated, AtStep, draftVars
<1>7. ASSUME ~interfered PROVE EnsureHolds'
  <2>1. \A d \in Clients : AtStep(d, EnsureSteps)' => AtStep(d, EnsureSteps)
    BY <1>1, <1>2 DEF AtStep
  <2>2. \A d \in Clients : AtStep(d, {"write"})' => d # c /\ AtStep(d, {"write"}) /\ manager[d].project \in Projects
    BY <1>2, <1>5, ManagerAt DEF AtStep, ManagerInv, EnsureSteps
  <2>3. \A d \in Clients : AtStep(d, EnsureSteps)' => Checked(manager'[d].entry)
    <3>1. \A d \in Clients : AtStep(d, EnsureSteps) => Checked(manager[d].entry)
      BY <1>7 DEF ManagerInv, EnsureHolds
    <3>2. \A d \in Clients : manager'[d].entry = manager[d].entry
      BY <1>2
    <3> QED
      BY <2>1, <3>1, <3>2
  <2>4. \A d \in Clients : AtStep(d, {"write"})' =>
           directory'[manager'[d].project] = "repository" /\ manager'[d].registry = projects'
    BY <1>2, <1>3, <1>7, <2>2 DEF ManagerInv, EnsureHolds
  <2>5. \A k \in ensured' : projects'[k] # None /\ directory'[k] = "repository" /\ Checked(projects'[k])
    BY <1>3, <1>7 DEF ManagerInv, ManagerTypes, EnsureHolds
  <2> QED
    BY <1>7, <2>1, <2>3, <2>4, <2>5 DEF ManagerInv, EnsureHolds
<1> QED
  BY <1>4, <1>6, <1>7 DEF ManagerInv

\* An ensure command starts: it has looked at its remote.
LEMMA EnsureStarts ==
    ASSUME ManagerInv, NEW c \in Clients, ensureProject(c)
    PROVE  ManagerInv'
<1>1. PICK k \in Projects, p \in projectFromOptions :
         /\ manager' = [manager EXCEPT ![c] = [at |-> p.mode, project |-> k, entry |-> p]]
         /\ p.mode = "remote" => validateRemote(p.remote) = ""
  BY DEF ensureProject
<1>2. /\ manager[c] = None
      /\ interfered' = (interfered \/ \E d \in Clients : AtStep(d, EnsureSteps))
      /\ UNCHANGED <<directory, projects, ensured, draftVars>>
  BY DEF ensureProject, EnsureSteps
<1> DEFINE held == [at |-> p.mode, project |-> k, entry |-> p]
<1>3. held \in Ensuring /\ held.entry = p /\ held.at \in {"new", "remote"}
  BY DEF Ensuring, projectFromOptions
<1> HIDE DEF held
<1>4. /\ manager' \in [Clients -> Ensuring \cup Writing \cup Publishing \cup {None}]
      /\ manager'[c] = held /\ \A d \in Clients \ {c} : manager'[d] = manager[d]
  BY <1>1, <1>3 DEF ManagerInv, ManagerTypes, held
<1>5. ManagerTypes'
  BY <1>2, <1>4 DEF ManagerInv, ManagerTypes, draftVars
<1>6. RequestsAreValidated'
  BY <1>2, <1>3, <1>4 DEF ManagerInv, RequestsAreValidated, AtStep, draftVars
<1>7. ASSUME ~interfered' PROVE EnsureHolds'
  <2>1. ~interfered /\ \A d \in Clients : ~AtStep(d, EnsureSteps)
    BY <1>2, <1>7
  <2>2. \A d \in Clients : AtStep(d, EnsureSteps)' => d = c
    BY <1>4, <2>1 DEF AtStep
  <2>3. ~AtStep(c, {"write"})'
    BY <1>3, <1>4 DEF AtStep
  <2>4. \A d \in Clients : ~AtStep(d, {"write"})'
    BY <2>2, <2>3 DEF AtStep, EnsureSteps
  <2>5. Checked(manager'[c].entry)
    BY <1>1, <1>3, <1>4 DEF Checked
  <2>6. \A j \in ensured' : projects'[j] # None /\ directory'[j] = "repository" /\ Checked(projects'[j])
    BY <1>2, <2>1 DEF ManagerInv, EnsureHolds
  <2> QED
    BY <2>2, <2>4, <2>5, <2>6 DEF EnsureHolds
<1> QED
  BY <1>5, <1>6, <1>7 DEF ManagerInv

\* The registry is read once the repository has been looked at.
LEMMA RegistryIsRead ==
    ASSUME ManagerInv, NEW c \in Clients, readRegistry(c)
    PROVE  ManagerInv'
<1>1. /\ AtStep(c, {"register"}) /\ UNCHANGED <<directory, projects, ensured, interfered, draftVars>>
      /\ IF inspect(manager[c].project)
         THEN manager' = [manager EXCEPT ![c] =
                 [at |-> "write", project |-> @.project, entry |-> @.entry, registry |-> projects]]
         ELSE EndManager(c)
  BY DEF readRegistry, projectVars
<1>2. CASE EndManager(c)
  BY <1>1, <1>2, EndKeepsManager
<1>3. CASE inspect(manager[c].project) /\ ~EndManager(c)
  <2> DEFINE held == [at |-> "write", project |-> manager[c].project, entry |-> manager[c].entry,
                      registry |-> projects]
  <2>1. manager[c] \in Ensuring
    BY <1>1, ManagerAt DEF ManagerInv, AtStep
  <2>2. held \in Writing /\ held.project = manager[c].project /\ held.entry = manager[c].entry
        /\ held.registry = projects /\ held.at = "write"
    BY <2>1 DEF ManagerInv, ManagerTypes, Ensuring, Writing
  <2>3. manager' = [manager EXCEPT ![c] = held]
    BY <1>1, <1>3
  <2> HIDE DEF held
  <2>4. /\ manager' \in [Clients -> Ensuring \cup Writing \cup Publishing \cup {None}]
        /\ manager'[c] = held /\ \A d \in Clients \ {c} : manager'[d] = manager[d]
    BY <2>2, <2>3 DEF ManagerInv, ManagerTypes
  <2>5. ManagerTypes'
    BY <1>1, <2>4 DEF ManagerInv, ManagerTypes, draftVars
  <2>6. RequestsAreValidated'
    BY <1>1, <2>2, <2>4 DEF ManagerInv, RequestsAreValidated, AtStep, draftVars
  <2>7. ASSUME ~interfered PROVE EnsureHolds'
    <3>1. \A d \in Clients : AtStep(d, EnsureSteps)' => AtStep(d, EnsureSteps)
      BY <1>1, <2>4 DEF AtStep, EnsureSteps
    <3>2. \A d \in Clients : AtStep(d, EnsureSteps)' => Checked(manager'[d].entry)
      BY <2>2, <2>4, <2>7, <3>1 DEF ManagerInv, EnsureHolds
    <3>3. \A d \in Clients \ {c} : AtStep(d, {"write"})' =>
             directory'[manager'[d].project] = "repository" /\ manager'[d].registry = projects'
      BY <1>1, <2>4, <2>7 DEF ManagerInv, EnsureHolds, AtStep
    <3>4. directory'[manager'[c].project] = "repository" /\ manager'[c].registry = projects'
      BY <1>1, <1>3, <2>2, <2>4 DEF inspect
    <3> QED
      BY <1>1, <2>7, <3>1, <3>2, <3>3, <3>4 DEF ManagerInv, EnsureHolds
  <2> QED
    BY <1>1, <2>5, <2>6, <2>7 DEF ManagerInv
<1> QED
  BY <1>1, <1>2, <1>3

\* The registry that was read is written with the new entry.
LEMMA RegistryIsWritten ==
    ASSUME ManagerInv, NEW c \in Clients, register(c)
    PROVE  ManagerInv'
<1>1. /\ AtStep(c, {"write"}) /\ EndManager(c)
      /\ projects' = [manager[c].registry EXCEPT ![manager[c].project] = manager[c].entry]
      /\ ensured' = ensured \union {manager[c].project}
      /\ UNCHANGED <<directory, interfered, draftVars>>
  BY DEF register
<1>2. manager[c] \in Writing /\ AtStep(c, EnsureSteps)
  BY <1>1, ManagerAt DEF ManagerInv, AtStep, EnsureSteps
<1> DEFINE k == manager[c].project
<1>3. k \in Projects /\ manager[c].entry \in projectFromOptions /\ manager[c].registry \in [Projects -> Entries]
  BY <1>2 DEF Writing
<1>4. projects' \in [Projects -> Entries]
  BY <1>1, <1>3 DEF Entries
<1>5. ManagerTypes'
  BY <1>1, <1>3, <1>4, ManagerEnds DEF ManagerInv, ManagerTypes, draftVars
<1>6. RequestsAreValidated'
  BY <1>1, ManagerEnds DEF ManagerInv, RequestsAreValidated, AtStep, draftVars
<1>7. ASSUME ~interfered PROVE EnsureHolds'
  <2>1. manager[c].registry = projects /\ directory[k] = "repository" /\ Checked(manager[c].entry)
    BY <1>1, <1>2, <1>7 DEF ManagerInv, EnsureHolds
  <2>2. projects'[k] = manager[c].entry /\ \A j \in Projects \ {k} : projects'[j] = projects[j]
    BY <1>1, <1>3, <2>1
  <2>3. manager[c].entry # None
    BY <1>3, ManagerAssumption
  <2>4. \A d \in Clients : ~AtStep(d, EnsureSteps)'
    BY <1>1, <1>2, <1>7, ManagerEnds DEF ManagerInv, EnsureHolds, AtStep
  <2>5. \A d \in Clients : ~AtStep(d, {"write"})'
    BY <2>4 DEF AtStep, EnsureSteps
  <2>6. \A j \in ensured' : projects'[j] # None /\ directory'[j] = "repository" /\ Checked(projects'[j])
    <3> TAKE j \in ensured'
    <3>1. directory'[j] = directory[j]
      BY <1>1
    <3>2. CASE j = k
      BY <2>1, <2>2, <2>3, <3>1, <3>2
    <3>3. CASE j # k
      BY <1>1, <1>7, <2>2, <3>1, <3>3 DEF ManagerInv, ManagerTypes, EnsureHolds
    <3> QED
      BY <3>2, <3>3
  <2> QED
    BY <2>4, <2>5, <2>6 DEF EnsureHolds
<1> QED
  BY <1>1, <1>5, <1>6, <1>7 DEF ManagerInv

\* A submission reads the draft again and goes on with what it has read.
LEMMA DraftIsSubmitted ==
    ASSUME ManagerInv, NEW c \in Clients, submitDraft(c)
    PROVE  ManagerInv'
<1>1. PICK v \in validated :
         /\ draft[v[1]] = v[2]
         /\ manager' = [manager EXCEPT ![c] = [at |-> "publish", file |-> v[1], value |-> draft[v[1]]]]
  BY DEF submitDraft, readDraft
<1>2. manager[c] = None /\ UNCHANGED <<directory, projects, ensured, interfered, draftVars>>
  BY DEF submitDraft, projectVars
<1>3. PICK f \in Drafts, content \in Contents : v = <<f, content>>
  BY DEF ManagerInv, ManagerTypes
<1> DEFINE held == [at |-> "publish", file |-> f, value |-> content]
<1>4. held \in Publishing /\ held.file = f /\ held.value = content /\ held.at = "publish"
  BY DEF Publishing
<1>5. manager' = [manager EXCEPT ![c] = held]
  BY <1>1, <1>3
<1> HIDE DEF held
<1>6. /\ manager' \in [Clients -> Ensuring \cup Writing \cup Publishing \cup {None}]
      /\ manager'[c] = held /\ \A d \in Clients \ {c} : manager'[d] = manager[d]
  BY <1>4, <1>5 DEF ManagerInv, ManagerTypes
<1>7. ManagerTypes'
  BY <1>2, <1>6 DEF ManagerInv, ManagerTypes, draftVars
<1>8. RequestsAreValidated'
  BY <1>2, <1>3, <1>4, <1>6 DEF ManagerInv, RequestsAreValidated, AtStep, draftVars
<1>9. ASSUME ~interfered PROVE EnsureHolds'
  <2>1. ~AtStep(c, EnsureSteps)' /\ ~AtStep(c, {"write"})'
    BY <1>4, <1>6 DEF AtStep, EnsureSteps
  <2> QED
    BY <1>2, <1>6, <1>9, <2>1 DEF ManagerInv, EnsureHolds, AtStep
<1> QED
  BY <1>2, <1>7, <1>8, <1>9 DEF ManagerInv

\* What was read is linked into the queue, unless there is something already.
LEMMA RequestIsPublished ==
    ASSUME ManagerInv, NEW c \in Clients, PublishRequest(c)
    PROVE  ManagerInv'
<1> DEFINE f == manager[c].file
<1>1. /\ AtStep(c, {"publish"}) /\ EndManager(c)
      /\ requests' = IF requests[f] = None /\ f \notin receipts
                     THEN [requests EXCEPT ![f] = manager[c].value] ELSE requests
      /\ UNCHANGED <<projectVars, draft, receipts, validated>>
  BY DEF PublishRequest
<1>2. manager[c] \in Publishing /\ f \in Drafts /\ manager[c].value \in Contents
  BY <1>1, ManagerAt DEF ManagerInv, Publishing
<1>3. <<f, manager[c].value>> \in validated
  BY <1>1 DEF ManagerInv, RequestsAreValidated
<1> HIDE DEF f
<1>4. /\ requests' \in [Drafts -> Contents \cup {None}]
      /\ \A g \in Drafts : requests[g] # None => requests'[g] = requests[g]
      /\ \A g \in Drafts : requests'[g] # None => <<g, requests'[g]>> \in validated
  BY <1>1, <1>2, <1>3 DEF ManagerInv, ManagerTypes, RequestsAreValidated
<1>5. ManagerTypes'
  BY <1>1, <1>4, ManagerEnds DEF ManagerInv, ManagerTypes, projectVars
<1>6. RequestsAreValidated'
  BY <1>1, <1>4, ManagerEnds DEF ManagerInv, RequestsAreValidated, AtStep
<1>7. ASSUME ~interfered PROVE EnsureHolds'
  <2>1. UNCHANGED <<directory, projects, ensured>>
    BY <1>1 DEF projectVars
  <2>2. \A d \in Clients : AtStep(d, EnsureSteps)' => d # c /\ AtStep(d, EnsureSteps) /\ manager'[d] = manager[d]
    BY <1>1, ManagerEnds DEF ManagerInv, AtStep
  <2>3. \A d \in Clients : AtStep(d, {"write"})' => AtStep(d, EnsureSteps)' /\ AtStep(d, {"write"})
    BY <1>1, ManagerEnds DEF ManagerInv, AtStep, EnsureSteps
  <2>4. \A d \in Clients : AtStep(d, {"write"})' =>
           directory'[manager'[d].project] = "repository" /\ manager'[d].registry = projects'
    BY <1>7, <2>1, <2>2, <2>3 DEF ManagerInv, EnsureHolds
  <2>5. \A d \in Clients : AtStep(d, EnsureSteps)' => Checked(manager'[d].entry)
    BY <1>7, <2>2 DEF ManagerInv, EnsureHolds
  <2>6. \A k \in ensured' : projects'[k] # None /\ directory'[k] = "repository" /\ Checked(projects'[k])
    BY <1>7, <2>1 DEF ManagerInv, EnsureHolds
  <2> QED
    BY <1>7, <2>2, <2>4, <2>5, <2>6 DEF ManagerInv, EnsureHolds
<1> QED
  BY <1>1, <1>5, <1>6, <1>7 DEF ManagerInv, projectVars

\* The Manager agent edits, validates, is answered: nothing of what the commands hold.
LEMMA DraftsMove ==
    ASSUME ManagerInv, EditDraft \/ validateDraft \/ AnswerRequest
    PROVE  ManagerInv'
<1>1. /\ UNCHANGED <<projectVars, manager, requests>>
      /\ draft' \in [Drafts -> Contents \cup {None}]
      /\ receipts \subseteq receipts' /\ receipts' \subseteq {f \in Drafts : requests[f] # None}
      /\ validated \subseteq validated' /\ validated' \subseteq Drafts \X Contents
  <2>1. CASE EditDraft
    BY <2>1 DEF EditDraft, ManagerInv, ManagerTypes
  <2>2. CASE validateDraft
    <3>1. PICK f \in Drafts : draft[f] # None /\ validated' = validated \union {<<f, draft[f]>>}
      BY <2>2 DEF validateDraft, readDraft
    <3>2. draft[f] \in Contents
      BY <3>1 DEF ManagerInv, ManagerTypes
    <3>3. validated \subseteq validated' /\ validated' \subseteq Drafts \X Contents
      BY <3>1, <3>2 DEF ManagerInv, ManagerTypes
    <3> QED
      BY <2>2, <3>3 DEF validateDraft, ManagerInv, ManagerTypes
  <2>3. CASE AnswerRequest
    BY <2>3 DEF AnswerRequest, ManagerInv, ManagerTypes
  <2> QED
    BY <2>1, <2>2, <2>3
<1>2. ManagerTypes'
  BY <1>1 DEF ManagerInv, ManagerTypes, projectVars
<1>3. RequestsAreValidated'
  BY <1>1 DEF ManagerInv, RequestsAreValidated, AtStep
<1>4. ASSUME ~interfered PROVE EnsureHolds'
  BY <1>1, <1>4 DEF ManagerInv, EnsureHolds, AtStep, Checked, projectVars
<1> QED
  BY <1>1, <1>2, <1>3, <1>4 DEF ManagerInv, projectVars

\* Every step keeps the invariant.
LEMMA ManagerStep ==
    ASSUME ManagerInv, [Next]_vars
    PROVE  ManagerInv'
<1>1. ManagerNext \/ UNCHANGED mVars
  BY StepOfOnePart
<1>2. CASE UNCHANGED mVars
  BY <1>2 DEF mVars, ManagerInv, ManagerTypes, RequestsAreValidated, EnsureHolds, AtStep, Checked
<1>3. ASSUME NEW c \in Clients, MakeDirectory(c) PROVE ManagerInv'
  <2>1. /\ AtStep(c, {"new"}) /\ UNCHANGED <<projects, ensured, interfered, draftVars>>
        /\ IF directory[manager[c].project] = None
           THEN directory' = [directory EXCEPT ![manager[c].project] = "empty"] /\ MoveTo(c, "init")
           ELSE EndManager(c) /\ UNCHANGED directory
    BY <1>3 DEF MakeDirectory
  <2>2. CASE directory[manager[c].project] = None
    <3>1. directory[manager[c].project] # "repository"
      BY <2>2, ManagerAssumption
    <3>2. AtStep(c, {"new", "init", "remote"})
      BY <2>1 DEF AtStep
    <3> QED
      BY <2>1, <2>2, <3>1, <3>2, MoveKeepsManager
  <2>3. CASE directory[manager[c].project] # None
    BY <2>1, <2>3, EndKeepsManager
  <2> QED
    BY <2>2, <2>3
<1>4. ASSUME NEW c \in Clients, InitRepository(c) PROVE ManagerInv'
  <2>1. /\ AtStep(c, {"init"}) /\ UNCHANGED <<projects, ensured, interfered, draftVars>>
        /\ \/ /\ directory' = [directory EXCEPT ![manager[c].project] = "repository"]
              /\ MoveTo(c, "register")
           \/ EndManager(c) /\ UNCHANGED directory
    BY <1>4 DEF InitRepository
  <2>2. AtStep(c, {"new", "init", "remote"})
    BY <2>1 DEF AtStep
  <2>3. CASE EndManager(c) /\ UNCHANGED directory
    BY <2>1, <2>3, EndKeepsManager
  <2>4. CASE /\ directory' = [directory EXCEPT ![manager[c].project] = "repository"]
             /\ MoveTo(c, "register")
    BY <2>1, <2>2, <2>4, MoveKeepsManager
  <2> QED
    BY <2>1, <2>3, <2>4
<1>5. ASSUME NEW c \in Clients, CloneProject(c) PROVE ManagerInv'
  <2> DEFINE k == manager[c].project
  <2>1. /\ AtStep(c, {"remote"}) /\ UNCHANGED <<projects, ensured, interfered, draftVars>>
        /\ \/ /\ directory' = [directory EXCEPT ![k] = "repository"]
              /\ MoveTo(c, "register")
           \/ /\ directory[k] = None
              /\ directory' = [directory EXCEPT ![k] = "empty"] /\ EndManager(c)
           \/ EndManager(c) /\ UNCHANGED directory
    BY <1>5 DEF CloneProject
  <2>2. AtStep(c, {"new", "init", "remote"}) /\ k \in Projects
    BY <2>1, ManagerAt DEF AtStep, ManagerInv, EnsureSteps
  <2>3. CASE EndManager(c) /\ UNCHANGED directory
    BY <2>1, <2>3, EndKeepsManager
  <2>4. CASE directory' = [directory EXCEPT ![k] = "repository"] /\ MoveTo(c, "register")
    BY <2>1, <2>2, <2>4, MoveKeepsManager
  <2>5. CASE directory[k] = None /\ directory' = [directory EXCEPT ![k] = "empty"] /\ EndManager(c)
    <3>1. directory' \in [Projects -> {None, "empty", "repository"}]
          /\ \A j \in Projects : directory'[j] = "repository" <=> directory[j] = "repository"
      BY <2>2, <2>5, ManagerAssumption DEF ManagerInv, ManagerTypes
    <3>2. ManagerTypes'
      BY <2>1, <2>5, <3>1, ManagerEnds DEF ManagerInv, ManagerTypes, draftVars
    <3>3. RequestsAreValidated'
      BY <2>1, <2>5, ManagerEnds DEF ManagerInv, RequestsAreValidated, AtStep, draftVars
    <3>4. ASSUME ~interfered PROVE EnsureHolds'
      <4>1. \A d \in Clients : AtStep(d, {"write"}) => manager[d].project \in Projects
        BY ManagerAt DEF ManagerInv, AtStep, EnsureSteps
      <4>2. \A d \in Clients : AtStep(d, {"write"})' =>
               directory'[manager'[d].project] = "repository" /\ manager'[d].registry = projects'
        <5>1. \A d \in Clients : AtStep(d, {"write"})' => AtStep(d, {"write"}) /\ manager'[d] = manager[d]
          BY <2>5, ManagerEnds DEF ManagerInv, AtStep
        <5>2. \A d \in Clients : AtStep(d, {"write"}) =>
                 directory[manager[d].project] = "repository" /\ manager[d].registry = projects
          BY <3>4 DEF ManagerInv, EnsureHolds
        <5> QED
          BY <2>1, <3>1, <4>1, <5>1, <5>2
      <4>3. \A j \in ensured' : projects'[j] # None /\ directory'[j] = "repository" /\ Checked(projects'[j])
        BY <2>1, <3>1, <3>4 DEF ManagerInv, ManagerTypes, EnsureHolds
      <4> QED
        BY <2>5, <3>4, <4>2, <4>3, ManagerEnds DEF ManagerInv, EnsureHolds, AtStep
    <3> QED
      BY <2>1, <3>2, <3>3, <3>4 DEF ManagerInv
  <2> QED
    BY <2>1, <2>3, <2>4, <2>5
<1>6. ASSUME NEW c \in Clients, ManagerDies(c) PROVE ManagerInv'
  BY <1>6, EndKeepsManager DEF ManagerDies, projectVars
<1> QED
  BY <1>1, <1>2, <1>3, <1>4, <1>5, <1>6, EnsureStarts, RegistryIsRead, RegistryIsWritten,
     DraftIsSubmitted, RequestIsPublished, DraftsMove DEF ManagerNext

\* Initially nothing is there.
LEMMA ManagerStart ==
    ASSUME ManagerInit
    PROVE  ManagerInv
  BY DEF ManagerInit, ManagerInv, ManagerTypes, Entries, RequestsAreValidated, EnsureHolds, AtStep

\* What the projects and the requests keep holds always.
LEMMA ManagerAlways == Spec => []ManagerInv
<1>1. Init => ManagerInv
  BY ManagerStart DEF Init
<1>2. ManagerInv /\ [Next]_vars => ManagerInv'
  BY ManagerStep
<1> QED
  BY <1>1, <1>2, PTL DEF Spec

\* QueuedIsValidated: no submission puts anything else into the queue than what was
\* reported VALID for the file, and none replaces what is there.
THEOREM QueueKeepsTheValidated == Spec => QueuedIsValidated
<1>1. ASSUME ManagerInv, ManagerInv', [Next]_vars
      PROVE  [\A f \in Drafts :
                 /\ requests'[f] # None => <<f, requests'[f]>> \in validated
                 /\ requests[f] # None => requests'[f] = requests[f]]_<<requests, validated>>
  <2>1. UNCHANGED requests \/ \E c \in Clients : PublishRequest(c)
    BY <1>1, StepOfOnePart
       DEF ManagerNext, ensureProject, MakeDirectory, InitRepository, CloneProject, readRegistry,
           register, submitDraft, ManagerDies, EditDraft, validateDraft, AnswerRequest, draftVars, mVars
  <2>2. \A f \in Drafts : requests[f] # None => <<f, requests[f]>> \in validated
    BY <1>1 DEF ManagerInv, RequestsAreValidated
  <2>3. CASE UNCHANGED requests
    BY <2>2, <2>3
  <2>4. ASSUME NEW c \in Clients, PublishRequest(c) 
        PROVE  \A f \in Drafts :
                 /\ requests'[f] # None => <<f, requests'[f]>> \in validated
                 /\ requests[f] # None => requests'[f] = requests[f]
    <3>1. /\ UNCHANGED validated
          /\ \/ UNCHANGED requests
             \/ /\ requests[manager[c].file] = None
                /\ requests' = [requests EXCEPT ![manager[c].file] = manager[c].value]
      BY <2>4 DEF PublishRequest
    <3>2. \A f \in Drafts : requests[f] # None => requests'[f] = requests[f]
      BY <1>1, <3>1 DEF ManagerInv, ManagerTypes
    <3>3. \A f \in Drafts : requests'[f] # None => <<f, requests'[f]>> \in validated
      BY <1>1, <3>1 DEF ManagerInv, RequestsAreValidated
    <3> QED
      BY <3>2, <3>3
  <2> QED
    BY <2>1, <2>3, <2>4
<1> QED
  BY <1>1, ManagerAlways, PTL DEF Spec, QueuedIsValidated

\* What an ensure has returned can be resolved and fetched, while nobody interfered.
LEMMA EnsuredAlways == Spec => [](~interfered => EnsuredIsResolvable)
<1>1. ASSUME ManagerInv, ~interfered PROVE EnsuredIsResolvable
  <2> SUFFICES ASSUME NEW k \in ensured
               PROVE  resolveProject(k) /\ (projects[k].mode = "remote" => fetchProject(k))
    BY DEF EnsuredIsResolvable
  <2>1. projects[k] # None /\ directory[k] = "repository" /\ Checked(projects[k]) /\ k \in Projects
    BY <1>1 DEF ManagerInv, ManagerTypes, EnsureHolds
  <2>2. projects[k] \in projectFromOptions
    BY <1>1, <2>1 DEF ManagerInv, ManagerTypes, Entries
  <2>3. projects[k].mode = "remote" => projects[k].remote # None
    BY <2>2, ManagerAssumption DEF projectFromOptions
  <2> QED
    BY <2>1, <2>3 DEF resolveProject, fetchProject, inspect, Checked
<1> QED
  BY <1>1, ManagerAlways, PTL

-----------------------------------------------------------------------------
(* Releases *)

Own      == {r \in RegistryRow : r.path \notin ReservedPaths}
Registry == [Keys -> Own \cup {None}]
Approval == [key : Keys, commit : Candidates, path : Paths]
Running  == [action : {"preflight", "deploy", "invoke", "verified"}, key : Keys, commit : Candidates,
             registry : Registry]
Deployed == [released : Approval, settled : BOOLEAN]
Deploys(c) == releaser[c] # None /\ releaser[c].action \in {"deploy", "invoke", "verified"}

ReleaseTypes ==
    /\ reservations \in Registry
    /\ approvals \subseteq Approval /\ reported \subseteq Approval
    /\ releaser \in [Clients -> Running \cup {None}]
    /\ deployments \in [Keys -> Seq(Deployed)]
    /\ overlapped \in BOOLEAN

\* A deployment is of a reservation, and one that runs or has run was approved.
DeploysTheApproved ==
    /\ \A c \in Clients : Deploys(c) => Existing(c) # None
    /\ \A c \in Clients : At(c, "invoke") \/ At(c, "verified") =>
          Released(releaser[c].key, Existing(c)) \in approvals
    /\ \A k \in Keys : \A i \in DOMAIN deployments[k] : deployments[k][i].released \in approvals

\* The registry, as long as the commands come one after the other: who has it read knows
\* what it says, each path is given once, each deployment is to the path of its key, and
\* after the one that was recorded comes no other.
RunsAlone ==
    /\ \A c, d \in Clients : releaser[c] # None /\ releaser[d] # None => c = d
    /\ \A c \in Clients : releaser[c] # None => releaser[c].registry = reservations
    /\ \A c \in Clients : Deploys(c) => reservations[releaser[c].key].status = "READY_TO_DEPLOY"

PathsAreApart ==
    \A k, l \in Keys :
        k # l /\ reservations[k] # None /\ reservations[l] # None =>
            reservations[k].path # reservations[l].path

DeployedIsReserved ==
    \A k \in Keys : \A i \in DOMAIN deployments[k] :
        /\ reservations[k] # None /\ deployments[k][i].released.path = reservations[k].path
        /\ deployments[k][i].settled => i = Len(deployments[k]) /\ reservations[k].status = "DEPLOYED"

OneByOne == RunsAlone /\ PathsAreApart /\ DeployedIsReserved /\ ReportedIsReserved

ReleaseInv == ReleaseTypes /\ DeploysTheApproved /\ (~overlapped => OneByOne)

\* Two numbers of paths: there is always a path that is neither reserved by the policy
\* nor used, because the key that asks for one has none yet.
LEMMA FreePathIsFree ==
    ASSUME NEW registry \in Registry, NEW k \in Keys, registry[k] = None
    PROVE  /\ FreePath(registry) \in Paths \ ReservedPaths
           /\ \A l \in Keys : registry[l] # None => registry[l].path # FreePath(registry)
<1> DEFINE taken == {l \in Keys : registry[l] # None}
           used  == {registry[l].path : l \in taken}
           all   == ReservedPaths \union used
           free  == Paths \ all
           nk    == Cardinality(Keys)
           nr    == Cardinality(ReservedPaths)
<1>1. IsFiniteSet(Keys) /\ IsFiniteSet(ReservedPaths) /\ nk \in Nat /\ nr \in Nat
  BY ReleaseAssumption, FS_CardinalityType
<1>2. IsFiniteSet(taken) /\ Cardinality(taken) \in Nat /\ Cardinality(taken) < nk
  <2>1. IsFiniteSet(Keys \ {k}) /\ Cardinality(Keys \ {k}) = nk - 1
    BY <1>1, FS_RemoveElement
  <2>2. taken \in SUBSET (Keys \ {k})
    OBVIOUS
  <2>3. IsFiniteSet(taken) /\ Cardinality(taken) <= nk - 1
    BY <2>1, <2>2, FS_Subset
  <2> QED
    BY <1>1, <2>3, FS_CardinalityType
<1>3. IsFiniteSet(used) /\ Cardinality(used) <= Cardinality(taken) /\ Cardinality(used) \in Nat
  <2> DEFINE f == [l \in taken |-> registry[l].path]
  <2>1. f \in Surjection(taken, used)
    BY DEF Surjection
  <2> HIDE DEF f, taken, used
  <2> QED
    BY <1>2, <2>1, FS_Surjection, FS_CardinalityType
<1> HIDE DEF taken, used
<1>4. IsFiniteSet(all) /\ Cardinality(all) \in Nat /\ Cardinality(all) < nr + nk
  <2>1. /\ IsFiniteSet(all)
        /\ Cardinality(all) = nr + Cardinality(used) - Cardinality(ReservedPaths \cap used)
    BY <1>1, <1>3, FS_Union
  <2>2. IsFiniteSet(ReservedPaths \cap used) /\ Cardinality(ReservedPaths \cap used) \in Nat
    BY <1>1, FS_Intersection, FS_CardinalityType
  <2>3. Cardinality(all) \in Nat
    BY <2>1, FS_CardinalityType
  <2> QED
    BY <1>1, <1>2, <1>3, <2>1, <2>2, <2>3
<1>5. IsFiniteSet(Paths) /\ Cardinality(Paths) = nk + nr
  <2>1. PICK n \in Nat : n = nk + nr
    BY <1>1
  <2>2. Paths = 1 .. n
    BY <2>1 DEF Paths
  <2>3. IsFiniteSet(1 .. n) /\ Cardinality(1 .. n) = IF 1 > n THEN 0 ELSE n - 1 + 1
    <3>1. \A a, b \in Int : IsFiniteSet(a .. b) /\ Cardinality(a .. b) = IF a > b THEN 0 ELSE b - a + 1
      BY FS_Interval, Zenon
    <3>2. 1 \in Int /\ n \in Int
      BY <2>1
    <3> QED
      BY <3>1, <3>2, Zenon
  <2> QED
    BY <2>1, <2>2, <2>3
<1> HIDE DEF all, nk, nr
<1>6. free # {}
  <2>1. SUFFICES ASSUME free = {} PROVE FALSE
    OBVIOUS
  <2>2. Paths \in SUBSET all
    BY <2>1
  <2>3. Cardinality(Paths) <= Cardinality(all)
    BY <1>4, <2>2, FS_Subset
  <2> QED
    BY <1>1, <1>4, <1>5, <2>3 DEF nk, nr
<1>7. free \in SUBSET Nat
  BY DEF Paths
<1>8. FreePath(registry) = CHOOSE p \in free : \A q \in free : p <= q
  BY DEF FreePath, free, all, used, taken
<1> HIDE DEF free
<1>9. \E p \in free : \A q \in free : p <= q
  BY <1>6, <1>7, LeastOfNat
<1>10. FreePath(registry) \in free
  BY <1>8, <1>9
<1> QED
  BY <1>10 DEF free, all, used, taken

\* What a running command holds.
LEMMA RunningHolds ==
    ASSUME ReleaseTypes, NEW c \in Clients, releaser[c] # None
    PROVE  /\ releaser[c] \in Running /\ releaser[c].key \in Keys /\ releaser[c].commit \in Candidates
           /\ releaser[c].registry \in Registry
           /\ Existing(c) \in Own \cup {None}
<1>1. releaser[c] \in Running
  BY DEF ReleaseTypes
<1>2. releaser[c].key \in Keys /\ releaser[c].commit \in Candidates /\ releaser[c].registry \in Registry
  BY <1>1 DEF Running
<1> QED
  BY <1>1, <1>2 DEF Existing, Registry

\* A reservation names an approval.
LEMMA ReleasedIsApproval ==
    ASSUME NEW k \in Keys, NEW r \in Own
    PROVE  Released(k, r) \in Approval /\ Released(k, r).path = r.path /\ Released(k, r).key = k
  BY DEF Released, Approval, Own, RegistryRow

\* A command that goes on keeps what it has read, or it ends.
Moves(c) ==
    /\ releaser' \in [Clients -> Running \cup {None}]
    /\ \A d \in Clients \ {c} : releaser'[d] = releaser[d]
    /\ \/ releaser'[c] = None
       \/ /\ releaser'[c].action \in {"invoke", "verified"}
          /\ releaser'[c].key = releaser[c].key /\ releaser'[c].registry = releaser[c].registry

\* A command that ends is one that moves and holds nothing more.
LEMMA EndMoves ==
    ASSUME ReleaseTypes, NEW c \in Clients, End(c)
    PROVE  Moves(c) /\ releaser'[c] = None
  BY DEF ReleaseTypes, End, Moves

\* A deployment goes on with the same key and the registry it has read.
LEMMA GoOnMoves ==
    ASSUME ReleaseTypes, NEW c \in Clients, releaser[c] # None, NEW a \in {"invoke", "verified"}, GoOn(c, a)
    PROVE  Moves(c)
<1>1. PICK r \in Running : r = releaser[c]
  BY RunningHolds
<1>2. /\ [r EXCEPT !.action = a] \in Running /\ [r EXCEPT !.action = a].action = a
      /\ [r EXCEPT !.action = a].key = r.key /\ [r EXCEPT !.action = a].registry = r.registry
  BY DEF Running
<1>3. releaser' = [releaser EXCEPT ![c] = [r EXCEPT !.action = a]]
  BY <1>1 DEF GoOn, ReleaseTypes
<1> QED
  BY <1>1, <1>2, <1>3 DEF ReleaseTypes, Moves

\* Whoever goes on towards a deployment was allowed to; the registry is as it was.
LEMMA MovesKeep ==
    ASSUME ReleaseInv, NEW c \in Clients, releaser[c] # None, Moves(c),
           \/ releaser'[c] = None
           \/ Deploys(c) /\ Released(releaser[c].key, Existing(c)) \in approvals,
           UNCHANGED <<reservations, approvals>>
    PROVE  /\ \A d \in Clients : Deploys(d)' => (Existing(d) # None)'
           /\ \A d \in Clients : At(d, "invoke")' \/ At(d, "verified")' =>
                 Released(releaser'[d].key, releaser'[d].registry[releaser'[d].key]) \in approvals'
           /\ ~overlapped => RunsAlone'
<1>1. \A d \in Clients \ {c} :
         /\ Deploys(d)' <=> Deploys(d)
         /\ At(d, "invoke")' \/ At(d, "verified")' <=> At(d, "invoke") \/ At(d, "verified")
         /\ releaser'[d].key = releaser[d].key /\ releaser'[d].registry = releaser[d].registry
  BY DEF Moves, Deploys, At
<1>2. releaser'[c] # None => /\ Deploys(c) /\ Released(releaser[c].key, Existing(c)) \in approvals
                             /\ releaser'[c].key = releaser[c].key
                             /\ releaser'[c].registry = releaser[c].registry
  BY DEF Moves
<1>3. \A d \in Clients : Deploys(d)' => (Existing(d) # None)'
  BY <1>1, <1>2 DEF ReleaseInv, DeploysTheApproved, Deploys, Existing
<1>4. ASSUME NEW d \in Clients, At(d, "invoke")' \/ At(d, "verified")'
      PROVE  Released(releaser'[d].key, releaser'[d].registry[releaser'[d].key]) \in approvals'
  <2>1. CASE d = c
    BY <1>2, <1>4, <2>1 DEF At, Existing
  <2>2. CASE d # c
    BY <1>1, <1>4, <2>2 DEF ReleaseInv, DeploysTheApproved, Existing
  <2> QED
    BY <2>1, <2>2
<1>5. ASSUME ~overlapped PROVE RunsAlone'
  <2>1. \A d \in Clients : releaser'[d] # None => releaser[d] # None
    BY DEF Moves
  <2>2. \A d \in Clients : releaser'[d] # None => /\ releaser'[d].key = releaser[d].key
                                                  /\ releaser'[d].registry = releaser[d].registry
                                                  /\ Deploys(d)' => Deploys(d)
    BY <1>1, <1>2
  <2>3. \A d \in Clients : Deploys(d)' => releaser'[d] # None
    BY DEF Deploys
  <2>4. RunsAlone
    BY <1>5 DEF ReleaseInv, OneByOne
  <2> QED
    BY <2>1, <2>2, <2>3, <2>4 DEF RunsAlone
<1> QED
  BY <1>3, <1>4, <1>5

\* A command begins with the registry as it is.
LEMMA ReleaseBegins ==
    ASSUME ReleaseInv, NEW c \in Clients, NEW a \in {"preflight", "deploy"}, NEW k \in Keys,
           NEW m \in Candidates, Begin(c, a, k, m),
           a = "deploy" => reservations[k] # None /\ reservations[k].status = "READY_TO_DEPLOY",
           UNCHANGED <<reservations, approvals, reported, deployments>>
    PROVE  ReleaseInv'
<1> DEFINE held == [action |-> a, key |-> k, commit |-> m, registry |-> reservations]
<1>1. /\ releaser[c] = None /\ releaser' = [releaser EXCEPT ![c] = held]
      /\ overlapped' = (overlapped \/ \E d \in Clients : releaser[d] # None)
  BY DEF Begin
<1>2. held \in Running /\ held.action = a /\ held.key = k /\ held.registry = reservations
  BY DEF ReleaseInv, ReleaseTypes, Running
<1> HIDE DEF held
<1>3. /\ releaser' \in [Clients -> Running \cup {None}] /\ releaser'[c] = held
      /\ \A d \in Clients \ {c} : releaser'[d] = releaser[d]
  BY <1>1, <1>2 DEF ReleaseInv, ReleaseTypes
<1>4. ReleaseTypes'
  BY <1>1, <1>3 DEF ReleaseInv, ReleaseTypes
<1>5. DeploysTheApproved'
  <2>1. \A d \in Clients : Deploys(d)' => (Existing(d) # None)'
    BY <1>2, <1>3 DEF ReleaseInv, DeploysTheApproved, Deploys, Existing
  <2>2. \A d \in Clients : At(d, "invoke")' \/ At(d, "verified")' =>
           d # c /\ (At(d, "invoke") \/ At(d, "verified"))
    BY <1>2, <1>3 DEF At
  <2> QED
    BY <1>3, <2>1, <2>2 DEF ReleaseInv, DeploysTheApproved, Existing
<1>6. ASSUME ~overlapped' PROVE OneByOne'
  <2>1. ~overlapped /\ \A d \in Clients : releaser[d] = None
    BY <1>1, <1>6
  <2>2. RunsAlone'
    BY <1>2, <1>3, <2>1 DEF RunsAlone, Deploys
  <2>3. OneByOne
    BY <2>1 DEF ReleaseInv
  <2>4. PathsAreApart' /\ DeployedIsReserved' /\ ReportedIsReserved'
    BY <2>3 DEF OneByOne, PathsAreApart, DeployedIsReserved, ReportedIsReserved
  <2> QED
    BY <2>2, <2>4 DEF OneByOne
<1> QED
  BY <1>4, <1>5, <1>6 DEF ReleaseInv

\* A command ends, or a deployment goes on with its approval; a preflight may have
\* returned what it found.
LEMMA MoveKeepsRelease ==
    ASSUME ReleaseInv, NEW c \in Clients, releaser[c] # None, Moves(c),
           \/ releaser'[c] = None
           \/ Deploys(c) /\ Released(releaser[c].key, Existing(c)) \in approvals,
           \/ reported' = reported
           \/ Existing(c) # None /\ reported' = reported \union {Released(releaser[c].key, Existing(c))},
           UNCHANGED <<reservations, approvals, deployments, overlapped>>
    PROVE  ReleaseInv'
<1> DEFINE r == Released(releaser[c].key, Existing(c))
<1>1. reported' \subseteq Approval
  BY RunningHolds, ReleasedIsApproval DEF ReleaseInv, ReleaseTypes
<1>2. ReleaseTypes'
  BY <1>1 DEF ReleaseInv, ReleaseTypes, Moves
<1>3. DeploysTheApproved'
  BY MovesKeep DEF ReleaseInv, DeploysTheApproved, Existing
<1>4. ASSUME ~overlapped PROVE OneByOne'
  <2>1. RunsAlone'
    BY <1>4, MovesKeep
  <2>2. OneByOne
    BY <1>4 DEF ReleaseInv
  <2>3. PathsAreApart' /\ DeployedIsReserved'
    BY <2>2 DEF OneByOne, PathsAreApart, DeployedIsReserved
  <2>4. Existing(c) = reservations[releaser[c].key]
    BY <2>2 DEF OneByOne, RunsAlone, Existing
  <2>5. r.key = releaser[c].key
    BY DEF Released
  <2> HIDE DEF r
  <2>6. ASSUME NEW s \in reported'
        PROVE  reservations[s.key] # None /\ Released(s.key, reservations[s.key]) = s
    <3>1. CASE s \in reported
      BY <2>2, <3>1 DEF OneByOne, ReportedIsReserved
    <3>2. CASE s = r /\ Existing(c) # None
      BY <2>4, <2>5, <3>2 DEF r
    <3> QED
      BY <2>6, <3>1, <3>2 DEF r
  <2>7. ReportedIsReserved'
    BY <2>6 DEF ReportedIsReserved
  <2> QED
    BY <2>1, <2>3, <2>7 DEF OneByOne
<1> QED
  BY <1>2, <1>3, <1>4 DEF ReleaseInv

\* With one command at a time, the one that ends leaves none behind.
LEMMA NobodyLeft ==
    ASSUME ReleaseInv, ~overlapped, NEW c \in Clients, releaser[c] # None, End(c)
    PROVE  \A d \in Clients : releaser'[d] = None
<1>1. RunsAlone /\ Moves(c) /\ releaser'[c] = None
  BY EndMoves DEF ReleaseInv, OneByOne
<1> QED
  BY <1>1 DEF RunsAlone, Moves

\* A new reservation gets a free path.
LEMMA Reserves ==
    ASSUME ReleaseInv, NEW c \in Clients, PreflightReserve(c)
    PROVE  ReleaseInv'
<1> DEFINE k == releaser[c].key
           r == Reservation(releaser[c].commit, FreePath(releaser[c].registry), "READY_TO_DEPLOY")
           s == Released(k, r)
<1>1. /\ At(c, "preflight") /\ Existing(c) = None
      /\ reservations' = [releaser[c].registry EXCEPT ![k] = r]
      /\ reported' = reported \union {s}
      /\ End(c)
      /\ UNCHANGED <<approvals, deployments, overlapped>>
  BY DEF PreflightReserve, writeRegistry
<1>2. releaser[c] # None /\ k \in Keys /\ releaser[c].commit \in Candidates /\ releaser[c].registry \in Registry
  BY <1>1, RunningHolds DEF At, ReleaseInv
<1>3. releaser[c].registry[k] = None
  BY <1>1 DEF Existing
<1>4. /\ FreePath(releaser[c].registry) \in Paths \ ReservedPaths
      /\ \A l \in Keys : releaser[c].registry[l] # None =>
            releaser[c].registry[l].path # FreePath(releaser[c].registry)
  BY <1>2, <1>3, FreePathIsFree
<1>5. r \in Own /\ r.path = FreePath(releaser[c].registry)
  BY <1>2, <1>4 DEF Own, RegistryRow, Reservation
<1>6. r # None
  BY <1>5, ReleaseAssumption DEF Own
<1> HIDE DEF k, r
<1>7. s \in Approval /\ s.key = k
  BY <1>2, <1>5, ReleasedIsApproval
<1> HIDE DEF s
<1>8. reservations' \in Registry /\ reservations'[k] = r
      /\ \A l \in Keys \ {k} : reservations'[l] = releaser[c].registry[l]
  BY <1>1, <1>2, <1>5 DEF Registry
<1>9. ReleaseTypes' /\ Moves(c) /\ releaser'[c] = None
  BY <1>1, <1>7, <1>8, EndMoves DEF ReleaseInv, ReleaseTypes, Moves
<1>10. DeploysTheApproved'
  BY <1>1, <1>9 DEF ReleaseInv, DeploysTheApproved, Deploys, At, Existing, Moves
<1>11. ASSUME ~overlapped PROVE OneByOne'
  <2>1. OneByOne /\ releaser[c].registry = reservations
    BY <1>2, <1>11 DEF ReleaseInv, OneByOne, RunsAlone
  <2>2. reservations[k] = None /\ \A l \in Keys \ {k} : reservations'[l] = reservations[l]
    BY <1>3, <1>8, <2>1 DEF k
  <2>3. \A d \in Clients : releaser'[d] = None
    BY <1>1, <1>2, <1>11, NobodyLeft
  <2>4. RunsAlone'
    BY <2>3 DEF RunsAlone, Deploys
  <2>5. PathsAreApart'
    <3>1. \A l \in Keys \ {k} : reservations'[l] # None => reservations'[l].path # r.path
      BY <1>4, <1>5, <2>1, <2>2
    <3> QED
      BY <1>8, <2>1, <2>2, <3>1 DEF OneByOne, PathsAreApart
  <2>6. DeployedIsReserved'
    BY <1>1, <2>1, <2>2 DEF OneByOne, DeployedIsReserved
  <2>7. ASSUME NEW q \in reported'
        PROVE  reservations'[q.key] # None /\ Released(q.key, reservations'[q.key]) = q
    <3>1. CASE q \in reported
      <4>1. /\ reservations[q.key] # None /\ Released(q.key, reservations[q.key]) = q
            /\ q.key \in Keys
        BY <2>1, <3>1 DEF OneByOne, ReportedIsReserved, ReleaseInv, ReleaseTypes, Approval
      <4> QED
        BY <2>2, <4>1
    <3>2. CASE q = s
      BY <1>6, <1>7, <1>8, <3>2 DEF s
    <3> QED
      BY <1>1, <3>1, <3>2
  <2>8. ReportedIsReserved'
    BY <2>7 DEF ReportedIsReserved
  <2> QED
    BY <2>4, <2>5, <2>6, <2>8 DEF OneByOne
<1> QED
  BY <1>1, <1>9, <1>10, <1>11 DEF ReleaseInv

\* The deployment runs; the registry is not touched.
LEMMA Invokes ==
    ASSUME ReleaseInv, NEW c \in Clients, Invoke(c)
    PROVE  ReleaseInv'
<1> DEFINE k == releaser[c].key
           d == [released |-> Released(k, Existing(c)), settled |-> FALSE]
<1>1. /\ At(c, "invoke") /\ (GoOn(c, "verified") \/ End(c))
      /\ deployments' = [deployments EXCEPT ![k] = Append(@, d)]
      /\ UNCHANGED <<reservations, approvals, reported, overlapped>>
  BY DEF Invoke
<1>2. releaser[c] # None /\ k \in Keys /\ Deploys(c) /\ Existing(c) \in Own \cup {None}
  BY <1>1, RunningHolds DEF At, Deploys, ReleaseInv
<1>3. Existing(c) # None /\ Released(k, Existing(c)) \in approvals
  BY <1>1, <1>2 DEF ReleaseInv, DeploysTheApproved
<1>4. Moves(c)
  BY <1>1, <1>2, EndMoves, GoOnMoves DEF ReleaseInv
<1>5. d \in Deployed /\ d.released = Released(k, Existing(c)) /\ d.settled = FALSE
      /\ d.released \in approvals /\ d.released.path = Existing(c).path
  BY <1>2, <1>3, ReleasedIsApproval DEF Deployed
<1> HIDE DEF d
<1>6. PICK s \in Seq(Deployed) : s = deployments[k]
  BY <1>2 DEF ReleaseInv, ReleaseTypes
<1>7. /\ deployments' \in [Keys -> Seq(Deployed)] /\ deployments'[k] = Append(s, d)
      /\ \A l \in Keys \ {k} : deployments'[l] = deployments[l]
  BY <1>1, <1>2, <1>5, <1>6 DEF ReleaseInv, ReleaseTypes
<1> HIDE DEF k
<1>8. /\ DOMAIN Append(s, d) = 1 .. Len(s) + 1 /\ Len(Append(s, d)) = Len(s) + 1 /\ Len(s) \in Nat
      /\ \A i \in 1 .. Len(s) : Append(s, d)[i] = s[i]
      /\ Append(s, d)[Len(s) + 1] = d
      /\ DOMAIN s = 1 .. Len(s)
  BY <1>5, AppendProperties
<1>9. \A i \in DOMAIN deployments'[k] :
         (i \in DOMAIN s /\ deployments'[k][i] = s[i]) \/ deployments'[k][i] = d
  BY <1>7, <1>8
<1>10. ReleaseTypes'
  BY <1>1, <1>4, <1>7 DEF ReleaseInv, ReleaseTypes, Moves
<1>11. DeploysTheApproved'
  <2>1. /\ \A e \in Clients : Deploys(e)' => (Existing(e) # None)'
        /\ \A e \in Clients : At(e, "invoke")' \/ At(e, "verified")' =>
              Released(releaser'[e].key, releaser'[e].registry[releaser'[e].key]) \in approvals'
    BY <1>1, <1>2, <1>3, <1>4, MovesKeep DEF k
  <2>2. ASSUME NEW l \in Keys, NEW i \in DOMAIN deployments'[l]
        PROVE  deployments'[l][i].released \in approvals'
    <3>1. CASE l = k
      BY <1>1, <1>5, <1>6, <1>9, <2>2, <3>1 DEF ReleaseInv, DeploysTheApproved
    <3>2. CASE l # k
      BY <1>1, <1>7, <2>2, <3>2 DEF ReleaseInv, DeploysTheApproved
    <3> QED
      BY <3>1, <3>2
  <2> QED
    BY <2>1, <2>2 DEF DeploysTheApproved, Existing
<1>12. ASSUME ~overlapped PROVE OneByOne'
  <2>1. OneByOne
    BY <1>12 DEF ReleaseInv
  <2>2. RunsAlone'
    BY <1>1, <1>2, <1>3, <1>4, <1>12, MovesKeep DEF k
  <2>3. Existing(c) = reservations[k] /\ reservations[k].status = "READY_TO_DEPLOY"
    BY <1>2, <2>1 DEF OneByOne, RunsAlone, Existing, k
  <2>4. ASSUME NEW l \in Keys, NEW i \in DOMAIN deployments'[l]
        PROVE  /\ reservations[l] # None /\ deployments'[l][i].released.path = reservations[l].path
               /\ deployments'[l][i].settled => i = Len(deployments'[l]) /\ reservations[l].status = "DEPLOYED"
    <3>1. CASE l # k
      BY <1>7, <2>1, <2>4, <3>1 DEF OneByOne, DeployedIsReserved
    <3>2. CASE l = k /\ deployments'[k][i] = d
      BY <1>3, <1>5, <2>3, <3>2
    <3>3. CASE l = k /\ i \in DOMAIN s /\ deployments'[k][i] = s[i]
      BY <1>6, <2>1, <2>3, <3>3 DEF OneByOne, DeployedIsReserved
    <3> QED
      BY <1>9, <2>4, <3>1, <3>2, <3>3
  <2>5. DeployedIsReserved'
    BY <1>1, <2>4 DEF DeployedIsReserved
  <2>6. PathsAreApart' /\ ReportedIsReserved'
    BY <1>1, <2>1 DEF OneByOne, PathsAreApart, ReportedIsReserved
  <2> QED
    BY <2>2, <2>5, <2>6 DEF OneByOne
<1> QED
  BY <1>1, <1>10, <1>11, <1>12 DEF ReleaseInv

\* The deployment is recorded: the registry that was read is written with the new status.
LEMMA Records ==
    ASSUME ReleaseInv, NEW c \in Clients, DeployWrites(c)
    PROVE  ReleaseInv'
<1> DEFINE k == releaser[c].key
           r == [Existing(c) EXCEPT !.status = "DEPLOYED"]
           settle(s) == [i \in DOMAIN s |-> IF i = Len(s) THEN [s[i] EXCEPT !.settled = TRUE] ELSE s[i]]
<1>1. /\ At(c, "verified") /\ End(c)
      /\ reservations' = [releaser[c].registry EXCEPT ![k] = r]
      /\ deployments' = [deployments EXCEPT ![k] = settle(deployments[k])]
      /\ UNCHANGED <<approvals, reported, overlapped>>
  BY DEF DeployWrites, writeRegistry, ReleaseInv, ReleaseTypes
<1>2. releaser[c] # None /\ k \in Keys /\ Deploys(c) /\ Existing(c) \in Own \cup {None}
      /\ releaser[c].registry \in Registry
  BY <1>1, RunningHolds DEF At, Deploys, ReleaseInv
<1>3. Existing(c) # None /\ Existing(c) \in Own
  BY <1>2 DEF ReleaseInv, DeploysTheApproved
<1>4. /\ r \in Own /\ r.path = Existing(c).path /\ r.status = "DEPLOYED"
      /\ \A j : Released(j, r) = Released(j, Existing(c))
  BY <1>3 DEF Own, RegistryRow, Released
<1>5. r # None
  BY <1>4, ReleaseAssumption DEF Own
<1> HIDE DEF r
<1>6. PICK s \in Seq(Deployed) : s = deployments[k]
  BY <1>2 DEF ReleaseInv, ReleaseTypes
<1>7. /\ settle(s) \in Seq(Deployed) /\ Len(settle(s)) = Len(s) /\ DOMAIN settle(s) = DOMAIN s
      /\ \A i \in DOMAIN s : /\ settle(s)[i].released = s[i].released
                             /\ settle(s)[i].settled => s[i].settled \/ i = Len(s)
  <2>1. Len(s) \in Nat /\ DOMAIN s = 1 .. Len(s) /\ s \in [1 .. Len(s) -> Deployed]
    BY LenProperties
  <2>2. \A e \in Deployed : /\ [e EXCEPT !.settled = TRUE] \in Deployed
                            /\ [e EXCEPT !.settled = TRUE].released = e.released
    BY DEF Deployed
  <2>3. settle(s) \in [1 .. Len(s) -> Deployed]
    BY <2>1, <2>2
  <2>4. settle(s) \in Seq(Deployed) /\ Len(settle(s)) = Len(s) /\ DOMAIN settle(s) = DOMAIN s
    <3> HIDE DEF settle
    <3> QED
      BY <2>1, <2>3, SeqDef, LenProperties
  <2> QED
    BY <2>1, <2>2, <2>4
<1> HIDE DEF settle
<1>8. /\ deployments' \in [Keys -> Seq(Deployed)] /\ deployments'[k] = settle(s)
      /\ \A l \in Keys \ {k} : deployments'[l] = deployments[l]
  BY <1>1, <1>2, <1>6, <1>7 DEF ReleaseInv, ReleaseTypes
<1> HIDE DEF k
<1>9. reservations' \in Registry /\ reservations'[k] = r
      /\ \A l \in Keys \ {k} : reservations'[l] = releaser[c].registry[l]
  BY <1>1, <1>2, <1>4 DEF Registry
<1>10. ReleaseTypes' /\ Moves(c) /\ releaser'[c] = None
  BY <1>1, <1>8, <1>9, EndMoves DEF ReleaseInv, ReleaseTypes, Moves
<1>11. DeploysTheApproved'
  <2>1. /\ \A e \in Clients : Deploys(e)' => (Existing(e) # None)'
        /\ \A e \in Clients : At(e, "invoke")' \/ At(e, "verified")' =>
              (Released(releaser[e].key, Existing(e)) \in approvals)'
    BY <1>1, <1>10 DEF ReleaseInv, DeploysTheApproved, Deploys, At, Existing, Moves
  <2>2. ASSUME NEW l \in Keys, NEW i \in DOMAIN deployments'[l]
        PROVE  deployments'[l][i].released \in approvals'
    <3>1. CASE l = k
      BY <1>1, <1>6, <1>7, <1>8, <2>2, <3>1 DEF ReleaseInv, DeploysTheApproved
    <3>2. CASE l # k
      BY <1>1, <1>8, <2>2, <3>2 DEF ReleaseInv, DeploysTheApproved
    <3> QED
      BY <3>1, <3>2
  <2> QED
    BY <2>1, <2>2 DEF DeploysTheApproved
<1>12. ASSUME ~overlapped PROVE OneByOne'
  <2>1. OneByOne /\ releaser[c].registry = reservations
    BY <1>2, <1>12 DEF ReleaseInv, OneByOne, RunsAlone
  <2>2. Existing(c) = reservations[k] /\ reservations[k].status = "READY_TO_DEPLOY"
    BY <1>2, <2>1 DEF OneByOne, RunsAlone, Existing, k
  <2>3. \A l \in Keys \ {k} : reservations'[l] = reservations[l]
    BY <1>9, <2>1
  <2>4. \A d \in Clients : releaser'[d] = None
    BY <1>1, <1>2, <1>12, NobodyLeft
  <2>5. RunsAlone'
    BY <2>4 DEF RunsAlone, Deploys
  <2>6. \A l \in Keys : /\ reservations'[l] # None <=> reservations[l] # None
                        /\ reservations'[l].path = reservations[l].path
                        /\ Released(l, reservations'[l]) = Released(l, reservations[l])
    BY <1>3, <1>4, <1>5, <1>9, <2>2, <2>3
  <2>7. PathsAreApart'
    BY <2>1, <2>6 DEF OneByOne, PathsAreApart
  <2>8. ASSUME NEW l \in Keys, NEW i \in DOMAIN deployments'[l]
        PROVE  /\ reservations'[l] # None /\ deployments'[l][i].released.path = reservations'[l].path
               /\ deployments'[l][i].settled =>
                     i = Len(deployments'[l]) /\ reservations'[l].status = "DEPLOYED"
    <3>1. CASE l # k
      BY <1>8, <2>1, <2>3, <2>8, <3>1 DEF OneByOne, DeployedIsReserved
    <3>2. CASE l = k
      <4>1. i \in DOMAIN s /\ ~s[i].settled /\ s[i].released.path = reservations[k].path
        BY <1>6, <1>7, <1>8, <2>1, <2>2, <2>8, <3>2 DEF OneByOne, DeployedIsReserved
      <4>2. deployments'[k][i].released.path = reservations'[k].path
        BY <1>7, <1>8, <2>6, <3>2, <4>1
      <4>3. deployments'[k][i].settled => i = Len(deployments'[k])
        BY <1>7, <1>8, <4>1
      <4> QED
        BY <1>4, <1>5, <1>9, <3>2, <4>2, <4>3
    <3> QED
      BY <3>1, <3>2
  <2>9. DeployedIsReserved'
    BY <2>8 DEF DeployedIsReserved
  <2>10. ASSUME NEW q \in reported
         PROVE  reservations'[q.key] # None /\ Released(q.key, reservations'[q.key]) = q
    <3>1. /\ reservations[q.key] # None /\ Released(q.key, reservations[q.key]) = q
          /\ q.key \in Keys
      BY <2>1 DEF OneByOne, ReportedIsReserved, ReleaseInv, ReleaseTypes, Approval
    <3> QED
      BY <2>6, <3>1
  <2>11. ReportedIsReserved'
    BY <1>1, <2>10 DEF ReportedIsReserved
  <2> QED
    BY <2>5, <2>7, <2>9, <2>11 DEF OneByOne
<1> QED
  BY <1>1, <1>10, <1>11, <1>12 DEF ReleaseInv

\* The human approves any path for what a preflight has returned.
LEMMA Approves ==
    ASSUME ReleaseInv, ApproveDeployment
    PROVE  ReleaseInv'
<1>1. PICK q \in reported, p \in Paths : approvals' = approvals \union {[q EXCEPT !.path = p]}
  BY DEF ApproveDeployment
<1>2. UNCHANGED <<reservations, releaser, reported, deployments, overlapped>>
  BY DEF ApproveDeployment, rVars
<1>3. [q EXCEPT !.path = p] \in Approval
  BY <1>1 DEF ReleaseInv, ReleaseTypes, Approval
<1>4. ReleaseTypes'
  BY <1>1, <1>2, <1>3 DEF ReleaseInv, ReleaseTypes
<1>5. approvals \subseteq approvals'
  BY <1>1
<1>6. DeploysTheApproved'
  BY <1>2, <1>5 DEF ReleaseInv, DeploysTheApproved, Deploys, At, Existing
<1>7. ASSUME ~overlapped PROVE OneByOne'
  BY <1>2, <1>7 DEF ReleaseInv, OneByOne, RunsAlone, PathsAreApart, DeployedIsReserved,
                    ReportedIsReserved, Deploys
<1> QED
  BY <1>2, <1>4, <1>6, <1>7 DEF ReleaseInv

\* Nothing is reserved, approved or deployed at first,
LEMMA ReleaseStart == Init => ReleaseInv
<1> SUFFICES ASSUME ReleaseInit PROVE ReleaseInv
  BY DEF Init
<1>1. ReleaseTypes
  <2>1. deployments \in [Keys -> Seq(Deployed)]
    BY EmptySeq DEF ReleaseInit
  <2> QED
    BY <2>1 DEF ReleaseInit, ReleaseTypes, Registry
<1>2. DeploysTheApproved /\ OneByOne
  BY DEF ReleaseInit, DeploysTheApproved, Deploys, At, OneByOne, RunsAlone, PathsAreApart,
         DeployedIsReserved, ReportedIsReserved
<1>3. overlapped = FALSE
  BY DEF ReleaseInit
<1> QED
  BY <1>1, <1>2, <1>3 DEF ReleaseInv

\* every command of release-control keeps the invariant,
LEMMA ReleaseStep ==
    ASSUME ReleaseInv, ReleaseNext
    PROVE  ReleaseInv'
<1>1. ASSUME NEW c \in Clients, preflight(c) PROVE ReleaseInv'
  BY <1>1, ReleaseBegins DEF preflight
<1>2. ASSUME NEW c \in Clients, PreflightExisting(c) PROVE ReleaseInv'
  <2>1. /\ releaser[c] # None /\ Existing(c) # None /\ End(c)
        /\ \/ reported' = reported
           \/ reported' = reported \union {Released(releaser[c].key, Existing(c))}
        /\ UNCHANGED <<reservations, approvals, deployments, overlapped>>
    BY <1>2 DEF PreflightExisting, At
  <2>2. Moves(c) /\ releaser'[c] = None
    BY <2>1, EndMoves DEF ReleaseInv
  <2> QED
    BY <2>1, <2>2, MoveKeepsRelease
<1>3. ASSUME NEW c \in Clients, PreflightReserve(c) PROVE ReleaseInv'
  BY <1>3, Reserves
<1>4. ASSUME NEW c \in Clients, deploy(c) PROVE ReleaseInv'
  BY <1>4, ReleaseBegins DEF deploy
<1>5. ASSUME NEW c \in Clients, RequireApproval(c) PROVE ReleaseInv'
  <2>1. /\ releaser[c] # None /\ Deploys(c)
        /\ UNCHANGED <<reservations, approvals, reported, deployments, overlapped>>
    BY <1>5 DEF RequireApproval, At, Deploys
  <2>2. CASE approvedDeployment(c) /\ GoOn(c, "invoke")
    <3>1. Moves(c)
      BY <2>1, <2>2, GoOnMoves DEF ReleaseInv
    <3> QED
      BY <2>1, <2>2, <3>1, MoveKeepsRelease DEF approvedDeployment
  <2>3. CASE End(c)
    <3>1. Moves(c) /\ releaser'[c] = None
      BY <2>3, EndMoves DEF ReleaseInv
    <3> QED
      BY <2>1, <3>1, MoveKeepsRelease
  <2> QED
    BY <1>5, <2>2, <2>3 DEF RequireApproval
<1>6. ASSUME NEW c \in Clients, Invoke(c) PROVE ReleaseInv'
  BY <1>6, Invokes
<1>7. ASSUME NEW c \in Clients, DeployWrites(c) PROVE ReleaseInv'
  BY <1>7, Records
<1>8. ASSUME NEW c \in Clients, ReleaserDies(c) PROVE ReleaseInv'
  <2>1. Moves(c) /\ releaser'[c] = None
    BY <1>8, EndMoves DEF ReleaserDies, ReleaseInv
  <2> QED
    BY <1>8, <2>1, MoveKeepsRelease DEF ReleaserDies
<1>9. CASE ApproveDeployment
  BY <1>9, Approves
<1> QED
  BY <1>1, <1>2, <1>3, <1>4, <1>5, <1>6, <1>7, <1>8, <1>9 DEF ReleaseNext

\* and so does every step of the whole.
LEMMA ReleaseAlways == Spec => []ReleaseInv
<1>1. ReleaseInv /\ [Next]_vars => ReleaseInv'
  <2> SUFFICES ASSUME ReleaseInv, [Next]_vars PROVE ReleaseInv'
    OBVIOUS
  <2>1. CASE ReleaseNext
    BY <2>1, ReleaseStep
  <2>2. CASE UNCHANGED rVars
    BY <2>2 DEF rVars, ReleaseInv, ReleaseTypes, DeploysTheApproved, Deploys, At, Existing,
         OneByOne, RunsAlone, PathsAreApart, DeployedIsReserved, ReportedIsReserved
  <2> QED
    BY <2>1, <2>2, StepOfOnePart
<1> QED
  BY <1>1, ReleaseStart, PTL DEF Spec

\* DeploymentsAccounted: whatever deploy runs the entrypoint with was approved, and while
\* commands come one after the other, no path is given to two workflows and a recorded
\* deployment is the last of its workflow.
THEOREM DeploymentsAccounted == Spec => []DeploymentsAreAccounted
<1>1. ASSUME ReleaseInv PROVE DeploymentsAreAccounted
  <2>1. \A k \in Keys : \A i \in DOMAIN deployments[k] : deployments[k][i].released \in approvals
    BY <1>1 DEF ReleaseInv, DeploysTheApproved
  <2>2. ~overlapped => PathsAreApart /\ DeployedIsReserved
    BY <1>1 DEF ReleaseInv, OneByOne
  <2> QED
    BY <2>1, <2>2 DEF DeploymentsAreAccounted, PathsAreApart, DeployedIsReserved
<1> QED
  BY <1>1, ReleaseAlways, PTL

\* RegistriesKept: while the commands on a registry come one after the other, it keeps
\* every reservation that preflight and every project that ensureProject has returned.
THEOREM RegistriesKept == Spec => []RegistriesKeepWhatTheyReported
<1>1. ReleaseInv => (~overlapped => ReportedIsReserved)
  BY DEF ReleaseInv, OneByOne
<1>2. (~overlapped => ReportedIsReserved) /\ (~interfered => EnsuredIsResolvable)
         => RegistriesKeepWhatTheyReported
  BY DEF RegistriesKeepWhatTheyReported
<1> QED
  BY <1>1, <1>2, ReleaseAlways, EnsuredAlways, PTL

-----------------------------------------------------------------------------
(* Reviews *)

Ids      == {s.id : s \in candidates}
Statuses == {"PENDING", "RUNNING", "SUCCEEDED", "FAILED"}
Reports  == {parseHrAgentOutput(o) : o \in AgentOutputs}
HrRow    == [review : Ids, status : Statuses, result : Reports \cup {None}]
Holding  == [by : Clients, jobs : SUBSET Nat, reviewing : BOOLEAN]

HrTypes ==
    /\ hrJobs \in Seq(HrRow)
    /\ writer \in Clients \cup {None}
    /\ loops \in [Loops -> Holding \cup {None}]

\* Each session has one job, and the ones that have succeeded are those with a report.
JobsAreKept ==
    /\ \A i, j \in DOMAIN hrJobs : hrJobs[i].review = hrJobs[j].review => i = j
    /\ \A j \in DOMAIN hrJobs : hrJobs[j].status = "SUCCEEDED" <=> hrJobs[j].result # None

\* The only loop is one of the writer, and none of the jobs it still has has succeeded.
OneLoop ==
    /\ \A l \in Loops : loops[l] # None => loops[l].by = writer
    /\ \A k, l \in Loops : loops[k] # None /\ loops[l] # None => k = l
    /\ \A l \in Loops : loops[l] # None =>
          /\ \A j \in loops[l].jobs : j \in DOMAIN hrJobs /\ hrJobs[j].status # "SUCCEEDED"
          /\ loops[l].reviewing => loops[l].jobs # {}

HrInv == HrTypes /\ JobsAreKept /\ OneLoop

ReviewKept ==
    \A j \in DOMAIN hrJobs : hrJobs[j].status = "SUCCEEDED" =>
        hrJobs'[j].status = "SUCCEEDED" /\ hrJobs'[j].result = hrJobs[j].result

\* What a patch of a job does.
LEMMA Updates ==
    ASSUME HrTypes, NEW j \in DOMAIN hrJobs, NEW status \in Statuses,
           NEW result \in Reports \cup {None}, updateHrJob(j, status, result)
    PROVE  /\ hrJobs' \in Seq(HrRow) /\ DOMAIN hrJobs' = DOMAIN hrJobs
           /\ hrJobs'[j].review = hrJobs[j].review
           /\ hrJobs'[j].status = status /\ hrJobs'[j].result = result
           /\ \A i \in DOMAIN hrJobs \ {j} : hrJobs'[i] = hrJobs[i]
<1>1. PICK s \in Seq(HrRow) : s = hrJobs
  BY DEF HrTypes
<1>2. DOMAIN s = 1 .. Len(s) /\ s[j] \in HrRow
  BY <1>1, LenProperties
<1> DEFINE r == [[s[j] EXCEPT !.status = status] EXCEPT !.result = result]
<1>3. r \in HrRow /\ r.review = s[j].review /\ r.status = status /\ r.result = result
  BY <1>2 DEF HrRow
<1>4. hrJobs' = [s EXCEPT ![j] = r]
  BY <1>1, <1>2 DEF updateHrJob
<1> HIDE DEF r
<1>5. /\ hrJobs' \in Seq(HrRow) /\ Len(hrJobs') = Len(s)
      /\ \A i \in 1 .. Len(s) : hrJobs'[i] = IF i = j THEN r ELSE s[i]
  BY <1>1, <1>2, <1>3, <1>4, ExceptSeq
<1>6. DOMAIN hrJobs' = 1 .. Len(s)
  BY <1>5, LenProperties
<1> QED
  BY <1>1, <1>2, <1>3, <1>5, <1>6

\* The next job is one that the loop still has.
LEMMA NextJobIsHeld ==
    ASSUME HrInv, NEW l \in Loops, loops[l] # None, loops[l].jobs # {}
    PROVE  /\ NextJob(l) \in loops[l].jobs /\ NextJob(l) \in DOMAIN hrJobs
           /\ hrJobs[NextJob(l)].status # "SUCCEEDED" /\ hrJobs[NextJob(l)].result = None
<1>1. DOMAIN hrJobs = 1 .. Len(hrJobs) /\ Len(hrJobs) \in Nat
  BY LenProperties DEF HrInv, HrTypes
<1>2. loops[l].jobs \in SUBSET (0 .. Len(hrJobs))
  BY <1>1 DEF HrInv, OneLoop
<1>3. NextJob(l) \in loops[l].jobs
  BY <1>1, <1>2, MaxOfBounded DEF NextJob
<1> QED
  BY <1>3 DEF HrInv, OneLoop, JobsAreKept

\* The writer's loop works on a job: the others and their reports stay.
LEMMA LoopWorks ==
    ASSUME HrInv, NEW l \in Loops, loops[l] # None, loops[l].jobs # {},
           NEW status \in Statuses, NEW result \in Reports \cup {None},
           status = "SUCCEEDED" <=> result # None,
           updateHrJob(NextJob(l), status, result),
           NEW held \in Holding, loops' = [loops EXCEPT ![l] = held],
           held.by = loops[l].by,
           \/ held.jobs = loops[l].jobs /\ status # "SUCCEEDED"
           \/ held.jobs = loops[l].jobs \ {NextJob(l)} /\ ~held.reviewing,
           writer' = writer
    PROVE  HrInv' /\ ReviewKept
<1> DEFINE n == NextJob(l)
<1>1. /\ n \in loops[l].jobs /\ n \in DOMAIN hrJobs
      /\ hrJobs[n].status # "SUCCEEDED"
  BY NextJobIsHeld
<1>2. /\ hrJobs' \in Seq(HrRow) /\ DOMAIN hrJobs' = DOMAIN hrJobs
      /\ hrJobs'[n].review = hrJobs[n].review
      /\ hrJobs'[n].status = status /\ hrJobs'[n].result = result
      /\ \A i \in DOMAIN hrJobs \ {n} : hrJobs'[i] = hrJobs[i]
  BY <1>1, Updates DEF HrInv
<1> HIDE DEF n
<1>3. /\ loops' \in [Loops -> Holding \cup {None}] /\ loops'[l] = held
      /\ \A k \in Loops \ {l} : loops'[k] = loops[k] /\ loops[k] = None
  BY DEF HrInv, HrTypes, OneLoop
<1>4. HrTypes'
  BY <1>2, <1>3 DEF HrInv, HrTypes
<1>5. JobsAreKept'
  BY <1>1, <1>2 DEF HrInv, JobsAreKept
<1>6. \A j \in held.jobs : j \in DOMAIN hrJobs' /\ hrJobs'[j].status # "SUCCEEDED"
  BY <1>1, <1>2 DEF HrInv, OneLoop, n
<1>7. held.reviewing => held.jobs # {}
  OBVIOUS
<1>8. OneLoop'
  BY <1>3, <1>6, <1>7 DEF HrInv, OneLoop
<1>9. ReviewKept
  BY <1>1, <1>2 DEF ReviewKept
<1> QED
  BY <1>4, <1>5, <1>8, <1>9 DEF HrInv

\* There are no jobs at first,
LEMMA HrStart == Init => HrInv
  BY EmptySeq DEF Init, HrInit, HrInv, HrTypes, JobsAreKept, OneLoop

\* every step of the writer and of its loop keeps the invariant and the finished reviews,
LEMMA HrStep ==
    ASSUME HrInv, HrNext
    PROVE  HrInv' /\ ReviewKept
<1>1. ASSUME NEW p \in Clients, AcquireWriter(p) PROVE HrInv' /\ ReviewKept
  <2>1. \A l \in Loops : loops[l] = None
    <3> SUFFICES ASSUME NEW l \in Loops, loops[l] # None PROVE FALSE
      OBVIOUS
    <3>1. loops[l].by \in Clients /\ loops[l].by = None
      BY <1>1 DEF AcquireWriter, HrInv, HrTypes, OneLoop, Holding
    <3> QED
      BY <3>1, CommandsAssumption
  <2> QED
    BY <1>1, <2>1 DEF AcquireWriter, HrInv, HrTypes, JobsAreKept, OneLoop, ReviewKept
<1>2. ASSUME NEW p \in Clients, WriterEnds(p) PROVE HrInv' /\ ReviewKept
  <2>1. \A l \in Loops : loops'[l] = None
    BY <1>2 DEF WriterEnds, HrInv, OneLoop
  <2>2. loops' \in [Loops -> Holding \cup {None}] /\ writer' = None /\ hrJobs' = hrJobs
    BY <1>2, <2>1 DEF WriterEnds
  <2> QED
    BY <2>1, <2>2 DEF HrInv, HrTypes, JobsAreKept, OneLoop, ReviewKept
<1>3. ASSUME NEW p \in Clients, queueReview(p) PROVE HrInv' /\ ReviewKept
  <2>1. PICK s \in candidates : s.id \notin reviewKeys /\ queueHrJob(s.id)
    BY <1>3 DEF queueReview
  <2>2. UNCHANGED <<writer, loops>>
    BY <1>3 DEF queueReview
  <2> DEFINE r == [review |-> s.id, status |-> "PENDING", result |-> None]
  <2>3. r \in HrRow /\ r.review = s.id /\ r.status = "PENDING" /\ r.result = None
    BY DEF HrRow, Ids, Statuses
  <2>4. hrJobs' = Append(hrJobs, r)
    BY <2>1 DEF queueHrJob
  <2> HIDE DEF r
  <2>5. PICK q \in Seq(HrRow) : q = hrJobs
    BY DEF HrInv, HrTypes
  <2>6. /\ hrJobs' \in Seq(HrRow) /\ Len(hrJobs') = Len(q) + 1
        /\ \A i \in 1 .. Len(q) : hrJobs'[i] = q[i]
        /\ hrJobs'[Len(q) + 1] = r
    BY <2>3, <2>4, <2>5, AppendProperties
  <2>7. DOMAIN q = 1 .. Len(q) /\ DOMAIN hrJobs' = 1 .. Len(q) + 1 /\ Len(q) \in Nat
    BY <2>6, LenProperties
  <2>8. \A i \in DOMAIN q : q[i].review # r.review
    BY <2>1, <2>3, <2>5 DEF reviewKeys
  <2>9. JobsAreKept'
    BY <2>3, <2>5, <2>6, <2>7, <2>8 DEF HrInv, JobsAreKept
  <2>10. OneLoop'
    BY <2>2, <2>5, <2>6, <2>7 DEF HrInv, OneLoop
  <2>11. HrTypes' /\ ReviewKept
    BY <2>2, <2>5, <2>6, <2>7 DEF HrInv, HrTypes, ReviewKept
  <2> QED
    BY <2>9, <2>10, <2>11 DEF HrInv
<1>4. ASSUME NEW p \in Clients, runPending(p) PROVE HrInv' /\ ReviewKept
  <2>1. writer = p /\ hrJobs' = hrJobs /\ writer' = writer
    BY <1>4 DEF runPending
  <2>2. \A l \in Loops : loops[l] = None
    BY <1>4 DEF runPending, HrInv, OneLoop
  <2>3. PICK l \in Loops : Start(p, l)
    BY <1>4 DEF runPending
  <2> DEFINE held == [by |-> p, jobs |-> listHrJobs, reviewing |-> FALSE]
  <2>4. \A j \in listHrJobs : j \in DOMAIN hrJobs /\ hrJobs[j].status # "SUCCEEDED"
    BY DEF listHrJobs
  <2>5. DOMAIN hrJobs \in SUBSET Nat
    BY LenProperties DEF HrInv, HrTypes
  <2>6. held \in Holding /\ held.by = p /\ held.jobs = listHrJobs /\ held.reviewing = FALSE
    BY <2>4, <2>5 DEF Holding
  <2>7. loops' = [loops EXCEPT ![l] = held]
    BY <2>3 DEF Start
  <2> HIDE DEF held
  <2>8. /\ loops' \in [Loops -> Holding \cup {None}] /\ loops'[l] = held
        /\ \A k \in Loops \ {l} : loops'[k] = None
    BY <2>2, <2>6, <2>7 DEF HrInv, HrTypes
  <2>9. OneLoop'
    BY <2>1, <2>4, <2>6, <2>8 DEF OneLoop
  <2> QED
    BY <2>1, <2>8, <2>9 DEF HrInv, HrTypes, JobsAreKept, ReviewKept
<1>5. ASSUME NEW l \in Loops, StartReview(l) PROVE HrInv' /\ ReviewKept
  <2>1. loops[l] # None /\ loops[l].jobs # {} /\ writer' = writer
    BY <1>5 DEF StartReview
  <2>2. hrJobs[NextJob(l)].result = None
    BY <2>1, NextJobIsHeld
  <2>3. updateHrJob(NextJob(l), "RUNNING", None)
    BY <1>5, <2>2 DEF StartReview
  <2>4. PICK h \in Holding : h = loops[l]
    BY <2>1 DEF HrInv, HrTypes
  <2>5. /\ [h EXCEPT !.reviewing = TRUE] \in Holding
        /\ [h EXCEPT !.reviewing = TRUE].by = h.by /\ [h EXCEPT !.reviewing = TRUE].jobs = h.jobs
    BY DEF Holding
  <2>6. loops' = [loops EXCEPT ![l] = [h EXCEPT !.reviewing = TRUE]]
    BY <1>5, <2>4 DEF StartReview, HrInv, HrTypes
  <2>7. "RUNNING" \in Statuses /\ None \in Reports \cup {None}
    BY DEF Statuses
  <2> QED
    BY <2>1, <2>3, <2>4, <2>5, <2>6, <2>7, LoopWorks
<1>6. ASSUME NEW l \in Loops, FinishReview(l) PROVE HrInv' /\ ReviewKept
  <2>1. loops[l] # None /\ loops[l].jobs # {} /\ writer' = writer
    BY <1>6 DEF FinishReview, HrInv, OneLoop
  <2>2. hrJobs[NextJob(l)].result = None
    BY <2>1, NextJobIsHeld
  <2>3. PICK o \in AgentOutputs :
           IF parseHrAgentOutput(o) = None THEN updateHrJob(NextJob(l), "FAILED", None)
           ELSE updateHrJob(NextJob(l), "SUCCEEDED", parseHrAgentOutput(o))
    BY <1>6, <2>2 DEF FinishReview
  <2>4. PICK h \in Holding : h = loops[l]
    BY <2>1 DEF HrInv, HrTypes
  <2> DEFINE held == [[h EXCEPT !.reviewing = FALSE] EXCEPT !.jobs = h.jobs \ {NextJob(l)}]
  <2>5. held \in Holding /\ held.by = h.by /\ held.jobs = h.jobs \ {NextJob(l)} /\ ~held.reviewing
    BY DEF Holding
  <2>6. loops' = [loops EXCEPT ![l] = held]
    BY <1>6, <2>4 DEF FinishReview, HrInv, HrTypes, Holding
  <2> HIDE DEF held
  <2>7. CASE parseHrAgentOutput(o) = None
    <3>1. "FAILED" \in Statuses /\ None \in Reports \cup {None} /\ "FAILED" # "SUCCEEDED"
      BY DEF Statuses
    <3>2. updateHrJob(NextJob(l), "FAILED", None)
      BY <2>3, <2>7
    <3> QED
      BY <2>1, <2>4, <2>5, <2>6, <3>1, <3>2, LoopWorks
  <2>8. CASE parseHrAgentOutput(o) # None
    <3>1. PICK report \in Reports : report = parseHrAgentOutput(o)
      BY DEF Reports
    <3>2. "SUCCEEDED" \in Statuses /\ report \in Reports \cup {None} /\ report # None
      BY <2>8, <3>1 DEF Statuses
    <3>3. updateHrJob(NextJob(l), "SUCCEEDED", report)
      BY <2>3, <2>8, <3>1
    <3> QED
      BY <2>1, <2>4, <2>5, <2>6, <3>2, <3>3, LoopWorks
  <2> QED
    BY <2>7, <2>8
<1>7. ASSUME NEW l \in Loops, EndLoop(l) PROVE HrInv' /\ ReviewKept
  BY <1>7 DEF EndLoop, HrInv, HrTypes, JobsAreKept, OneLoop, ReviewKept
<1> QED
  BY <1>1, <1>2, <1>3, <1>4, <1>5, <1>6, <1>7 DEF HrNext

\* and so does every step of the whole.
LEMMA HrAlways == Spec => []HrInv
<1>1. HrInv /\ [Next]_vars => HrInv'
  <2> SUFFICES ASSUME HrInv, [Next]_vars PROVE HrInv'
    OBVIOUS
  <2>1. CASE HrNext
    BY <2>1, HrStep
  <2>2. CASE UNCHANGED hVars
    BY <2>2 DEF hVars, HrInv, HrTypes, JobsAreKept, OneLoop
  <2> QED
    BY <2>1, <2>2, StepOfOnePart
<1> QED
  BY <1>1, HrStart, PTL DEF Spec

\* ReviewsStayFinal: over any number of loops, writers and crashes, a review that has
\* succeeded is not started or decided again.
THEOREM ReviewsStayFinal == Spec => ReviewsAreFinal
<1>1. HrInv /\ [Next]_vars => [ReviewKept]_hrJobs
  <2> SUFFICES ASSUME HrInv, [Next]_vars, hrJobs' # hrJobs PROVE ReviewKept
    OBVIOUS
  <2>1. HrNext
    BY StepOfOnePart DEF hVars
  <2> QED
    BY <2>1, HrStep
<1>2. [][ReviewKept]_hrJobs => ReviewsAreFinal
  BY PTL DEF ReviewsAreFinal, ReviewKept
<1> QED
  BY <1>1, <1>2, HrAlways, PTL DEF Spec

-----------------------------------------------------------------------------
(* The session file and its telemetry *)

Symbols == DOMAIN Texts \cup {Newline}

\* A session is records, each with its end behind it; the last may still be without.
SessionOK(s) ==
    /\ s \in Seq(Symbols)
    /\ \A i \in 1 .. Len(s) : s[i] = Newline <=> i % 2 = 0

Scanning == [buffer : Seq(Symbols), start : Nat, at : Nat]

TailTypes ==
    /\ SessionOK(session) /\ rewritten \in BOOLEAN
    /\ rows \in Seq(Nat) /\ IsInjective(rows)
    /\ cursor \in Nat /\ cursor % 2 = 0
    /\ refreshing \in BOOLEAN
    /\ scan \in Scanning \cup {None}
    /\ scan # None => /\ refreshing /\ SessionOK(scan.buffer)
                      /\ scan.start % 2 = 0 /\ scan.at % 2 = 0
                      /\ scan.start <= Len(scan.buffer) /\ scan.at <= Len(scan.buffer)

\* What a scan reads is still the beginning of the session.
ScanReads ==
    /\ cursor <= Len(session)
    /\ scan # None => /\ Len(scan.buffer) <= Len(session)
                      /\ \A i \in 1 .. Len(scan.buffer) : scan.buffer[i] = session[i]

\* The rows go up, are of lines, and leave out none before the last of them, before the
\* cursor and before the line where the scan is.
RowsGoUp    == \A i, j \in DOMAIN rows : i < j => rows[i] < rows[j]
RowsAreSeen == ToSet(rows) \subseteq visible
NoneBetween == \A n \in visible, i \in DOMAIN rows : n < rows[i] => n \in ToSet(rows)
NoneBefore(offset) == \A n \in visible : n < offset => n \in ToSet(rows)

Tailed ==
    /\ ScanReads /\ RowsGoUp /\ RowsAreSeen /\ NoneBetween /\ NoneBefore(cursor)
    /\ scan # None => NoneBefore(scan.at)

TailInv == TailTypes /\ (~rewritten => Tailed)

-----------------------------------------------------------------------------
(* The hub and the stream *)

Event  == [sequence : Nat, kind : {"activity", "snapshot", "monitor-health"}]
Client == [phase : {"closed", "waiting", "ready", "open"}, wire : Seq(Event), last : Nat]

HubTypes ==
    /\ hub \in [sequence : Nat, events : Seq(Event)]
    /\ client \in Client
    /\ Len(hub.events) <= Retention
    /\ \A i \in DOMAIN hub.events : hub.events[i].sequence = hub.sequence - Len(hub.events) + i
    /\ client.phase # "open" => client.wire = <<>>

\* The stream carries no number that was not given; the numbers that are still to come and
\* that the browser takes for known are the ones of an earlier hub, which are given up.
WireIsKnown  == \A i \in DOMAIN client.wire : client.wire[i].sequence <= hub.sequence
AheadIsLost  == \A n \in hub.sequence + 1 .. client.last : n \in lost

HubInv == HubTypes /\ WireIsKnown /\ AheadIsLost /\ ClientsMissNothing

\* Where a line ends, and what it shows.
LEMMA LineEnds ==
    ASSUME NEW b, SessionOK(b), NEW o \in Nat, o % 2 = 0, o + 2 <= Len(b)
    PROVE  /\ LineEnd(b, o) = o + 2
           /\ parseSessionRecord(b, o) = Texts[b[o + 1]] /\ Texts[b[o + 1]] \in Nat
<1>1. Len(b) \in Nat /\ b \in [1 .. Len(b) -> Symbols]
  BY LenProperties DEF SessionOK
<1>2. o + 1 \in 1 .. Len(b) /\ o + 2 \in 1 .. Len(b) /\ (o + 1) % 2 # 0 /\ (o + 2) % 2 = 0
  BY <1>1
<1>3. b[o + 1] # Newline /\ b[o + 2] = Newline
  BY <1>2 DEF SessionOK
<1>4. \A i \in (o + 1) .. Len(b) :
         (b[i] = Newline /\ \A j \in (o + 1) .. (i - 1) : b[j] # Newline) <=> i = o + 2
  BY <1>1, <1>2, <1>3
<1>5. LineEnd(b, o) = CHOOSE i \in (o + 1) .. Len(b) : i = o + 2
  BY <1>4 DEF LineEnd
<1>6. LineEnd(b, o) = o + 2
  BY <1>2, <1>5
<1>7. b[o + 1] \in DOMAIN Texts
  BY <1>1, <1>2, <1>3 DEF Symbols
<1> QED
  BY <1>6, <1>7, MonitorAssumption DEF parseSessionRecord

\* The complete lines of a session are all but the last symbol, or all.
LEMMA Completes ==
    ASSUME NEW b, SessionOK(b), NEW s \in Nat, s % 2 = 0, s <= Len(b)
    PROVE  /\ CompleteLength(b, s) \in Nat /\ CompleteLength(b, s) % 2 = 0
           /\ CompleteLength(b, s) <= Len(b) /\ Len(b) < CompleteLength(b, s) + 2
<1>1. Len(b) \in Nat
  BY LenProperties DEF SessionOK
<1> DEFINE S == {i \in (s + 1) .. Len(b) : b[i] = Newline} \union {s}
           m == Max(S)
<1>2. S \in SUBSET (0 .. Len(b)) /\ S # {}
  BY <1>1
<1>3. m \in S /\ \A i \in S : i <= m
  <2> HIDE DEF S
  <2> QED
    BY <1>1, <1>2, MaxOfBounded
<1>4. m \in Nat /\ m <= Len(b) /\ m % 2 = 0
  BY <1>1, <1>3 DEF SessionOK
<1>5. Len(b) < m + 2
  <2> SUFFICES ASSUME m + 2 <= Len(b) PROVE FALSE
    BY <1>1, <1>4
  <2>1. m + 2 \in 1 .. Len(b) /\ (m + 2) % 2 = 0 /\ s <= m
    BY <1>1, <1>3, <1>4
  <2>2. b[m + 2] = Newline
    BY <2>1 DEF SessionOK
  <2>3. m + 2 \in (s + 1) .. Len(b)
    BY <1>4, <2>1
  <2>4. m + 2 \in S
    BY <2>2, <2>3
  <2> QED
    BY <1>3, <1>4, <2>4
<1> QED
  BY <1>4, <1>5 DEF CompleteLength

\* The visible lines are the complete lines that show a text:
VisibleAreLines ==
    \A n : n \in visible <=> /\ n \in Nat /\ n % 2 = 0 /\ n + 2 <= Len(session)
                            /\ Texts[session[n + 1]] > 0

\* so it is in every session that is written record by record.
LEMMA VisibleLines == SessionOK(session) => VisibleAreLines
<1> SUFFICES ASSUME SessionOK(session) PROVE VisibleAreLines
  OBVIOUS
<1> DEFINE m == CompleteLength(session, 0)
<1>1. Len(session) \in Nat
  BY LenProperties DEF SessionOK
<1>2. m \in Nat /\ m % 2 = 0 /\ m <= Len(session) /\ Len(session) < m + 2
  BY <1>1, Completes
<1> HIDE DEF m
<1>3. ASSUME NEW n \in visible
      PROVE  n \in Nat /\ n % 2 = 0 /\ n + 2 <= Len(session) /\ Texts[session[n + 1]] > 0
  <2>1. /\ n \in 0 .. m - 1
        /\ n = 0 \/ session[n] = Newline
        /\ parseSessionRecord(session, n) > 0
    BY <1>2, <1>3 DEF visible, m
  <2>2. n \in Nat /\ n % 2 = 0
    BY <1>1, <1>2, <2>1 DEF SessionOK
  <2>3. n + 2 <= Len(session)
    BY <1>1, <1>2, <2>1, <2>2
  <2> QED
    BY <2>1, <2>2, <2>3, LineEnds
<1>4. ASSUME NEW n \in Nat, n % 2 = 0, n + 2 <= Len(session), Texts[session[n + 1]] > 0
      PROVE  n \in visible
  <2>1. n \in 0 .. m - 1 /\ (n = 0 \/ n \in 1 .. Len(session))
    BY <1>1, <1>2, <1>4
  <2>2. n = 0 \/ session[n] = Newline
    BY <1>4, <2>1 DEF SessionOK
  <2>3. parseSessionRecord(session, n) > 0
    BY <1>4, LineEnds
  <2> QED
    BY <2>1, <2>2, <2>3 DEF visible, m
<1> QED
  BY <1>3, <1>4 DEF VisibleAreLines

\* The same of the session after a step.
LEMMA VisibleThen == SessionOK(session)' => VisibleAreLines'
  BY VisibleLines, PTL

\* A session with one more symbol in its place is a session.
LEMMA OneMore ==
    ASSUME NEW s, SessionOK(s), NEW x \in Symbols, x = Newline <=> (Len(s) + 1) % 2 = 0
    PROVE  /\ SessionOK(s \o <<x>>) /\ Len(s \o <<x>>) = Len(s) + 1
           /\ \A i \in 1 .. Len(s) : (s \o <<x>>)[i] = s[i]
<1>1. s \in Seq(Symbols) /\ Len(s) \in Nat
  BY LenProperties DEF SessionOK
<1>2. s \o <<x>> = Append(s, x)
  BY <1>1, AppendIsConcat
<1>3. /\ Append(s, x) \in Seq(Symbols) /\ Len(Append(s, x)) = Len(s) + 1
      /\ \A i \in 1 .. Len(s) : Append(s, x)[i] = s[i]
      /\ Append(s, x)[Len(s) + 1] = x
  BY <1>1, AppendProperties
<1>4. ASSUME NEW i \in 1 .. Len(s) + 1 PROVE Append(s, x)[i] = Newline <=> i % 2 = 0
  BY <1>1, <1>3, <1>4 DEF SessionOK
<1> QED
  BY <1>2, <1>3, <1>4 DEF SessionOK

\* What the agent writes comes at the end of the session.
LEMMA SessionGrows ==
    ASSUME SessionOK(session), WriteSession
    PROVE  /\ SessionOK(session') /\ Len(session) <= Len(session')
           /\ \A i \in 1 .. Len(session) : session'[i] = session[i]
<1>1. session \in Seq(Symbols) /\ Len(session) \in Nat
  BY LenProperties DEF SessionOK
<1>2. CASE session # <<>> /\ Last(session) # Newline
  <2>1. session' = session \o <<Newline>>
    BY <1>1, <1>2, AppendIsConcat DEF WriteSession, Symbols
  <2>2. Len(session) \in 1 .. Len(session)
    BY <1>1, <1>2, EmptySeq
  <2>3. (Len(session) + 1) % 2 = 0
    BY <1>1, <1>2, <2>2 DEF SessionOK, Last
  <2>4. Newline \in Symbols
    BY DEF Symbols
  <2> QED
    BY <1>1, <2>1, <2>3, <2>4, OneMore
<1>3. CASE ~(session # <<>> /\ Last(session) # Newline)
  <2>1. PICK r \in DOMAIN Texts, written \in {<<>>, <<Newline>>} : session' = session \o <<r>> \o written
    BY <1>3 DEF WriteSession
  <2>2. Len(session) % 2 = 0
    <3>1. CASE session = <<>>
      BY <3>1
    <3>2. CASE session # <<>> /\ Last(session) = Newline
      <4>1. Len(session) \in 1 .. Len(session)
        BY <1>1, <3>2, EmptySeq
      <4> QED
        BY <3>2, <4>1 DEF SessionOK, Last
    <3> QED
      BY <1>3, <3>1, <3>2
  <2>3. r \in Symbols /\ r # Newline /\ Newline \in Symbols /\ (Len(session) + 1) % 2 # 0
    BY <1>1, <2>2, MonitorAssumption DEF Symbols
  <2>4. PICK one : one = session \o <<r>>
    OBVIOUS
  <2>5. /\ SessionOK(one) /\ Len(one) = Len(session) + 1
        /\ \A i \in 1 .. Len(session) : one[i] = session[i]
    BY <2>3, <2>4, OneMore
  <2>6. CASE written = <<>>
    <3>1. session' = one
      BY <2>1, <2>4, <2>5, <2>6, ConcatEmptySeq DEF SessionOK
    <3> QED
      BY <1>1, <2>5, <3>1
  <2>7. CASE written = <<Newline>>
    <3>1. (Len(one) + 1) % 2 = 0
      BY <1>1, <2>2, <2>5
    <3>2. session' = one \o <<Newline>>
      BY <2>1, <2>4, <2>7
    <3>3. /\ SessionOK(session') /\ Len(session') = Len(one) + 1
          /\ \A i \in 1 .. Len(one) : session'[i] = one[i]
      BY <2>3, <2>5, <3>1, <3>2, OneMore
    <3>4. \A i \in 1 .. Len(session) : i \in 1 .. Len(one)
      BY <1>1, <2>5
    <3> QED
      BY <1>1, <2>5, <3>3, <3>4
  <2> QED
    BY <2>1, <2>6, <2>7
<1> QED
  BY <1>2, <1>3

\* A step that leaves the file and its telemetry, and the scan unless it ends it.
LEMMA TailKept ==
    ASSUME TailInv, UNCHANGED <<session, rewritten, rows, cursor>>, refreshing' \in BOOLEAN,
           scan' = None \/ (scan' = scan /\ (scan # None => refreshing'))
    PROVE  TailInv'
<1>1. TailTypes'
  BY DEF TailInv, TailTypes
<1>2. visible' = visible
  BY DEF visible
<1>3. ASSUME ~rewritten PROVE Tailed'
  BY <1>2, <1>3 DEF TailInv, Tailed, ScanReads, RowsGoUp, RowsAreSeen, NoneBetween, NoneBefore
<1> QED
  BY <1>1, <1>3 DEF TailInv

\* More of the session shows no line before what has been read of it.
LEMMA WriteKeepsTail ==
    ASSUME TailInv, WriteSession
    PROVE  TailInv'
<1>1. /\ SessionOK(session') /\ Len(session) <= Len(session')
      /\ \A i \in 1 .. Len(session) : session'[i] = session[i]
  BY SessionGrows DEF TailInv, TailTypes
<1>2. UNCHANGED <<rewritten, rows, cursor, refreshing, scan>>
  BY DEF WriteSession, tailVars
<1>3. TailTypes'
  BY <1>1, <1>2 DEF TailInv, TailTypes
<1>4. ASSUME ~rewritten PROVE Tailed'
  <2>1. VisibleAreLines /\ VisibleAreLines' /\ Len(session) \in Nat /\ Len(session') \in Nat
    BY <1>1, VisibleLines, VisibleThen, LenProperties DEF TailInv, TailTypes, SessionOK
  <2>2. Tailed
    BY <1>4 DEF TailInv
  <2>3. visible \subseteq visible'
    BY <1>1, <2>1 DEF VisibleAreLines
  <2>4. \A n \in visible' : n + 2 <= Len(session) => n \in visible
    BY <1>1, <2>1 DEF VisibleAreLines
  <2>5. ScanReads'
    <3>1. cursor' <= Len(session')
      <4>1. cursor \in Nat /\ cursor <= Len(session)
        BY <2>2 DEF Tailed, ScanReads, TailInv, TailTypes
      <4> QED
        BY <1>1, <1>2, <2>1, <4>1
    <3>2. ASSUME scan # None
          PROVE  /\ Len(scan.buffer) <= Len(session')
                 /\ \A i \in 1 .. Len(scan.buffer) : scan.buffer[i] = session'[i]
      <4>1. Len(scan.buffer) \in Nat
        BY <3>2, LenProperties DEF TailInv, TailTypes, SessionOK
      <4> QED
        BY <1>1, <2>1, <2>2, <3>2, <4>1 DEF Tailed, ScanReads
    <3> QED
      BY <1>2, <3>1, <3>2 DEF ScanReads
  <2>6. ASSUME NEW o \in Nat, o % 2 = 0, o <= Len(session), NoneBefore(o)
        PROVE  \A n \in visible' : n < o => n \in ToSet(rows)
    <3> SUFFICES ASSUME NEW n \in visible', n < o PROVE n \in ToSet(rows)
      OBVIOUS
    <3>1. n \in Nat /\ n % 2 = 0
      BY <2>1 DEF VisibleAreLines
    <3>2. n + 2 <= Len(session)
      BY <2>1, <2>6, <3>1
    <3> QED
      BY <2>4, <2>6, <3>2 DEF NoneBefore
  <2>7. NoneBefore(cursor)' /\ (scan' # None => NoneBefore(scan.at)')
    <3>1. NoneBefore(cursor)'
      <4>1. \A n \in visible' : n < cursor => n \in ToSet(rows)
        BY <2>2, <2>6 DEF Tailed, ScanReads, TailInv, TailTypes
      <4> QED
        BY <1>2, <4>1 DEF NoneBefore
    <3>2. ASSUME scan # None PROVE NoneBefore(scan.at)'
      <4>1. scan.at \in Nat /\ scan.at % 2 = 0 /\ scan.at <= Len(session)
        <5>1. scan.at \in Nat /\ Len(scan.buffer) \in Nat /\ scan.at % 2 = 0
          BY <3>2, LenProperties DEF TailInv, TailTypes, Scanning, SessionOK
        <5> QED
          BY <2>1, <2>2, <3>2, <5>1 DEF Tailed, ScanReads, TailInv, TailTypes
      <4>2. \A n \in visible' : n < scan.at => n \in ToSet(rows)
        BY <2>2, <2>6, <3>2, <4>1 DEF Tailed
      <4> QED
        BY <1>2, <4>2 DEF NoneBefore
    <3> QED
      BY <1>2, <3>1, <3>2
  <2>8. NoneBetween'
    <3> SUFFICES ASSUME NEW n \in visible', NEW i \in DOMAIN rows, n < rows[i]
                 PROVE  n \in ToSet(rows)
      BY <1>2 DEF NoneBetween
    <3>1. rows[i] \in visible
      BY <2>2 DEF Tailed, RowsAreSeen, ToSet
    <3>2. n \in Nat /\ rows[i] \in Nat /\ n % 2 = 0 /\ rows[i] + 2 <= Len(session)
      BY <2>1, <3>1 DEF VisibleAreLines
    <3>3. n \in visible
      BY <2>1, <2>4, <3>2
    <3> QED
      BY <2>2, <3>3 DEF Tailed, NoneBetween
  <2>9. RowsGoUp' /\ RowsAreSeen'
    BY <1>2, <2>2, <2>3 DEF Tailed, RowsGoUp, RowsAreSeen
  <2> QED
    BY <1>2, <2>5, <2>7, <2>8, <2>9 DEF Tailed
<1> QED
  BY <1>2, <1>3, <1>4 DEF TailInv

\* Between two even numbers there are two steps.
LEMMA EvenGap ==
    ASSUME NEW m \in Nat, NEW n \in Nat, m % 2 = 0, n % 2 = 0, m < n
    PROVE  m + 2 <= n
  OBVIOUS

\* A line is stored once, behind the others, and the scan goes on behind it.
LEMMA StoreKeepsTail ==
    ASSUME TailInv, StoreLine
    PROVE  TailInv' /\ parseSessionRecord(scan.buffer, scan.at) \in Nat
<1> DEFINE at == scan.at
           count == parseSessionRecord(scan.buffer, scan.at)
<1>1. /\ scan # None /\ at < CompleteLength(scan.buffer, scan.start)
      /\ IF count > 0 THEN addEvent(scan.start + (at - scan.start)) ELSE UNCHANGED rows
      /\ scan' = [scan EXCEPT !.at = LineEnd(scan.buffer, at)]
      /\ UNCHANGED <<session, rewritten, cursor, refreshing>>
  BY DEF StoreLine, EventId, fileVars
<1>2. PICK c \in Scanning : c = scan
  BY <1>1 DEF TailInv, TailTypes
<1>3. /\ SessionOK(c.buffer) /\ c.start \in Nat /\ at \in Nat /\ at = c.at
      /\ c.start % 2 = 0 /\ at % 2 = 0 /\ c.start <= Len(c.buffer)
  BY <1>1, <1>2 DEF TailInv, TailTypes, Scanning
<1>4. /\ CompleteLength(c.buffer, c.start) \in Nat /\ CompleteLength(c.buffer, c.start) % 2 = 0
      /\ CompleteLength(c.buffer, c.start) <= Len(c.buffer)
  BY <1>3, Completes
<1>5. Len(c.buffer) \in Nat
  BY <1>3, LenProperties DEF SessionOK
<1>6. at + 2 <= Len(c.buffer)
  <2>1. PICK m \in Nat : m = CompleteLength(c.buffer, c.start)
    BY <1>4
  <2>2. at + 2 <= m
    BY <1>1, <1>2, <1>3, <1>4, <2>1, EvenGap
  <2> QED
    BY <1>3, <1>4, <1>5, <2>1, <2>2
<1>7. /\ LineEnd(c.buffer, at) = at + 2
      /\ count = Texts[c.buffer[at + 1]] /\ count \in Nat
  BY <1>2, <1>3, <1>6, LineEnds
<1>8. scan.start + (at - scan.start) = at
  BY <1>2, <1>3
<1>9. rows' = IF count > 0 /\ at \notin ToSet(rows) THEN Append(rows, at) ELSE rows
  BY <1>1, <1>8 DEF addEvent
<1> HIDE DEF count
<1>10. /\ scan' \in Scanning /\ scan'.buffer = c.buffer /\ scan'.start = c.start
       /\ scan'.at = at + 2 /\ (at + 2) % 2 = 0
  <2>1. scan' = [c EXCEPT !.at = at + 2]
    BY <1>1, <1>2, <1>7
  <2>2. (at + 2) % 2 = 0 /\ at + 2 \in Nat
    BY <1>3
  <2> QED
    BY <2>1, <2>2 DEF Scanning
<1> HIDE DEF at
<1>11. /\ rows' \in Seq(Nat) /\ IsInjective(rows')
       /\ ToSet(rows') = IF count > 0 THEN ToSet(rows) \cup {at} ELSE ToSet(rows)
  <2>1. rows \in Seq(Nat) /\ IsInjective(rows)
    BY DEF TailInv, TailTypes
  <2>2. CASE count > 0 /\ at \notin ToSet(rows)
    BY <1>3, <1>9, <2>1, <2>2, AppendInjectiveSet
  <2>3. CASE ~(count > 0 /\ at \notin ToSet(rows))
    BY <1>9, <2>1, <2>3
  <2> QED
    BY <2>2, <2>3
<1>12. TailTypes'
  BY <1>1, <1>2, <1>3, <1>6, <1>10, <1>11 DEF TailInv, TailTypes
<1>13. ASSUME ~rewritten PROVE Tailed'
  <2>1. Tailed /\ VisibleAreLines /\ visible' = visible
    BY <1>1, <1>13, VisibleLines DEF TailInv, TailTypes, visible
  <2>2. Len(c.buffer) <= Len(session) /\ \A i \in 1 .. Len(c.buffer) : c.buffer[i] = session[i]
    BY <1>1, <1>2, <2>1 DEF Tailed, ScanReads
  <2>3. Len(session) \in Nat
    BY LenProperties DEF TailInv, TailTypes, SessionOK
  <2>4. at + 1 \in 1 .. Len(c.buffer) /\ at + 2 <= Len(session)
    BY <1>3, <1>5, <1>6, <2>2, <2>3
  <2>5. at \in visible <=> count > 0
    BY <1>3, <1>7, <2>1, <2>2, <2>4 DEF VisibleAreLines
  <2>6. NoneBefore(at)
    BY <1>1, <2>1 DEF Tailed, at
  <2>7. ScanReads'
    BY <1>1, <1>10, <2>1, <2>2 DEF Tailed, ScanReads
  <2>8. RowsAreSeen'
    BY <1>11, <2>1, <2>5 DEF Tailed, RowsAreSeen
  <2>9. NoneBefore(cursor)'
    BY <1>1, <1>11, <2>1 DEF Tailed, NoneBefore
  <2>10. NoneBefore(scan.at)'
    <3> SUFFICES ASSUME NEW n \in visible, n < at + 2 PROVE n \in ToSet(rows')
      BY <1>10, <2>1 DEF NoneBefore
    <3>1. n \in Nat /\ n % 2 = 0
      BY <2>1 DEF VisibleAreLines
    <3>2. n < at \/ n = at
      BY <1>3, <3>1, EvenGap
    <3> QED
      BY <1>11, <2>5, <2>6, <3>2 DEF NoneBefore
  <2>11. RowsGoUp' /\ NoneBetween'
    <3>1. CASE rows' = rows
      BY <2>1, <3>1 DEF Tailed, RowsGoUp, NoneBetween
    <3>2. CASE rows' = Append(rows, at) /\ count > 0 /\ at \notin ToSet(rows)
      <4>1. \A i \in DOMAIN rows : rows[i] \in Nat /\ rows[i] # at /\ ~(at < rows[i])
        <5>1. TAKE i \in DOMAIN rows
        <5>2. rows[i] \in ToSet(rows) /\ rows[i] \in Nat
          BY LenProperties DEF ToSet, TailInv, TailTypes
        <5>3. ~(at < rows[i])
          BY <2>1, <2>5, <3>2 DEF Tailed, NoneBetween
        <5> QED
          BY <3>2, <5>2, <5>3
      <4>2. \A i \in DOMAIN rows : rows[i] < at
        BY <1>3, <4>1
      <4>3. PICK s \in Seq(Nat) : s = rows
        BY DEF TailInv, TailTypes
      <4>4. /\ DOMAIN s = 1 .. Len(s) /\ Len(s) \in Nat /\ DOMAIN rows' = 1 .. Len(s) + 1
            /\ \A i \in 1 .. Len(s) : rows'[i] = s[i]
            /\ rows'[Len(s) + 1] = at
        BY <1>3, <3>2, <4>3, AppendProperties, LenProperties
      <4>5. ASSUME NEW i \in DOMAIN rows', NEW j \in DOMAIN rows', i < j
            PROVE  rows'[i] < rows'[j]
        <5>1. CASE j = Len(s) + 1
          BY <4>2, <4>3, <4>4, <4>5, <5>1
        <5>2. CASE j # Len(s) + 1
          <6>1. i \in DOMAIN s /\ j \in DOMAIN s
            BY <4>4, <4>5, <5>2
          <6> QED
            BY <2>1, <4>3, <4>4, <4>5, <6>1 DEF Tailed, RowsGoUp
        <5> QED
          BY <5>1, <5>2
      <4>6. ASSUME NEW n \in visible, NEW i \in DOMAIN rows', n < rows'[i]
            PROVE  n \in ToSet(rows')
        <5>1. CASE i = Len(s) + 1
          BY <1>11, <2>6, <4>4, <4>6, <5>1 DEF NoneBefore
        <5>2. CASE i # Len(s) + 1
          <6>1. i \in DOMAIN s
            BY <4>4, <4>6, <5>2
          <6> QED
            BY <1>11, <2>1, <4>3, <4>4, <4>6, <6>1 DEF Tailed, NoneBetween
        <5> QED
          BY <5>1, <5>2
      <4> QED
        BY <2>1, <4>5, <4>6 DEF RowsGoUp, NoneBetween
    <3> QED
      BY <1>9, <3>1, <3>2
  <2> QED
    BY <2>7, <2>8, <2>9, <2>10, <2>11 DEF Tailed
<1> QED
  BY <1>1, <1>7, <1>12, <1>13 DEF TailInv, count, at

\* No session and no telemetry at first;
LEMMA TailStart == Init => TailInv
<1> SUFFICES ASSUME MonitorInit PROVE TailInv
  BY DEF Init
<1>1. /\ session = <<>> /\ rewritten = FALSE /\ rows = <<>> /\ cursor = 0
      /\ refreshing = FALSE /\ scan = None
  BY DEF MonitorInit
<1>2. /\ session \in Seq(Symbols) /\ Len(session) = 0
      /\ rows \in Seq(Nat) /\ Len(rows) = 0 /\ DOMAIN rows = {}
  BY <1>1, EmptySeq
<1>3. SessionOK(session) /\ IsInjective(rows)
  BY <1>2 DEF SessionOK, IsInjective
<1>4. TailTypes
  <2>1. cursor \in Nat /\ cursor % 2 = 0
    BY <1>1
  <2> QED
    BY <1>1, <1>2, <1>3, <2>1 DEF TailTypes
<1>5. Tailed
  <2>1. visible = {}
    BY <1>2, <1>3, VisibleLines DEF VisibleAreLines
  <2> QED
    BY <1>1, <1>2, <2>1 DEF Tailed, ScanReads, RowsGoUp, RowsAreSeen, NoneBetween, NoneBefore, ToSet
<1> QED
  BY <1>4, <1>5 DEF TailInv

\* every step of the Monitor keeps what the rows say of the session,
LEMMA TailStep ==
    ASSUME TailInv, MonitorNext
    PROVE  TailInv'
<1>1. CASE WriteSession
  BY <1>1, WriteKeepsTail
<1>2. CASE RewriteSession
  <2>1. session' = <<>> /\ rewritten' = TRUE /\ UNCHANGED <<rows, cursor, refreshing, scan>>
    BY <1>2 DEF RewriteSession, tailVars
  <2>2. SessionOK(session')
    BY <2>1, EmptySeq DEF SessionOK
  <2>3. TailTypes'
    BY <2>1, <2>2 DEF TailInv, TailTypes
  <2> QED
    BY <2>1, <2>3 DEF TailInv
<1>3. CASE StartRefresh
  BY <1>3, TailKept DEF StartRefresh, fileVars, tailVars
<1>4. CASE ReadSession
  <2> DEFINE start == IF cursor > Len(session) THEN 0 ELSE cursor
             c == [buffer |-> session, start |-> start, at |-> start]
  <2>1. /\ refreshing /\ cursor' = start /\ scan' = c
        /\ UNCHANGED <<session, rewritten, rows, refreshing>>
    BY <1>4 DEF ReadSession, fileVars
  <2>2. Len(session) \in Nat /\ session \in Seq(Symbols) /\ cursor \in Nat /\ cursor % 2 = 0
    BY LenProperties DEF TailInv, TailTypes, SessionOK
  <2>3. start \in Nat /\ start % 2 = 0 /\ start <= Len(session)
    BY <2>2
  <2> HIDE DEF start
  <2>4. c \in Scanning /\ c.buffer = session /\ c.start = start /\ c.at = start
    BY <2>2, <2>3 DEF Scanning
  <2> HIDE DEF c
  <2>5. TailTypes'
    BY <2>1, <2>3, <2>4 DEF TailInv, TailTypes
  <2>6. ASSUME ~rewritten PROVE Tailed'
    <3>1. Tailed /\ visible' = visible
      BY <2>1, <2>6 DEF TailInv, visible
    <3>2. start = cursor
      BY <2>2, <3>1 DEF Tailed, ScanReads, start
    <3> QED
      BY <2>1, <2>2, <2>3, <2>4, <3>1, <3>2
         DEF Tailed, ScanReads, RowsGoUp, RowsAreSeen, NoneBetween, NoneBefore
  <2> QED
    BY <2>1, <2>5, <2>6 DEF TailInv
<1>5. CASE StoreLine
  BY <1>5, StoreKeepsTail
<1>6. CASE EndScan
  <2>1. /\ scan # None /\ cursor' = scan.at /\ scan' = None /\ refreshing' = FALSE
        /\ UNCHANGED <<session, rewritten, rows>>
    BY <1>6 DEF EndScan, RefreshReturns, fileVars
  <2>2. scan.at \in Nat /\ scan.at % 2 = 0 /\ scan.at <= Len(scan.buffer) /\ Len(scan.buffer) \in Nat
    BY <2>1, LenProperties DEF TailInv, TailTypes, Scanning, SessionOK
  <2>3. TailTypes'
    BY <2>1, <2>2 DEF TailInv, TailTypes
  <2>4. ASSUME ~rewritten PROVE Tailed'
    <3>1. Tailed /\ visible' = visible /\ Len(session) \in Nat
      BY <2>1, <2>4, LenProperties DEF TailInv, TailTypes, SessionOK, visible
    <3>2. scan.at <= Len(session)
      BY <2>1, <2>2, <3>1 DEF Tailed, ScanReads
    <3> QED
      BY <2>1, <3>1, <3>2 DEF Tailed, ScanReads, RowsGoUp, RowsAreSeen, NoneBetween, NoneBefore
  <2> QED
    BY <2>1, <2>3, <2>4 DEF TailInv
<1>7. CASE RefreshFails
  BY <1>7, TailKept DEF RefreshFails, RefreshReturns, fileVars, tailVars
<1>8. CASE Connect
  BY <1>8, TailKept DEF Connect, fileVars, tailVars
<1>9. CASE OpenStream
  BY <1>9, TailKept DEF OpenStream, fileVars, tailVars, TailInv, TailTypes
<1>10. CASE Receive
  BY <1>10, TailKept DEF Receive, fileVars, tailVars, TailInv, TailTypes
<1>11. CASE CutStream
  BY <1>11, TailKept DEF CutStream, fileVars, tailVars, TailInv, TailTypes
<1>12. CASE RestartMonitor
  BY <1>12, TailKept DEF RestartMonitor, fileVars, tailVars
<1> QED
  BY <1>1, <1>2, <1>3, <1>4, <1>5, <1>6, <1>7, <1>8, <1>9, <1>10, <1>11, <1>12 DEF MonitorNext

\* and so does every step of the whole.
LEMMA TailAlways == Spec => []TailInv
<1>1. TailInv /\ [Next]_vars => TailInv'
  <2> SUFFICES ASSUME TailInv, [Next]_vars PROVE TailInv'
    OBVIOUS
  <2>1. CASE MonitorNext
    BY <2>1, TailStep
  <2>2. CASE UNCHANGED sVars
    BY <2>2, TailKept DEF sVars, TailInv, TailTypes
  <2> QED
    BY <2>1, <2>2, StepOfOnePart
<1> QED
  BY <1>1, TailStart, PTL DEF Spec

\* TailedOnce: while a session file only grows, its visible lines are stored once, in
\* order, without a gap, and none that the cursor has passed is missing.
THEOREM TailedOnce == Spec => []SessionIsTailedOnce
<1>1. ASSUME TailInv PROVE SessionIsTailedOnce
  <2>1. rewritten \/ Tailed
    BY <1>1 DEF TailInv
  <2> QED
    BY <2>1 DEF SessionIsTailedOnce, Tailed, RowsGoUp, RowsAreSeen, NoneBetween, NoneBefore
<1> QED
  BY <1>1, TailAlways, PTL

-----------------------------------------------------------------------------
(* What the hub publishes and the browser gets *)

\* What the activities among some events are.
LEMMA ActivitiesOf ==
    ASSUME NEW s
    PROVE  \A n : n \in Activities(s) <=>
              \E i \in DOMAIN s : s[i].sequence = n /\ s[i].kind = "activity"
  BY DEF Activities, ToSet

\* The later of two numbers.
LEMMA MaxOfTwo ==
    ASSUME NEW m \in Int, NEW n \in Int
    PROVE  Max({m, n}) = IF m <= n THEN n ELSE m
<1>1. CASE m <= n
  <2>1. \A x \in {m, n} : (\A y \in {m, n} : x >= y) <=> x = n
    BY <1>1
  <2>2. Max({m, n}) = CHOOSE x \in {m, n} : x = n
    BY <2>1 DEF Max
  <2> QED
    BY <1>1, <2>2
<1>2. CASE ~(m <= n)
  <2>1. \A x \in {m, n} : (\A y \in {m, n} : x >= y) <=> x = m
    BY <1>2
  <2>2. Max({m, n}) = CHOOSE x \in {m, n} : x = m
    BY <2>1 DEF Max
  <2> QED
    BY <1>2, <2>2
<1> QED
  BY <1>1, <1>2

\* Publishing numbers the events behind the others, keeps the latest and sends them all.
LEMMA Publishes ==
    ASSUME HubInv,
           NEW kinds \in Seq({"activity", "snapshot", "monitor-health"}), publish(kinds), seen' = seen
    PROVE  HubInv'
<1> DEFINE m     == Len(kinds)
           fresh == [i \in DOMAIN kinds |-> [sequence |-> hub.sequence + i, kind |-> kinds[i]]]
           all   == hub.events \o fresh
           first == Max({1, Len(all) - Retention + 1})
           kept  == SubSeq(all, first, Len(all))
           wire  == IF client.phase = "open" THEN client.wire \o fresh ELSE client.wire
<1>1. /\ hub' = [sequence |-> hub.sequence + m, events |-> kept]
      /\ client' = [client EXCEPT !.wire = wire]
      /\ lost' = lost \union (Activities(all) \ (Activities(kept) \union Activities(wire) \union seen))
  BY DEF publish
<1>2. PICK q \in Nat, e \in Seq(Event) : q = hub.sequence /\ e = hub.events
  BY DEF HubInv, HubTypes
<1>3. PICK c \in Client : c = client
  BY DEF HubInv, HubTypes
<1>4. m \in Nat /\ DOMAIN kinds = 1 .. m /\ kinds \in [1 .. m -> {"activity", "snapshot", "monitor-health"}]
  BY LenProperties
<1> HIDE DEF m
<1>5. /\ fresh \in Seq(Event) /\ Len(fresh) = m /\ DOMAIN fresh = 1 .. m
      /\ \A i \in 1 .. m : fresh[i].sequence = q + i
  <2>1. fresh = [i \in 1 .. m |-> [sequence |-> q + i, kind |-> kinds[i]]]
    BY <1>2, <1>4
  <2> HIDE DEF fresh
  <2>2. \A i \in 1 .. m : fresh[i] \in Event /\ fresh[i].sequence = q + i
    BY <1>2, <1>4, <2>1 DEF Event
  <2>3. fresh \in [1 .. m -> Event]
    BY <2>1, <2>2
  <2>4. fresh \in Seq(Event)
    BY <1>4, <2>3, SeqDef
  <2>5. Len(fresh) = m
    BY <1>4, <2>3, <2>4, LenProperties
  <2> QED
    BY <2>2, <2>4, <2>5, LenProperties
<1> HIDE DEF fresh
<1>6. /\ Len(e) \in Nat /\ Len(e) <= Retention
      /\ \A i \in 1 .. Len(e) : e[i].sequence = q - Len(e) + i
  BY <1>2, LenProperties DEF HubInv, HubTypes
<1>7. /\ all \in Seq(Event) /\ Len(all) = Len(e) + m
      /\ \A i \in 1 .. Len(e) + m : all[i] = IF i <= Len(e) THEN e[i] ELSE fresh[i - Len(e)]
  <2>1. all = e \o fresh
    BY <1>2
  <2>2. /\ e \o fresh \in Seq(Event) /\ Len(e \o fresh) = Len(e) + Len(fresh)
        /\ \A i \in 1 .. Len(e) + Len(fresh) :
              (e \o fresh)[i] = IF i <= Len(e) THEN e[i] ELSE fresh[i - Len(e)]
    BY <1>5, ConcatProperties
  <2> QED
    BY <1>5, <2>1, <2>2
<1> HIDE DEF all
<1>8. \A i \in 1 .. Len(all) : all[i].sequence = q - Len(e) + i
  <2> TAKE i \in 1 .. Len(all)
  <2>1. CASE i <= Len(e)
    BY <1>6, <1>7, <2>1
  <2>2. CASE i > Len(e)
    <3>1. i - Len(e) \in 1 .. m /\ all[i] = fresh[i - Len(e)]
      BY <1>4, <1>6, <1>7, <2>2
    <3> QED
      BY <1>2, <1>5, <1>6, <3>1
  <2> QED
    BY <1>4, <1>6, <1>7, <2>1, <2>2
<1>9. /\ first \in Nat \ {0} /\ first <= Len(all) + 1
      /\ Len(all) - first + 1 <= Retention
  <2>1. PICK x \in Int : x = Len(all) - Retention + 1
    <3>1. Len(all) \in Int /\ Retention \in Int
      BY <1>4, <1>6, <1>7, MonitorAssumption
    <3> QED
      BY <3>1
  <2>2. Max({1, x}) = IF 1 <= x THEN x ELSE 1
    BY MaxOfTwo
  <2> QED
    BY <1>4, <1>6, <1>7, <2>1, <2>2, MonitorAssumption
<1> HIDE DEF first
<1>10. /\ kept \in Seq(Event) /\ Len(kept) = Len(all) - first + 1
       /\ DOMAIN kept = 1 .. Len(kept)
       /\ \A i \in 1 .. Len(kept) : first + i - 1 \in 1 .. Len(all) /\ kept[i] = all[first + i - 1]
  <2>1. Len(all) \in Nat /\ first \in Int /\ Len(all) \in Int
    BY <1>4, <1>6, <1>7, <1>9
  <2>2. \A i \in first .. Len(all) : all[i] \in Event
    BY <1>7, <1>9, <2>1, ElementOfSeq
  <2>3. /\ kept \in Seq(Event)
        /\ Len(kept) = IF first <= Len(all) THEN Len(all) - first + 1 ELSE 0
        /\ \A i \in 1 .. Len(all) - first + 1 : kept[i] = all[first + i - 1]
    BY <2>1, <2>2, SubSeqProperties
  <2>4. Len(kept) = Len(all) - first + 1
    BY <1>9, <2>1, <2>3
  <2>5. \A i \in 1 .. Len(kept) : first + i - 1 \in 1 .. Len(all)
    BY <1>9, <2>1, <2>4
  <2> QED
    BY <2>3, <2>4, <2>5, LenProperties
<1> HIDE DEF kept
<1>11. wire \in Seq(Event) /\ (c.phase # "open" => wire = c.wire /\ c.wire = <<>>)
  BY <1>3, <1>5, ConcatProperties DEF HubInv, HubTypes, Client
<1>12. /\ DOMAIN wire = 1 .. Len(wire)
       /\ \A i \in DOMAIN wire : wire[i].sequence <= q + m
       /\ Activities(c.wire) \subseteq Activities(wire)
       /\ c.phase = "open" => Activities(fresh) \subseteq Activities(wire)
  <2>1. c.wire \in Seq(Event) /\ DOMAIN c.wire = 1 .. Len(c.wire) /\ Len(c.wire) \in Nat
    BY LenProperties DEF Client
  <2>2. \A i \in DOMAIN c.wire : c.wire[i].sequence \in Nat /\ c.wire[i].sequence <= q
    <3>1. \A i \in DOMAIN c.wire : c.wire[i] \in Event /\ c.wire[i].sequence <= q
      BY <1>2, <1>3, <2>1, ElementOfSeq DEF HubInv, WireIsKnown
    <3> QED
      BY <3>1 DEF Event
  <2>3. CASE c.phase # "open"
    <3>1. wire = c.wire
      BY <1>11, <2>3
    <3> HIDE DEF wire
    <3> QED
      <4>1. \A i \in DOMAIN c.wire : c.wire[i].sequence <= q + m
        BY <1>4, <2>2
      <4> QED
        BY <2>1, <2>3, <3>1, <4>1
  <2>4. CASE c.phase = "open"
    <3>1. /\ wire = c.wire \o fresh /\ Len(wire) = Len(c.wire) + m /\ DOMAIN wire = 1 .. Len(c.wire) + m
          /\ \A i \in 1 .. Len(c.wire) + m :
                wire[i] = IF i <= Len(c.wire) THEN c.wire[i] ELSE fresh[i - Len(c.wire)]
      <4>1. wire = c.wire \o fresh
        BY <1>3, <2>4
      <4>2. /\ Len(c.wire \o fresh) = Len(c.wire) + Len(fresh) /\ c.wire \o fresh \in Seq(Event)
            /\ \A i \in 1 .. Len(c.wire) + Len(fresh) :
                  (c.wire \o fresh)[i] = IF i <= Len(c.wire) THEN c.wire[i] ELSE fresh[i - Len(c.wire)]
        BY <1>5, <2>1, ConcatProperties
      <4>3. DOMAIN (c.wire \o fresh) = 1 .. Len(c.wire \o fresh)
        BY <4>2, LenProperties
      <4> HIDE DEF wire
      <4> QED
        BY <1>5, <4>1, <4>2, <4>3
    <3> HIDE DEF wire
    <3>2. \A i \in DOMAIN c.wire : i \in DOMAIN wire /\ wire[i] = c.wire[i]
      BY <1>4, <2>1, <3>1
    <3>3. \A i \in DOMAIN fresh : Len(c.wire) + i \in DOMAIN wire /\ wire[Len(c.wire) + i] = fresh[i]
      <4> TAKE i \in DOMAIN fresh
      <4>1. i \in 1 .. m /\ Len(c.wire) + i \in 1 .. Len(c.wire) + m /\ ~(Len(c.wire) + i <= Len(c.wire))
        BY <1>4, <1>5, <2>1
      <4>2. Len(c.wire) + i - Len(c.wire) = i
        BY <2>1, <4>1
      <4> QED
        BY <3>1, <4>1, <4>2, SMTT(20)
    <3>4. \A i \in DOMAIN wire : i \in DOMAIN c.wire \/ (i - Len(c.wire) \in 1 .. m /\ wire[i] = fresh[i - Len(c.wire)])
      BY <1>4, <2>1, <3>1
    <3>5. \A i \in DOMAIN wire : wire[i].sequence <= q + m
      BY <1>2, <1>4, <1>5, <2>2, <3>2, <3>4, SMTT(20)
    <3>6. Activities(c.wire) \subseteq Activities(wire) /\ Activities(fresh) \subseteq Activities(wire)
      BY <3>2, <3>3, ActivitiesOf
    <3> QED
      BY <3>1, <3>5, <3>6
  <2> QED
    BY <2>3, <2>4
<1> HIDE DEF wire
<1>13. /\ hub'.sequence = q + m /\ hub'.events = kept /\ hub' \in [sequence : Nat, events : Seq(Event)]
  BY <1>1, <1>2, <1>4, <1>10
<1>14. client' \in Client /\ client'.wire = wire /\ client'.phase = c.phase /\ client'.last = c.last
  BY <1>1, <1>3, <1>11 DEF Client
<1>15. HubTypes'
  <2>1. Len(kept) <= Retention
    BY <1>9, <1>10
  <2>2. \A i \in DOMAIN kept : kept[i].sequence = q + m - Len(kept) + i
    <3> TAKE i \in DOMAIN kept
    <3>1. kept[i].sequence = q - Len(e) + (first + i - 1) /\ i \in 1 .. Len(kept)
      BY <1>8, <1>10
    <3> QED
      <4>1. /\ Len(kept) = Len(all) - first + 1 /\ Len(all) = Len(e) + m
            /\ first \in Int /\ Len(e) \in Int
        BY <1>6, <1>7, <1>9, <1>10
      <4>2. i \in Int /\ m \in Int
        BY <1>4, <3>1
      <4> QED
        BY <3>1, <4>1, <4>2, SMTT(20)
  <2>3. client'.phase # "open" => client'.wire = <<>>
    BY <1>11, <1>14
  <2>4. \A i \in DOMAIN hub'.events : hub'.events[i].sequence = hub'.sequence - Len(hub'.events) + i
    <3>1. hub'.sequence = q + m /\ hub'.events = kept
      BY <1>13
    <3> TAKE i \in DOMAIN hub'.events
    <3>2. i \in DOMAIN kept
      BY <3>1
    <3>3. kept[i].sequence = q + m - Len(kept) + i
      BY <2>2, <3>2
    <3>4. i \in Int /\ Len(kept) \in Int
      BY <1>10, <3>2, LenProperties
    <3> QED
      BY <1>4, <3>1, <3>3, <3>4
  <2> QED
    BY <1>13, <1>14, <2>1, <2>3, <2>4 DEF HubTypes
<1>16. WireIsKnown'
  BY <1>12, <1>13, <1>14 DEF WireIsKnown
<1>17. c.last \in Nat
  BY DEF Client
<1>18. AheadIsLost'
  <2>1. \A n \in q + m + 1 .. c.last : n \in q + 1 .. c.last
    BY <1>2, <1>4, <1>17
  <2> QED
    BY <1>1, <1>2, <1>3, <1>13, <1>14, <2>1 DEF HubInv, AheadIsLost
<1>19. ClientsMissNothing'
  <2> SUFFICES ASSUME NEW n \in Activities(kept)
               PROVE  \/ n \in seen \union lost' \union Activities(wire)
                      \/ c.phase # "open" /\ n > c.last
    BY <1>13, <1>14 DEF ClientsMissNothing
  <2>1. PICK i \in 1 .. Len(kept) : kept[i].sequence = n /\ kept[i].kind = "activity"
    BY <1>10, ActivitiesOf
  <2>2. PICK j \in 1 .. Len(all) : all[j].sequence = n /\ all[j].kind = "activity"
    BY <1>10, <2>1
  <2>3. CASE j <= Len(e)
    <3>1. j \in 1 .. Len(e) /\ all[j] = e[j] /\ DOMAIN e = 1 .. Len(e)
      BY <1>4, <1>6, <1>7, <2>3, LenProperties
    <3>2. n \in Activities(e)
      BY <2>2, <3>1, ActivitiesOf
    <3> QED
      BY <1>1, <1>2, <1>3, <1>12, <3>2 DEF HubInv, ClientsMissNothing
  <2>4. CASE j > Len(e)
    <3>1. j - Len(e) \in 1 .. m /\ all[j] = fresh[j - Len(e)]
      BY <1>4, <1>6, <1>7, <2>4
    <3>2. n \in Activities(fresh) /\ n \in Nat /\ n > q
      <4>1. PICK k \in 1 .. m : fresh[k].sequence = n /\ fresh[k].kind = "activity"
        BY <2>2, <3>1
      <4>2. n \in Activities(fresh)
        BY <1>5, <4>1, ActivitiesOf
      <4>3. n = q + k /\ q \in Nat
        BY <1>5, <4>1
      <4> QED
        BY <1>4, <4>1, <4>2, <4>3
    <3>3. CASE c.phase = "open"
      BY <1>12, <3>2, <3>3
    <3>4. CASE c.phase # "open" /\ n <= c.last
      <4>1. n \in q + 1 .. c.last
        BY <1>2, <1>17, <3>2, <3>4
      <4> QED
        BY <1>1, <1>2, <1>3, <4>1 DEF HubInv, AheadIsLost
    <3> QED
      BY <1>17, <3>2, <3>3, <3>4
  <2> QED
    BY <1>4, <1>6, <1>7, <2>3, <2>4
<1> QED
  BY <1>15, <1>16, <1>18, <1>19 DEF HubInv

\* The events of the hub that are newer than a number are all sent again.
LEMMA AfterHolds ==
    ASSUME HubTypes, NEW last \in Nat
    PROVE  /\ after(last) \in Seq(Event)
           /\ \A i \in DOMAIN after(last) : \E j \in DOMAIN hub.events : after(last)[i] = hub.events[j]
           /\ \A j \in DOMAIN hub.events : hub.events[j].sequence > last =>
                 \E i \in DOMAIN after(last) : after(last)[i] = hub.events[j]
<1>1. PICK e \in Seq(Event) : e = hub.events
  BY DEF HubTypes
<1>2. Len(e) \in Nat /\ DOMAIN e = 1 .. Len(e)
  BY LenProperties
<1> DEFINE newer == {j \in DOMAIN e : e[j].sequence > last} \union {Len(e) + 1}
           first == Min(newer)
           s     == SubSeq(e, first, Len(e))
<1>3. after(last) = s
  BY <1>1 DEF after
<1>4. first \in newer /\ \A j \in newer : first <= j
  <2>1. newer \in SUBSET Nat /\ newer # {}
    BY <1>2
  <2> HIDE DEF newer
  <2>2. \E j \in newer : \A k \in newer : j <= k
    BY <2>1, LeastOfNat
  <2> QED
    BY <2>2 DEF Min
<1>5. first \in 1 .. Len(e) + 1
  BY <1>2, <1>4
<1>6. \A j \in DOMAIN e : e[j].sequence > last => first <= j
  BY <1>4
<1> HIDE DEF newer, first
<1>7. /\ s \in Seq(Event) /\ Len(s) = Len(e) - first + 1
      /\ \A i \in 1 .. Len(e) - first + 1 : s[i] = e[first + i - 1]
  <2>1. first \in Int /\ Len(e) \in Int
    BY <1>2, <1>5
  <2>2. \A i \in first .. Len(e) : e[i] \in Event
    BY <1>2, <1>5, ElementOfSeq
  <2>3. /\ s \in Seq(Event)
        /\ Len(s) = IF first <= Len(e) THEN Len(e) - first + 1 ELSE 0
        /\ \A i \in 1 .. Len(e) - first + 1 : s[i] = e[first + i - 1]
    BY <2>1, <2>2, SubSeqProperties
  <2> QED
    BY <1>2, <1>5, <2>3
<1>8. DOMAIN s = 1 .. Len(e) - first + 1
  BY <1>7, LenProperties
<1> HIDE DEF s
<1>9. ASSUME NEW i \in DOMAIN s PROVE \E j \in DOMAIN e : s[i] = e[j]
  <2>1. first + i - 1 \in DOMAIN e
    BY <1>2, <1>5, <1>8, <1>9
  <2> QED
    BY <1>7, <1>8, <1>9, <2>1
<1>10. ASSUME NEW j \in DOMAIN e, e[j].sequence > last PROVE \E i \in DOMAIN s : s[i] = e[j]
  <2>1. first <= j /\ j \in 1 .. Len(e)
    BY <1>2, <1>6, <1>10
  <2>2. j - first + 1 \in 1 .. Len(e) - first + 1 /\ first + (j - first + 1) - 1 = j
    BY <1>2, <1>5, <2>1
  <2> QED
    BY <1>7, <1>8, <2>2
<1> QED
  BY <1>1, <1>3, <1>7, <1>9, <1>10

\* The number of an event of the hub is one that was given.
LEMMA EventsAreNumbered ==
    ASSUME HubTypes
    PROVE  \A i \in DOMAIN hub.events : hub.events[i].sequence \in Nat
                                        /\ hub.events[i].sequence <= hub.sequence
<1>1. PICK e \in Seq(Event), q \in Nat : e = hub.events /\ q = hub.sequence
  BY DEF HubTypes
<1>2. Len(e) \in Nat /\ DOMAIN e = 1 .. Len(e)
  BY LenProperties
<1> SUFFICES ASSUME NEW i \in DOMAIN e PROVE e[i].sequence \in Nat /\ e[i].sequence <= q
  BY <1>1
<1>3. e[i].sequence = q - Len(e) + i
  BY <1>1 DEF HubTypes
<1>4. e[i] \in Event
  BY <1>2, ElementOfSeq
<1> QED
  BY <1>2, <1>3, <1>4 DEF Event

\* The stream opens with what the browser has not got and the hub still has.
LEMMA OpenKeepsHub ==
    ASSUME HubInv, OpenStream
    PROVE  HubInv'
<1> DEFINE now  == [sequence |-> hub.sequence, kind |-> "snapshot"]
           wire == <<now>> \o after(client.last)
<1>1. /\ client.phase # "open" /\ client' = [client EXCEPT !.phase = "open", !.wire = wire]
      /\ UNCHANGED <<hub, seen, lost>>
  BY DEF OpenStream, Ready
<1>2. PICK c \in Client : c = client
  BY DEF HubInv, HubTypes
<1>3. PICK a \in Seq(Event) : a = after(c.last)
  BY <1>2, AfterHolds DEF HubInv, Client
<1>4. /\ Len(a) \in Nat /\ DOMAIN a = 1 .. Len(a)
      /\ \A i \in DOMAIN a : \E j \in DOMAIN hub.events : a[i] = hub.events[j]
      /\ \A j \in DOMAIN hub.events : hub.events[j].sequence > c.last =>
            \E i \in DOMAIN a : a[i] = hub.events[j]
  <2>1. c.last \in Nat
    BY DEF Client
  <2> QED
    BY <1>3, <2>1, AfterHolds, LenProperties DEF HubInv
<1>5. hub.sequence \in Nat /\ now \in Event /\ now.sequence = hub.sequence
  BY DEF HubInv, HubTypes, Event
<1> HIDE DEF now
<1>6. /\ wire \in Seq(Event) /\ DOMAIN wire = 1 .. 1 + Len(a)
      /\ wire[1] = now /\ \A i \in 1 .. Len(a) : wire[i + 1] = a[i]
  <2>1. <<now>> \in Seq(Event) /\ Len(<<now>>) = 1 /\ <<now>>[1] = now
    BY <1>5
  <2>2. wire = <<now>> \o a
    BY <1>2, <1>3
  <2> HIDE DEF wire
  <2>3. /\ wire \in Seq(Event) /\ Len(wire) = 1 + Len(a)
        /\ \A i \in 1 .. 1 + Len(a) : wire[i] = IF i <= 1 THEN <<now>>[i] ELSE a[i - 1]
    BY <2>1, <2>2, ConcatProperties
  <2>4. DOMAIN wire = 1 .. 1 + Len(a)
    BY <2>3, LenProperties
  <2>5. wire[1] = now
    BY <1>4, <2>1, <2>3
  <2>6. ASSUME NEW i \in 1 .. Len(a) PROVE wire[i + 1] = a[i]
    <3>1. i + 1 \in 1 .. 1 + Len(a) /\ ~(i + 1 <= 1) /\ i + 1 - 1 = i
      BY <1>4, <2>6
    <3> QED
      BY <2>3, <3>1
  <2> QED
    BY <2>3, <2>4, <2>5, <2>6
<1> HIDE DEF wire
<1>7. client' \in Client /\ client'.phase = "open" /\ client'.wire = wire /\ client'.last = c.last
  BY <1>1, <1>2, <1>6 DEF Client
<1>8. HubTypes' /\ AheadIsLost'
  BY <1>1, <1>2, <1>7 DEF HubInv, HubTypes, AheadIsLost
<1>9. \A i \in DOMAIN wire : wire[i].sequence <= hub.sequence
  <2> TAKE i \in DOMAIN wire
  <2>1. CASE i = 1
    BY <1>5, <1>6, <2>1
  <2>2. CASE i # 1
    <3>1. i - 1 \in 1 .. Len(a) /\ i - 1 + 1 = i
      BY <1>4, <1>6, <2>2
    <3>2. wire[i] = a[i - 1]
      BY <1>6, <3>1
    <3> QED
      BY <1>4, <3>1, <3>2, EventsAreNumbered DEF HubInv
  <2> QED
    BY <2>1, <2>2
<1>10. WireIsKnown'
  BY <1>1, <1>7, <1>9 DEF WireIsKnown
<1>11. ASSUME NEW n \in Activities(hub.events), n \notin seen \union lost
       PROVE  n \in Activities(wire)
  <2>1. client.wire = <<>>
    BY <1>1 DEF HubInv, HubTypes
  <2>2. Activities(client.wire) = {}
    BY <2>1 DEF Activities, ToSet
  <2>3. n > c.last
    BY <1>2, <1>11, <2>2 DEF HubInv, ClientsMissNothing
  <2>4. PICK j \in DOMAIN hub.events : hub.events[j].sequence = n /\ hub.events[j].kind = "activity"
    BY <1>11, ActivitiesOf
  <2>5. PICK i \in 1 .. Len(a) : a[i] = hub.events[j]
    BY <1>4, <2>3, <2>4
  <2>6. i + 1 \in DOMAIN wire /\ wire[i + 1] = hub.events[j]
    BY <1>4, <1>6, <2>5
  <2> QED
    BY <2>4, <2>6, ActivitiesOf
<1>12. ClientsMissNothing'
  BY <1>1, <1>7, <1>11 DEF ClientsMissNothing
<1> QED
  BY <1>8, <1>10, <1>12 DEF HubInv

\* What the browser gets it has seen, and the rest is still on its way.
LEMMA ReceiveKeepsHub ==
    ASSUME HubInv, Receive
    PROVE  HubInv'
<1>1. /\ client.phase = "open" /\ client.wire # <<>>
      /\ client' = [client EXCEPT !.wire = Tail(client.wire), !.last = Head(client.wire).sequence]
      /\ seen' = seen \union Activities(<<Head(client.wire)>>)
      /\ UNCHANGED <<hub, lost>>
  BY DEF Receive, HubInv, HubTypes, Client
<1>2. PICK c \in Client : c = client
  BY DEF HubInv, HubTypes
<1>3. PICK w \in Seq(Event) : w = c.wire
  BY DEF Client
<1>4. /\ w # <<>> /\ Head(w) \in Event /\ Tail(w) \in Seq(Event) /\ Len(Tail(w)) = Len(w) - 1
      /\ \A i \in 1 .. Len(Tail(w)) : Tail(w)[i] = w[i + 1]
      /\ Len(w) \in Nat \ {0} /\ DOMAIN w = 1 .. Len(w) /\ DOMAIN Tail(w) = 1 .. Len(Tail(w))
  BY <1>1, <1>2, <1>3, HeadTailProperties, LenProperties, EmptySeq
<1>5. Head(w) = w[1]
  BY <1>4
<1>6. /\ client' \in Client /\ client'.phase = "open" /\ client'.wire = Tail(w)
      /\ client'.last = Head(w).sequence
  BY <1>1, <1>2, <1>3, <1>4 DEF Client, Event
<1>7. \A i \in DOMAIN w : w[i].sequence <= hub.sequence
  BY <1>2, <1>3 DEF HubInv, WireIsKnown
<1>8. hub.sequence \in Nat /\ Head(w).sequence \in Nat /\ Head(w).sequence <= hub.sequence
  BY <1>4, <1>5, <1>7 DEF HubInv, HubTypes, Event
<1>9. HubTypes'
  BY <1>1, <1>6 DEF HubInv, HubTypes
<1>10. WireIsKnown'
  <2> SUFFICES ASSUME NEW i \in DOMAIN Tail(w) PROVE Tail(w)[i].sequence <= hub.sequence
    BY <1>1, <1>6 DEF WireIsKnown
  <2>1. i + 1 \in DOMAIN w /\ Tail(w)[i] = w[i + 1]
    BY <1>4
  <2> QED
    BY <1>7, <2>1
<1>11. AheadIsLost'
  BY <1>1, <1>6, <1>8 DEF AheadIsLost
<1>12. \A n \in Activities(w) : n \in seen' \union Activities(Tail(w))
  <2> TAKE n \in Activities(w)
  <2>1. PICK i \in DOMAIN w : w[i].sequence = n /\ w[i].kind = "activity"
    BY ActivitiesOf
  <2>2. CASE i = 1
    <3>1. n \in Activities(<<Head(w)>>)
      BY <1>5, <2>1, <2>2, ActivitiesOf
    <3> QED
      BY <1>1, <1>2, <1>3, <3>1
  <2>3. CASE i # 1
    <3>1. i - 1 \in DOMAIN Tail(w) /\ i - 1 + 1 = i
      BY <1>4, <2>3
    <3>2. Tail(w)[i - 1] = w[i]
      BY <1>4, <3>1
    <3>3. Tail(w)[i - 1].sequence = n /\ Tail(w)[i - 1].kind = "activity"
      BY <2>1, <3>2
    <3>4. n \in Activities(Tail(w))
      BY <3>1, <3>3, ActivitiesOf
    <3> QED
      BY <3>4
  <2> QED
    BY <2>2, <2>3
<1>13. ClientsMissNothing'
  BY <1>1, <1>2, <1>3, <1>6, <1>12 DEF HubInv, ClientsMissNothing
<1> QED
  BY <1>9, <1>10, <1>11, <1>13 DEF HubInv

\* A browser without a stream.
LEMMA ClosedIsClient ==
    ASSUME NEW last \in Nat
    PROVE  /\ Closed(last) \in Client /\ Closed(last).phase = "closed"
           /\ Closed(last).wire = <<>> /\ Closed(last).last = last
  BY EmptySeq DEF Closed, Client

\* What was on its way is given up, or will be asked for.
LEMMA CutKeepsHub ==
    ASSUME HubInv, CutStream
    PROVE  HubInv'
<1>1. /\ client' = Closed(client.last)
      /\ lost' = lost \union {n \in Activities(client.wire) \ seen : n <= client.last}
      /\ UNCHANGED <<hub, seen>>
  BY DEF CutStream
<1>2. client.last \in Nat
  BY DEF HubInv, HubTypes, Client
<1>3. /\ client' \in Client /\ client'.phase = "closed" /\ client'.wire = <<>>
      /\ client'.last = client.last
  BY <1>1, <1>2, ClosedIsClient
<1>4. HubTypes' /\ WireIsKnown' /\ AheadIsLost'
  BY <1>1, <1>3 DEF HubInv, HubTypes, WireIsKnown, AheadIsLost
<1>5. ASSUME NEW n \in Activities(hub.events)
      PROVE  n \in seen \union lost' \/ n > client.last
  <2>1. n \in Nat
    BY ActivitiesOf, EventsAreNumbered DEF HubInv
  <2> QED
    BY <1>1, <1>2, <1>5, <2>1 DEF HubInv, ClientsMissNothing
<1>6. ClientsMissNothing'
  BY <1>1, <1>3, <1>5 DEF ClientsMissNothing
<1> QED
  BY <1>4, <1>6 DEF HubInv

\* A stream that is being opened, or nothing of the hub.
LEMMA HubKept ==
    ASSUME HubInv, UNCHANGED <<hub, seen, lost>>,
           \/ client' = client
           \/ client.phase = "closed"
              /\ \E p \in {"ready", "waiting"} : client' = [client EXCEPT !.phase = p]
    PROVE  HubInv'
<1>1. PICK c \in Client : c = client
  BY DEF HubInv, HubTypes
<1>2. /\ client' \in Client /\ client'.wire = c.wire /\ client'.last = c.last
      /\ c.phase # "open" => client'.phase # "open"
      /\ client'.phase # "open" => c.phase # "open"
  BY <1>1 DEF Client
<1>3. HubTypes' /\ WireIsKnown' /\ AheadIsLost'
  BY <1>1, <1>2 DEF HubInv, HubTypes, WireIsKnown, AheadIsLost
<1>4. ClientsMissNothing'
  BY <1>1, <1>2 DEF HubInv, ClientsMissNothing
<1> QED
  BY <1>3, <1>4 DEF HubInv

\* The hub is empty at first;
LEMMA HubStart == Init => HubInv
<1> SUFFICES ASSUME MonitorInit PROVE HubInv
  BY DEF Init
<1>1. /\ hub = [sequence |-> 0, events |-> <<>>] /\ client = Closed(0) /\ lost = {}
  BY DEF MonitorInit
<1>2. /\ hub \in [sequence : Nat, events : Seq(Event)] /\ hub.events = <<>> /\ hub.sequence = 0
      /\ Len(hub.events) = 0 /\ DOMAIN hub.events = {}
  BY <1>1, EmptySeq
<1>3. client \in Client /\ client.phase = "closed" /\ client.wire = <<>> /\ client.last = 0
  BY <1>1, ClosedIsClient
<1>4. HubTypes
  BY <1>2, <1>3, MonitorAssumption DEF HubTypes
<1>5. WireIsKnown /\ AheadIsLost
  BY <1>2, <1>3 DEF WireIsKnown, AheadIsLost
<1>6. ClientsMissNothing
  BY <1>2, ActivitiesOf DEF ClientsMissNothing
<1> QED
  BY <1>4, <1>5, <1>6 DEF HubInv

\* every step of the Monitor keeps what the hub, the stream and the browser know of each other,
LEMMA HubStep ==
    ASSUME TailInv, HubInv, MonitorNext
    PROVE  HubInv'
<1>1. CASE WriteSession
  BY <1>1, HubKept DEF WriteSession
<1>2. CASE RewriteSession
  BY <1>2, HubKept DEF RewriteSession
<1>3. CASE StartRefresh
  BY <1>3, HubKept DEF StartRefresh
<1>4. CASE ReadSession
  BY <1>4, HubKept DEF ReadSession
<1>5. CASE StoreLine
  <2>1. PICK n \in Nat : n = parseSessionRecord(scan.buffer, scan.at)
    BY <1>5, StoreKeepsTail
  <2>2. publish([i \in 1 .. n |-> "activity"]) /\ seen' = seen
    BY <1>5, <2>1 DEF StoreLine
  <2>3. [i \in 1 .. n |-> "activity"] \in [1 .. n -> {"activity", "snapshot", "monitor-health"}]
    OBVIOUS
  <2>4. [i \in 1 .. n |-> "activity"] \in Seq({"activity", "snapshot", "monitor-health"})
    BY <2>3, SeqDef
  <2> QED
    BY <2>2, <2>4, Publishes
<1>6. CASE EndScan
  <2>1. publish(<<"snapshot">>) /\ seen' = seen
    BY <1>6 DEF EndScan
  <2>2. <<"snapshot">> \in Seq({"activity", "snapshot", "monitor-health"})
    OBVIOUS
  <2> QED
    BY <2>1, <2>2, Publishes
<1>7. CASE RefreshFails
  <2>1. publish(<<"monitor-health">>) /\ seen' = seen
    BY <1>7 DEF RefreshFails
  <2>2. <<"monitor-health">> \in Seq({"activity", "snapshot", "monitor-health"})
    OBVIOUS
  <2> QED
    BY <2>1, <2>2, Publishes
<1>8. CASE Connect
  BY <1>8, HubKept DEF Connect
<1>9. CASE OpenStream
  BY <1>9, OpenKeepsHub
<1>10. CASE Receive
  BY <1>10, ReceiveKeepsHub
<1>11. CASE CutStream
  BY <1>11, CutKeepsHub
<1>12. CASE RestartMonitor
  <2>1. /\ hub' = [sequence |-> 0, events |-> <<>>] /\ client' = Closed(client.last)
        /\ lost' = 1 .. client.last
    BY <1>12 DEF RestartMonitor
  <2>2. client.last \in Nat
    BY DEF HubInv, HubTypes, Client
  <2>3. /\ hub' \in [sequence : Nat, events : Seq(Event)] /\ hub'.events = <<>> /\ hub'.sequence = 0
        /\ Len(hub'.events) = 0 /\ DOMAIN hub'.events = {}
    BY <2>1, EmptySeq
  <2>4. /\ client' \in Client /\ client'.phase = "closed" /\ client'.wire = <<>>
        /\ client'.last = client.last
    BY <2>1, <2>2, ClosedIsClient
  <2>5. HubTypes' /\ WireIsKnown'
    BY <2>3, <2>4, MonitorAssumption DEF HubTypes, WireIsKnown
  <2>6. AheadIsLost'
    BY <2>1, <2>2, <2>3, <2>4 DEF AheadIsLost
  <2>7. ClientsMissNothing'
    BY <2>3, ActivitiesOf DEF ClientsMissNothing
  <2> QED
    BY <2>5, <2>6, <2>7 DEF HubInv
<1> QED
  BY <1>1, <1>2, <1>3, <1>4, <1>5, <1>6, <1>7, <1>8, <1>9, <1>10, <1>11, <1>12 DEF MonitorNext

\* and so does every step of the whole.
LEMMA HubAlways == Spec => []HubInv
<1>1. TailInv /\ HubInv /\ [Next]_vars => HubInv'
  <2> SUFFICES ASSUME TailInv, HubInv, [Next]_vars PROVE HubInv'
    OBVIOUS
  <2>1. CASE MonitorNext
    BY <2>1, HubStep
  <2>2. CASE UNCHANGED sVars
    BY <2>2, HubKept DEF sVars
  <2> QED
    BY <2>1, <2>2, StepOfOnePart
<1> QED
  BY <1>1, HubStart, TailAlways, PTL DEF Spec

\* NothingIsMissed: an activity in the hub was seen, was given up, is on its way, or comes
\* with the next stream.
THEOREM NothingIsMissed == Spec => []ClientsMissNothing
<1>1. HubInv => ClientsMissNothing
  BY DEF HubInv
<1> QED
  BY <1>1, HubAlways, PTL

\* TypeCorrect: the registries, drafts, requests and job rows hold what their readers
\* accept, and the events of the Monitor are numbered without a gap.
THEOREM TypeCorrect == Spec => []TypeOK
<1>1. ReleaseInv => ReleaseTypeOK
  BY DEF ReleaseInv, ReleaseTypes, ReleaseTypeOK, Registry, Own, Approval
<1>2. ManagerInv => ManagerTypeOK
  BY DEF ManagerInv, ManagerTypes, ManagerTypeOK, Entries
<1>3. ASSUME HrInv PROVE HrTypeOK
  <2>1. PICK s \in Seq(HrRow) : s = hrJobs
    BY <1>3 DEF HrInv, HrTypes
  <2>2. \A j \in DOMAIN s : /\ s[j].review \in Ids /\ s[j].status \in Statuses
                            /\ s[j].result \in Reports \cup {None}
    <3>1. \A j \in DOMAIN s : s[j] \in HrRow
      BY LenProperties
    <3> QED
      BY <3>1 DEF HrRow
  <2>3. \A report \in Reports : report # None => \A i \in DOMAIN report : ValidFinding(report[i])
    BY DEF Reports, parseHrAgentOutput
  <2> QED
    BY <1>3, <2>1, <2>2, <2>3 DEF HrInv, HrTypes, JobsAreKept, HrTypeOK, Ids, Statuses
<1>4. TailInv /\ HubInv => MonitorTypeOK
  BY DEF TailInv, TailTypes, HubInv, HubTypes, MonitorTypeOK, Client
<1> QED
  BY <1>1, <1>2, <1>3, <1>4, ReleaseAlways, ManagerAlways, HrAlways, TailAlways, HubAlways, PTL DEF TypeOK
=============================================================================
