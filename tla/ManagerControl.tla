---------------------------- MODULE ManagerControl ----------------------------
(***************************************************************************)
(* manager-control: the managed projects (ensure, resolve, fetch) and the  *)
(* way of a request from a draft of the Manager agent into the queue of    *)
(* the orchestrator.  The registry (projects.json) is read and written as  *)
(* a whole, under no lock; a draft is read once and published with a link. *)
(* The symbolic-link checks on the directories are not modelled.           *)
(***************************************************************************)
EXTENDS ControlCommands, RoutePolicy

CONSTANTS Projects,      \* the pairs of a workflow and a project name
          Remotes,       \* [valid, protocol, credentials, host]
          AllowedHosts,  \* allowed_git_hosts of the policy
          Drafts,        \* names of draft files
          Contents       \* what a draft may say: [request_type, authorized, own_route, route_plan]

\* A new project has no remote, a remote one has.
projectFromOptions == [mode : {"new"}, remote : {None}] \union [mode : {"remote"}, remote : Remotes]

ASSUME ManagerAssumption ==
    None \notin Remotes \union projectFromOptions \union {"empty", "repository"}

VARIABLES
    directory,    \* the directory of a project: None, "empty" or "repository"
    projects,     \* the registry: [mode, remote] of the registered projects
    manager,      \* what a running command holds
    draft,        \* the file in drafts/
    requests,     \* the file in requests/
    receipts,     \* the drafts whose request has been answered
    ensured,      \* history: the projects an ensure has returned
    validated,    \* history: the drafts reported VALID, with their content
    interfered    \* history: two ensure commands have run at the same time

mVars == <<directory, projects, manager, draft, requests, receipts, ensured, validated, interfered>>
projectVars == <<directory, projects, ensured, interfered>>
draftVars == <<draft, requests, receipts, validated>>

ManagerInit ==
    /\ directory = [k \in Projects |-> None]
    /\ projects = [k \in Projects |-> None]
    /\ manager = [c \in Clients |-> None]
    /\ draft = [f \in Drafts |-> None]
    /\ requests = [f \in Drafts |-> None]
    /\ receipts = {}
    /\ ensured = {}
    /\ validated = {}
    /\ interfered = FALSE

AtStep(c, steps) == manager[c] # None /\ manager[c].at \in steps
MoveTo(c, step) == manager' = [manager EXCEPT ![c].at = step]
EndManager(c) == manager' = [manager EXCEPT ![c] = None]

-----------------------------------------------------------------------------
(* Managed projects *)

validateRemote(remote) ==
    IF ~remote.valid THEN "MANAGER_REMOTE_INVALID"
    ELSE IF remote.protocol \notin {"https", "ssh"} THEN "MANAGER_REMOTE_PROTOCOL_DENIED"
    ELSE IF remote.credentials THEN "MANAGER_REMOTE_CREDENTIALS_DENIED"
    ELSE IF remote.host \notin AllowedHosts THEN "MANAGER_GIT_HOST_DENIED" ELSE ""

inspect(k) == directory[k] = "repository"
resolveProject(k) == projects[k] # None /\ inspect(k)
fetchProject(k) == resolveProject(k) /\ projects[k].remote # None /\ validateRemote(projects[k].remote) = ""

ensureProject(c) ==
    /\ manager[c] = None /\ Take("project")
    /\ \E k \in Projects, p \in projectFromOptions :
          /\ directory[k] = None
          /\ p.mode = "remote" => validateRemote(p.remote) = ""
          /\ manager' = [manager EXCEPT ![c] = [at |-> p.mode, project |-> k, entry |-> p]]
    /\ interfered' = (interfered \/ \E d \in Clients : AtStep(d, {"new", "init", "remote", "register", "write"}))
    /\ UNCHANGED <<directory, projects, ensured, draftVars>>

\* mkdir of a new project: it fails where the directory has appeared meanwhile.
MakeDirectory(c) ==
    LET k == manager[c].project IN
    /\ AtStep(c, {"new"})
    /\ IF directory[k] = None
       THEN directory' = [directory EXCEPT ![k] = "empty"] /\ MoveTo(c, "init")
       ELSE EndManager(c) /\ UNCHANGED directory
    /\ UNCHANGED <<budget, projects, ensured, interfered, draftVars>>

\* git init and the first commit; git may fail.
InitRepository(c) ==
    /\ AtStep(c, {"init"})
    /\ \/ /\ directory' = [directory EXCEPT ![manager[c].project] = "repository"]
          /\ MoveTo(c, "register")
       \/ EndManager(c) /\ UNCHANGED directory
    /\ UNCHANGED <<budget, projects, ensured, interfered, draftVars>>

\* git clone: it accepts an empty directory, and one that is killed leaves a part.
CloneProject(c) ==
    LET k == manager[c].project IN
    /\ AtStep(c, {"remote"})
    /\ \/ /\ directory[k] # "repository"
          /\ directory' = [directory EXCEPT ![k] = "repository"]
          /\ MoveTo(c, "register")
       \/ /\ directory[k] = None
          /\ directory' = [directory EXCEPT ![k] = "empty"] /\ EndManager(c)
       \/ EndManager(c) /\ UNCHANGED directory
    /\ UNCHANGED <<budget, projects, ensured, interfered, draftVars>>

\* register: the repository is inspected and the registry read,
readRegistry(c) ==
    /\ AtStep(c, {"register"})
    /\ IF inspect(manager[c].project)
       THEN manager' = [manager EXCEPT ![c] =
               [at |-> "write", project |-> @.project, entry |-> @.entry, registry |-> projects]]
       ELSE EndManager(c)
    /\ UNCHANGED <<budget, projectVars, draftVars>>

\* and the registry that was read is written with the new entry.
register(c) ==
    /\ AtStep(c, {"write"})
    /\ projects' = [manager[c].registry EXCEPT ![manager[c].project] = manager[c].entry]
    /\ ensured' = ensured \union {manager[c].project}
    /\ EndManager(c)
    /\ UNCHANGED <<budget, directory, interfered, draftVars>>

-----------------------------------------------------------------------------
(* Requests *)

assertManagerRequest(content) ==
    IF ~content.authorized THEN "MANAGER_REQUEST_AUTH_INVALID"
    ELSE IF content.request_type = "DECISION" THEN ""
    ELSE IF ~content.own_route THEN "ROUTE_PLAN_WORKFLOW_MISMATCH"
    ELSE compileRoutePlan(content.route_plan)

validateReadDraft(content) ==
    IF assertManagerRequest(content) # "" THEN assertManagerRequest(content)
    ELSE IF content.request_type \in {"CREATE", "CHANGE"} THEN "" ELSE "MANAGER_REQUEST_DRAFT_TYPE_INVALID"

\* The bytes of a draft; there is none to be read where there is no file.
readDraft(f) == draft[f]

\* The Manager agent writes its draft whenever it likes.
EditDraft ==
    /\ Take("draft")
    /\ \E f \in Drafts, content \in Contents : draft' = [draft EXCEPT ![f] = content]
    /\ UNCHANGED <<projectVars, manager, requests, receipts, validated>>

\* orchestrator-validate-request reports the hash of what it has read.
validateDraft ==
    /\ Take("draft")
    /\ \E f \in Drafts :
          /\ readDraft(f) # None
          /\ validateReadDraft(readDraft(f)) = ""
          /\ validated' = validated \union {<<f, readDraft(f)>>}
    /\ UNCHANGED <<projectVars, manager, draft, requests, receipts>>

\* Mutant of submitDraft: what is read is validated but not compared with the hash.
SubmitUncompared(c) ==
    /\ manager[c] = None /\ Take("draft")
    /\ \E v \in validated :
          /\ readDraft(v[1]) # None
          /\ validateReadDraft(readDraft(v[1])) = ""
          /\ manager' = [manager EXCEPT ![c] = [at |-> "publish", file |-> v[1], value |-> readDraft(v[1])]]
    /\ UNCHANGED <<projectVars, draftVars>>

\* orchestrator-submit-request is given a reported hash: the draft is read, compared and
\* validated again.
submitDraft(c) ==
    /\ manager[c] = None /\ Take("draft")
    /\ \E v \in validated :
          /\ readDraft(v[1]) = v[2]
          /\ validateReadDraft(readDraft(v[1])) = ""
          /\ manager' = [manager EXCEPT ![c] = [at |-> "publish", file |-> v[1], value |-> readDraft(v[1])]]
    /\ UNCHANGED <<projectVars, draftVars>>

\* The bytes that were read are linked into the queue, where nothing may be yet.
PublishRequest(c) ==
    LET f == manager[c].file IN
    /\ AtStep(c, {"publish"})
    /\ requests' = IF requests[f] = None /\ f \notin receipts
                   THEN [requests EXCEPT ![f] = manager[c].value] ELSE requests
    /\ EndManager(c)
    /\ UNCHANGED <<budget, projectVars, draft, receipts, validated>>

\* The orchestrator writes its receipt (ServiceLoop).
AnswerRequest ==
    /\ \E f \in Drafts :
          /\ requests[f] # None /\ f \notin receipts
          /\ receipts' = receipts \union {f}
    /\ UNCHANGED <<budget, projectVars, manager, draft, requests, validated>>

ManagerDies(c) ==
    /\ manager[c] # None
    /\ EndManager(c)
    /\ UNCHANGED <<budget, projectVars, draftVars>>

-----------------------------------------------------------------------------
ManagerTypeOK ==
    /\ directory \in [Projects -> {None, "empty", "repository"}]
    /\ \A k \in Projects : projects[k] # None => projects[k] \in projectFromOptions
    /\ \A f \in Drafts :
          /\ draft[f] # None => draft[f] \in Contents
          /\ requests[f] # None => requests[f] \in Contents
    /\ receipts \subseteq {f \in Drafts : requests[f] # None}

\* What an ensure has returned can be resolved, and fetched when it has a remote.
EnsuredIsResolvable ==
    \A k \in ensured :
        resolveProject(k) /\ (projects[k].mode = "remote" => fetchProject(k))

\* QueuedIsValidated: what submitDraft puts into the queue is, byte for byte, a content
\* that was reported VALID for this file, however the draft is edited meanwhile, and no
\* later submission replaces it.
QueuedIsValidated ==
    [][\A f \in Drafts :
        /\ requests'[f] # None => <<f, requests'[f]>> \in validated
        /\ requests[f] # None => requests'[f] = requests[f]]_<<requests, validated>>
=============================================================================
