---------------------------- MODULE ReleaseControl ----------------------------
(***************************************************************************)
(* release-control: the registry of URL paths (paths.json), preflight and  *)
(* deploy.  A command reads the registry once and writes it back as a      *)
(* whole; a deployment lies in between.  No lock keeps two commands apart. *)
(* All projects here have the same name, so that every two compete for the *)
(* path <name>, <name>-2, ...: a path is its suffix.                       *)
(***************************************************************************)
EXTENDS ControlCommands, Sequences

CONSTANTS Keys,            \* the pairs of a workflow and a project
          Candidates,      \* commits to deploy
          ReservedPaths    \* reserved_url_paths of the policy

Paths == 1 .. Cardinality(Keys) + Cardinality(ReservedPaths)
RegistryRow == [commit : Candidates, path : Paths, status : {"READY_TO_DEPLOY", "DEPLOYED"}]

ASSUME ReleaseAssumption == IsFiniteSet(Keys) /\ IsFiniteSet(ReservedPaths) /\ None \notin RegistryRow

VARIABLES
    reservations,   \* the registry: what is reserved for a key
    approvals,      \* the resolved APPROVE_DEPLOY answers in the kernel database
    releaser,       \* what a running command holds
    reported,       \* history: the reservations a preflight has returned
    deployments,    \* history: what the deployment entrypoint was run with, by key
    overlapped      \* history: two commands have run at the same time

rVars == <<reservations, approvals, releaser, reported, deployments, overlapped>>

Reservation(commit, path, status) == [commit |-> commit, path |-> path, status |-> status]
Released(key, r) == [key |-> key, commit |-> r.commit, path |-> r.path]

ReleaseInit ==
    /\ reservations = [k \in Keys |-> None]
    /\ approvals = {}
    /\ releaser = [c \in Clients |-> None]
    /\ reported = {}
    /\ deployments = [k \in Keys |-> <<>>]
    /\ overlapped = FALSE

\* A command starts: it reads the policy and the registry.
Begin(c, action, key, commit) ==
    /\ releaser[c] = None /\ Take("release")
    /\ releaser' = [releaser EXCEPT ![c] =
          [action |-> action, key |-> key, commit |-> commit, registry |-> reservations]]
    /\ overlapped' = (overlapped \/ \E d \in Clients : releaser[d] # None)

At(c, action) == releaser[c] # None /\ releaser[c].action = action
End(c) == releaser' = [releaser EXCEPT ![c] = None]
GoOn(c, action) == releaser' = [releaser EXCEPT ![c].action = action]
Existing(c) == releaser[c].registry[releaser[c].key]
writeRegistry(c, reservation) ==
    reservations' = [releaser[c].registry EXCEPT ![releaser[c].key] = reservation]

\* Mutant of FreePath: the paths other workflows have reserved are not looked at.
UnreservedPath(registry) ==
    CHOOSE p \in Paths \ ReservedPaths : \A q \in Paths \ ReservedPaths : p <= q

\* The first path that is not used.
FreePath(registry) ==
    LET used == ReservedPaths \union {registry[k].path : k \in {l \in Keys : registry[l] # None}}
    IN CHOOSE p \in Paths \ used : \A q \in Paths \ used : p <= q

-----------------------------------------------------------------------------
(* preflight *)

preflight(c) ==
    /\ \E k \in Keys, m \in Candidates : Begin(c, "preflight", k, m)
    /\ UNCHANGED <<reservations, approvals, reported, deployments>>

\* A reservation is returned for its own commit and refused for another.
PreflightExisting(c) ==
    /\ At(c, "preflight") /\ Existing(c) # None
    /\ reported' = IF Existing(c).commit = releaser[c].commit
                   THEN reported \union {Released(releaser[c].key, Existing(c))}
                   ELSE reported
    /\ End(c)
    /\ UNCHANGED <<budget, reservations, approvals, deployments, overlapped>>

\* Mutant of PreflightReserve: only the new reservation is written.
PreflightReserveAlone(c) ==
    LET r == Reservation(releaser[c].commit, FreePath(releaser[c].registry), "READY_TO_DEPLOY") IN
    /\ At(c, "preflight") /\ Existing(c) = None
    /\ reservations' = [k \in Keys |-> IF k = releaser[c].key THEN r ELSE None]
    /\ reported' = reported \union {Released(releaser[c].key, r)}
    /\ End(c)
    /\ UNCHANGED <<budget, approvals, deployments, overlapped>>

PreflightReserve(c) ==
    LET r == Reservation(releaser[c].commit, FreePath(releaser[c].registry), "READY_TO_DEPLOY") IN
    /\ At(c, "preflight") /\ Existing(c) = None
    /\ writeRegistry(c, r)
    /\ reported' = reported \union {Released(releaser[c].key, r)}
    /\ End(c)
    /\ UNCHANGED <<budget, approvals, deployments, overlapped>>

\* The human approves what the release agent's result names: the key and the commit of a
\* preflight, but any path, since the path is taken from the result and not the registry.
ApproveDeployment ==
    /\ Take("release")
    /\ \E r \in reported, p \in Paths : approvals' = approvals \union {[r EXCEPT !.path = p]}
    /\ UNCHANGED <<reservations, releaser, reported, deployments, overlapped>>

-----------------------------------------------------------------------------
(* deploy *)

deploy(c) ==
    /\ \E k \in Keys, m \in Candidates :
          /\ reservations[k] # None
          /\ reservations[k].commit = m /\ reservations[k].status = "READY_TO_DEPLOY"
          /\ Begin(c, "deploy", k, m)
    /\ UNCHANGED <<reservations, approvals, reported, deployments>>

approvedDeployment(c) == Released(releaser[c].key, Existing(c)) \in approvals

RequireApproval(c) ==
    /\ At(c, "deploy")
    /\ IF approvedDeployment(c) THEN GoOn(c, "invoke") ELSE End(c)
    /\ UNCHANGED <<budget, reservations, approvals, reported, deployments, overlapped>>

\* The entrypoint is run and the URL is asked; either may fail.
Invoke(c) ==
    /\ At(c, "invoke")
    /\ deployments' = [deployments EXCEPT ![releaser[c].key] =
          Append(@, [released |-> Released(releaser[c].key, Existing(c)), settled |-> FALSE])]
    /\ GoOn(c, "verified") \/ End(c)
    /\ UNCHANGED <<budget, reservations, approvals, reported, overlapped>>

\* The registry read at the start is written back with the new status.
DeployWrites(c) ==
    /\ At(c, "verified")
    /\ writeRegistry(c, [Existing(c) EXCEPT !.status = "DEPLOYED"])
    /\ deployments' = [deployments EXCEPT ![releaser[c].key] =
          [i \in DOMAIN @ |-> IF i = Len(@) THEN [@[i] EXCEPT !.settled = TRUE] ELSE @[i]]]
    /\ End(c)
    /\ UNCHANGED <<budget, approvals, reported, overlapped>>

ReleaserDies(c) ==
    /\ releaser[c] # None
    /\ End(c)
    /\ UNCHANGED <<budget, reservations, approvals, reported, deployments, overlapped>>

-----------------------------------------------------------------------------
ReleaseTypeOK ==
    /\ \A k \in Keys : reservations[k] # None =>
          reservations[k] \in RegistryRow /\ reservations[k].path \notin ReservedPaths
    /\ approvals \subseteq [key : Keys, commit : Candidates, path : Paths]
    /\ reported \subseteq [key : Keys, commit : Candidates, path : Paths]

\* DeploymentsAreAccounted: whatever is deployed (deploy) was approved for its workflow,
\* commit and path; and while commands come one after the other, whichever of them die,
\* no two workflows are deployed to one path and a deployment that was recorded is not
\* repeated.
DeploymentsAreAccounted ==
    /\ \A k \in Keys : \A i \in DOMAIN deployments[k] : deployments[k][i].released \in approvals
    /\ ~overlapped =>
          /\ \A k, l \in Keys : k # l =>
                \A i \in DOMAIN deployments[k], j \in DOMAIN deployments[l] :
                    deployments[k][i].released.path # deployments[l][j].released.path
          /\ \A k \in Keys : \A i \in DOMAIN deployments[k] :
                deployments[k][i].settled => i = Len(deployments[k])

\* What a preflight has returned stands in the registry.
ReportedIsReserved ==
    \A r \in reported : reservations[r.key] # None /\ Released(r.key, reservations[r.key]) = r
=============================================================================
