----------------------------- MODULE ControlPlane -----------------------------
(***************************************************************************)
(* What runs beside the service loop: the commands of release-control and  *)
(* manager-control, the HR reviews and the Monitor.  They share no file,   *)
(* only the host; the mix says which of them are given.                    *)
(***************************************************************************)
EXTENDS ReleaseControl, ManagerControl, HrReview, Monitor

vars == <<budget, rVars, mVars, hVars, sVars>>

Init == CommandsInit /\ ReleaseInit /\ ManagerInit /\ HrInit /\ MonitorInit

Next ==
    \/ \E c \in Clients : preflight(c) /\ UNCHANGED <<mVars, hVars, sVars>>
    \/ \E c \in Clients : PreflightExisting(c) /\ UNCHANGED <<mVars, hVars, sVars>>
    \/ \E c \in Clients : PreflightReserve(c) /\ UNCHANGED <<mVars, hVars, sVars>>
    \/ ApproveDeployment /\ UNCHANGED <<mVars, hVars, sVars>>
    \/ \E c \in Clients : deploy(c) /\ UNCHANGED <<mVars, hVars, sVars>>
    \/ \E c \in Clients : RequireApproval(c) /\ UNCHANGED <<mVars, hVars, sVars>>
    \/ \E c \in Clients : Invoke(c) /\ UNCHANGED <<mVars, hVars, sVars>>
    \/ \E c \in Clients : DeployWrites(c) /\ UNCHANGED <<mVars, hVars, sVars>>
    \/ \E c \in Clients : ReleaserDies(c) /\ UNCHANGED <<mVars, hVars, sVars>>
    \/ \E c \in Clients : ensureProject(c) /\ UNCHANGED <<rVars, hVars, sVars>>
    \/ \E c \in Clients : MakeDirectory(c) /\ UNCHANGED <<rVars, hVars, sVars>>
    \/ \E c \in Clients : InitRepository(c) /\ UNCHANGED <<rVars, hVars, sVars>>
    \/ \E c \in Clients : CloneProject(c) /\ UNCHANGED <<rVars, hVars, sVars>>
    \/ \E c \in Clients : readRegistry(c) /\ UNCHANGED <<rVars, hVars, sVars>>
    \/ \E c \in Clients : register(c) /\ UNCHANGED <<rVars, hVars, sVars>>
    \/ EditDraft /\ UNCHANGED <<rVars, hVars, sVars>>
    \/ validateDraft /\ UNCHANGED <<rVars, hVars, sVars>>
    \/ \E c \in Clients : submitDraft(c) /\ UNCHANGED <<rVars, hVars, sVars>>
    \/ \E c \in Clients : PublishRequest(c) /\ UNCHANGED <<rVars, hVars, sVars>>
    \/ AnswerRequest /\ UNCHANGED <<rVars, hVars, sVars>>
    \/ \E c \in Clients : ManagerDies(c) /\ UNCHANGED <<rVars, hVars, sVars>>
    \/ \E p \in Clients : AcquireWriter(p) /\ UNCHANGED <<rVars, mVars, sVars>>
    \/ \E p \in Clients : WriterEnds(p) /\ UNCHANGED <<rVars, mVars, sVars>>
    \/ \E p \in Clients : queueReview(p) /\ UNCHANGED <<rVars, mVars, sVars>>
    \/ \E p \in Clients : runPending(p) /\ UNCHANGED <<rVars, mVars, sVars>>
    \/ \E l \in Loops : StartReview(l) /\ UNCHANGED <<rVars, mVars, sVars>>
    \/ \E l \in Loops : FinishReview(l) /\ UNCHANGED <<rVars, mVars, sVars>>
    \/ \E l \in Loops : EndLoop(l) /\ UNCHANGED <<rVars, mVars, sVars>>
    \/ WriteSession /\ UNCHANGED <<rVars, mVars, hVars>>
    \/ RewriteSession /\ UNCHANGED <<rVars, mVars, hVars>>
    \/ StartRefresh /\ UNCHANGED <<rVars, mVars, hVars>>
    \/ ReadSession /\ UNCHANGED <<rVars, mVars, hVars>>
    \/ StoreLine /\ UNCHANGED <<rVars, mVars, hVars>>
    \/ EndScan /\ UNCHANGED <<rVars, mVars, hVars>>
    \/ RefreshFails /\ UNCHANGED <<rVars, mVars, hVars>>
    \/ Connect /\ UNCHANGED <<rVars, mVars, hVars>>
    \/ OpenStream /\ UNCHANGED <<rVars, mVars, hVars>>
    \/ Receive /\ UNCHANGED <<rVars, mVars, hVars>>
    \/ CutStream /\ UNCHANGED <<rVars, mVars, hVars>>
    \/ RestartMonitor /\ UNCHANGED <<rVars, mVars, hVars>>

Spec == Init /\ [][Next]_vars

-----------------------------------------------------------------------------
\* TypeOK: the registries, drafts, requests and job rows hold what their readers accept,
\* and the events of the Monitor are numbered without a gap.
TypeOK == ReleaseTypeOK /\ ManagerTypeOK /\ HrTypeOK /\ MonitorTypeOK

\* RegistriesKeepWhatTheyReported: while the commands on a registry come one after the
\* other, whichever of them die half way, a reservation that preflight has returned stands
\* in paths.json, and a project that ensureProject has returned can be resolved and fetched.
RegistriesKeepWhatTheyReported ==
    /\ ~overlapped => ReportedIsReserved
    /\ ~interfered => EnsuredIsResolvable
=============================================================================
