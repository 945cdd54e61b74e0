--------------------------- MODULE MCControlPlane ---------------------------
EXTENDS ControlPlane

CONSTANTS c1, c2, k1, k2, m1, m2, p1, p2, f1, f2, s1, s2, s3, s4, texts, other

Mix(release, project, request, review, monitor) ==
    [release |-> release, project |-> project, draft |-> request, review |-> review, monitor |-> monitor]
MCMixes ==
    {Mix(6, 0, 0, 0, 0), Mix(0, 3, 0, 0, 0), Mix(0, 0, 6, 0, 0), Mix(0, 0, 0, 8, 0), Mix(0, 0, 0, 0, 7),
     Mix(1, 1, 1, 1, 0)}

(* Releases and projects *)
MCReservedPaths == {1}
Remote(protocol, credentials, host) ==
    [valid |-> TRUE, protocol |-> protocol, credentials |-> credentials, host |-> host]
MCRemotes == {Remote("ssh", FALSE, "allowed"), Remote("https", FALSE, "unknown"), Remote("https", TRUE, "allowed")}

(* Requests *)
Step(id, kind, phase, approval) ==
    [id |-> id, kind |-> kind, release_phase |-> phase, human_approval_after |-> approval, max_parallel |-> 1]
Plan(steps, flags, deployment) ==
    [request_class |-> "CHANGE", steps |-> steps, skipped |-> Kinds \ {steps[i].kind : i \in DOMAIN steps},
     risk_flags |-> flags, deployment |-> deployment]
Deployment(approval) ==
    Plan(<<Step(1, "RELEASE", "PREFLIGHT", approval), Step(2, "RELEASE", "DEPLOY", FALSE)>>, requiredFlags, TRUE)
Draft(type, authorized, plan) ==
    [request_type |-> type, authorized |-> authorized, own_route |-> TRUE, route_plan |-> plan]
MCContents ==
    {Draft("CREATE", TRUE, Deployment(TRUE)), Draft("CHANGE", TRUE, Plan(<<Step(1, "TEST", None, FALSE)>>, {}, FALSE)),
     Draft("CREATE", TRUE, Deployment(FALSE)), Draft("CREATE", FALSE, Deployment(TRUE)),
     Draft("DECISION", TRUE, Deployment(TRUE))}

(* Reviews *)
Session(id, agent, kind) == [id |-> id, agent |-> agent, session |-> id, kind |-> kind]
MCSessions ==
    {Session(s1, "developer-agent", "ACCEPTED"), Session(s2, "test-agent", "NO_CHANGE"),
     Session(s3, "hr-agent", "NO_CHANGE"), Session(s4, "developer-agent", "REVERT")}
Output(exit, findings) == [exit |-> exit, envelope |-> TRUE, error |-> FALSE, findings |-> findings]
Finding(category) == [complete |-> TRUE, category |-> category, severity |-> "HIGH"]
MCAgentOutputs ==
    {Output(0, <<>>), Output(0, <<Finding("UNCLEAR_BOUNDARY")>>), Output(0, <<Finding("OTHER")>>), Output(1, <<>>),
     Output(0, <<Finding("UNCLEAR_BOUNDARY"), Finding("UNCLEAR_BOUNDARY")>>)}

(* The Monitor *)
MCTexts == [r \in {texts, other} |-> IF r = texts THEN 2 ELSE 0]

(* The routes of at most three steps over the stages that have rules of their own. *)
RouteSteps ==
    [id : {1}, kind : {"DEVELOPMENT", "TEST"}, release_phase : {None}, human_approval_after : BOOLEAN, max_parallel : {1, 2}]
    \union [id : {1}, kind : {"RELEASE"}, release_phase : {None, "PREFLIGHT", "DEPLOY"},
            human_approval_after : BOOLEAN, max_parallel : {1}]
Routes == UNION {[1 .. n -> RouteSteps] : n \in 1 .. 3}
Numbered(route, ids) == [i \in DOMAIN route |-> [route[i] EXCEPT !.id = ids[i]]]

\* RouteIsSafe holds for every one of them, whatever is skipped, flagged and declared.
ASSUME RoutesAreSafe ==
    \A route \in Routes, ids \in {<<1, 2, 3>>, <<1, 2, 1>>}, class \in {"CHANGE", "TEST_ONLY"} :
    \A flags \in {{}, requiredFlags, {"security_boundary"}}, deployment \in BOOLEAN :
    \A explained \in {Kinds \ {route[i].kind : i \in DOMAIN route}, {"REQUIREMENTS", "ARCHITECTURE", "DESIGN", "CODE_REVIEW"}} :
        RouteIsSafe([request_class |-> class, steps |-> Numbered(route, ids), skipped |-> explained,
                     risk_flags |-> flags, deployment |-> deployment])
=============================================================================
