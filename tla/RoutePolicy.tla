------------------------------ MODULE RoutePolicy ------------------------------
(***************************************************************************)
(* Which route plans the orchestrator accepts (compileRoutePlan).  A plan  *)
(* is [request_class, steps, skipped, risk_flags, deployment]: skipped is  *)
(* the set of kinds left out with a reason, deployment says whether the    *)
(* plan declares deployment metadata, a step is [id, kind, release_phase,  *)
(* human_approval_after, max_parallel].  The JSON Schema is not modelled.  *)
(***************************************************************************)
EXTENDS Integers, Sequences

ROUTE_ORDER == <<"REQUIREMENTS", "ARCHITECTURE", "DESIGN", "DEVELOPMENT", "TEST", "CODE_REVIEW", "RELEASE">>
Kinds == {ROUTE_ORDER[i] : i \in DOMAIN ROUTE_ORDER}
Order(kind) == CHOOSE i \in DOMAIN ROUTE_ORDER : ROUTE_ORDER[i] = kind

Included(plan) == {plan.steps[i].kind : i \in DOMAIN plan.steps}
releaseSteps(plan) == SelectSeq(plan.steps, LAMBDA step : step.kind = "RELEASE")
requiredFlags == {"external_side_effect", "manual_acceptance", "release_risk"}
ElevatedFlags == requiredFlags \union {"security_boundary", "destructive_operation"}

\* The error a plan is refused with, "" for none.
assertDeploymentRules(plan) ==
    LET release == releaseSteps(plan) IN
    IF ~plan.deployment
    THEN IF \E i \in DOMAIN release : release[i].release_phase = "DEPLOY"
         THEN "DEPLOYMENT_RELEASE_ROUTE_INVALID" ELSE ""
    ELSE IF ~(requiredFlags \subseteq plan.risk_flags) THEN "DEPLOYMENT_RISK_FLAGS_MISSING"
    ELSE IF \/ Len(release) # 2
            \/ release[1].release_phase # "PREFLIGHT" \/ release[2].release_phase # "DEPLOY"
         THEN "DEPLOYMENT_RELEASE_ROUTE_INVALID"
    ELSE IF ~release[1].human_approval_after \/ release[2].human_approval_after
         THEN "DEPLOYMENT_RELEASE_APPROVAL_INVALID" ELSE ""

StepError(steps, i) ==
    IF \E j \in 1 .. i - 1 : steps[j].id = steps[i].id THEN "ROUTE_PLAN_STEP_DUPLICATED"
    ELSE IF i > 1 /\ Order(steps[i].kind) < Order(steps[i - 1].kind) THEN "ROUTE_PLAN_ORDER_INVALID"
    ELSE IF steps[i].max_parallel > 1 THEN "ROUTE_PLAN_PARALLEL_FORBIDDEN" ELSE ""

SkipError(plan, i) ==
    IF ROUTE_ORDER[i] \notin Included(plan) \union plan.skipped THEN "ROUTE_PLAN_SKIP_REASON_MISSING"
    ELSE IF ROUTE_ORDER[i] \in Included(plan) \intersect plan.skipped
         THEN "ROUTE_PLAN_STAGE_BOTH_INCLUDED_AND_SKIPPED" ELSE ""

\* The first rule that is broken.
assertRules(plan) ==
    LET included == Included(plan)
        First(indices) == CHOOSE i \in indices : \A j \in indices : i <= j
        wrong == {i \in DOMAIN plan.steps : StepError(plan.steps, i) # ""}
        unclear == {i \in DOMAIN ROUTE_ORDER : SkipError(plan, i) # ""}
    IN
    IF wrong # {} THEN StepError(plan.steps, First(wrong))
    ELSE IF unclear # {} THEN SkipError(plan, First(unclear))
    ELSE IF /\ plan.request_class = "TEST_ONLY"
            /\ "TEST" \notin included \/ {"DEVELOPMENT", "ARCHITECTURE"} \intersect included # {}
         THEN "ROUTE_PLAN_TEST_ONLY_SCOPE"
    ELSE IF "DEVELOPMENT" \in included /\ "TEST" \notin included THEN "ROUTE_PLAN_TEST_REQUIRED"
    ELSE IF assertDeploymentRules(plan) # "" THEN assertDeploymentRules(plan)
    ELSE IF /\ ElevatedFlags \intersect plan.risk_flags # {}
            /\ \A i \in DOMAIN plan.steps : ~plan.steps[i].human_approval_after
         THEN "ROUTE_PLAN_RISK_APPROVAL_REQUIRED" ELSE ""

compileRoutePlan(plan) == assertRules(plan)

-----------------------------------------------------------------------------
\* RouteIsSafe: an accepted route deploys only right after an approval of its preflight,
\* tests whatever it develops, runs its stages in order and explains those it leaves out.
RouteIsSafe(plan) ==
    compileRoutePlan(plan) = "" =>
        LET steps == plan.steps IN
        /\ \A i \in DOMAIN steps : steps[i].release_phase = "DEPLOY" /\ steps[i].kind = "RELEASE" =>
              /\ i > 1 /\ steps[i - 1].kind = "RELEASE"
              /\ steps[i - 1].release_phase = "PREFLIGHT" /\ steps[i - 1].human_approval_after
        /\ \A i \in DOMAIN steps : steps[i].kind = "DEVELOPMENT" =>
              \E j \in i + 1 .. Len(steps) : steps[j].kind = "TEST"
        /\ \A i, j \in DOMAIN steps : i < j => Order(steps[i].kind) <= Order(steps[j].kind)
        /\ \A kind \in Kinds : kind \in plan.skipped <=> kind \notin Included(plan)
=============================================================================
