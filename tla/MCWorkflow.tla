----------------------------- MODULE MCWorkflow -----------------------------
EXTENDS Workflow

CONSTANTS build, rebuild, check

Steps    == {build, rebuild, check}
StepKind == (build :> "DEVELOPMENT") @@ (rebuild :> "DEVELOPMENT") @@ (check :> "TEST")
Approved == {rebuild, check}
Ungated  == {}

\* A route and its revision, which shares the TEST step and replaces the other.
TwoRoutes == {<<build, check>>, <<rebuild, check>>}
OneRoute  == {<<build, check>>}
=============================================================================
