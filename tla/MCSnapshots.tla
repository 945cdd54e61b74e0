----------------------------- MODULE MCSnapshots -----------------------------
(* Snapshots for a developer and a reviewer.                               *)
EXTENDS Snapshots, TLC

MCAgents == <<"developer-agent", "review-agent">>

MCSymmetry == Permutations(Calls)
=============================================================================
