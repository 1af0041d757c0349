------------------------- MODULE MCGitHubPrAdapter -------------------------
(***************************************************************************)
(* Instance of GitHubPrAdapter for TLC: two approvals of the same action   *)
(* that expire at different times, one id projected a second time for      *)
(* another target, one projection of a proof the gate was not told is      *)
(* verified, under an approval id whose projection id collides.            *)
(***************************************************************************)
EXTENDS GitHubPrAdapter, TLC

CreatePr(proof, target) ==
  [task_id |-> "t1", proof_id |-> proof, run_id |-> "r1",
   action |-> "create_pr", target |-> target]

Shown(id, scope, expires) ==
  [approval_id |-> id, scope |-> scope, expires_at |-> expires]

MCProjections ==
  { Shown("a1", CreatePr("p1", "g1"), 1), Shown("a1", CreatePr("p1", "g2"), 2),
    Shown("a2", CreatePr("p1", "g1"), 2), Shown("a3", CreatePr("p2", "g1"), 2) }

\* safeId replaces runs of other characters by _ and drops _ at the ends, so
\* the ids of a2 and a3 may differ and their projections be the same.
MCSafeId == [a \in ApprovalIds |-> IF a = "a1" THEN "x" ELSE "y"]

CallSymmetry == Permutations(Calls)
=============================================================================
