--------------------------- MODULE PolicyDecision ---------------------------
(***************************************************************************)
(* decidePolicy of packages/policy-engine, and createWorkCell of           *)
(* packages/work-cell-manager, which acts on its decision.                 *)
(*                                                                         *)
(* A request is a record whose optional fields are None when absent.  A    *)
(* URI is its place (the prefix it starts with) and whether it contains a  *)
(* traversal; moments are numbers.                                         *)
(***************************************************************************)
EXTENDS Refusals, PathPatterns

CONSTANT WorktreeNames  \* names a worktree may have: <card>-<slug>

\* policy.allowed_actions.find
AllowRule(policy, req) ==
  LET hits == {i \in DOMAIN policy.allowed_actions :
                 /\ policy.allowed_actions[i].action = req.action
                 /\ policy.allowed_actions[i].capability_id = req.capability_id}
  IN  IF hits = {} THEN None
      ELSE policy.allowed_actions[CHOOSE i \in hits : \A j \in hits : i <= j]

\* path.includes("/.worktrees/")
IsInWorktrees(path) ==
  \E i \in DOMAIN path : /\ 1 < i /\ i < Len(path)
                         /\ path[i] = ".worktrees"

\* approvalReplayKey
approvalReplayKey(req) ==
  << req.task_id, req.run_id, req.action, req.target.ref,
     IF req.proof = None THEN None ELSE req.proof.proof_id >>

\* What is wrong with the target path, under the scope when there is one
TargetErrors(req) ==
  LET path == req.target.path
  IN  IF path = None THEN {}
      ELSE Failing(
        [target_traversal |-> IsTraversal(path),
         outside_scope    |-> /\ req.scope # None
                              /\ ~matchesAnyPath(path, req.scope.allowed),
         forbidden_scope  |-> /\ req.scope # None
                              /\ matchesAnyPath(path, req.scope.forbidden)])

ArtifactErrors(policy, req) ==
  Failing(
    [artifact_traversal |-> \E a \in req.artifact_refs : a.traversal,
     artifact_prefix    |-> \E a \in req.artifact_refs :
                              a.place \notin policy.allowed_uri_prefixes,
     artifact_hash      |-> \E a \in req.artifact_refs : ~a.hashed])

\* What is wrong with the approval of an action that requires one
ApprovalErrors(policy, req) ==
  LET approval == req.approval
      proof_id == IF req.proof = None THEN None ELSE req.proof.proof_id
  IN  IF req.action \notin policy.approval_required_actions THEN {}
      ELSE IF approval = None THEN {"missing_approval"}
      ELSE Failing(
        [approval_action     |-> approval.action # req.action,
         approval_task       |-> approval.task_id # req.task_id,
         approval_target     |-> approval.target_ref # req.target.ref,
         approval_proof      |-> approval.proof_id # proof_id,
         approval_replay_key |-> approval.replay_key # approvalReplayKey(req),
         approval_replayed   |-> approval.replay_key \in req.used_replay_keys,
         approval_expired    |-> approval.expires_at <= req.requested_at])

ProofErrors(policy, req) ==
  LET proof == req.proof
  IN  IF proof = None THEN {}
      ELSE Failing(
        [proof_not_verified    |-> \/ proof.verdict # "verified"
                                   \/ proof.verifier # "proof.verify",
         validation_not_passed |-> \E v \in proof.validation :
                                     v.status # "passed" \/ v.exit_code # 0,
         proof_log_prefix      |-> \E v \in proof.validation :
                                     v.log \notin policy.allowed_uri_prefixes,
         secret_log            |-> \E v \in proof.validation : v.secret])

\* What is wrong with where the request comes from and what it asks for
RequestErrors(policy, req) ==
  LET rule  == AllowRule(policy, req)
      event == req.matrix_event
  IN  Failing(
        [default_deny      |-> rule = None,
         action_denied     |-> req.action \in policy.denied_actions,
         worktree_required |-> /\ rule # None
                               /\ rule.requires_isolated_worktree
                               /\ \/ req.worktree = None
                                  \/ ~IsInWorktrees(req.worktree),
         context_denied    |-> req.context_kinds
                                 \cap policy.denied_context_kinds # {},
         actor_spoofing    |-> /\ event # None
                               /\ event.claimed_actor_id # event.sender_id,
         room_mismatch     |-> /\ event # None
                               /\ << event.room_id, req.workspace_id >>
                                    \notin policy.room_workspace_map,
         policy_override   |-> req.attempts_policy_override,
         command_denied    |-> /\ req.command # None
                               /\ req.command \notin policy.allowed_commands,
         target_confusion  |-> /\ req.target.operation = "create_pr"
                               /\ req.target.source_ref # None
                               /\ req.target.source_ref = req.target.base_ref,
         memory_write      |-> req.action \in policy.direct_write_actions])

policyDecisionErrors(policy, req) ==
  RequestErrors(policy, req) \cup TargetErrors(req)
    \cup ArtifactErrors(policy, req) \cup ApprovalErrors(policy, req)
    \cup ProofErrors(policy, req)

\* "approval_required" is in the type of the decision and never the answer.
decidePolicy(policy, req) ==
  IF policyDecisionErrors(policy, req) = {} THEN "allow" ELSE "deny"

-----------------------------------------------------------------------------
\* The order of validateWorkCellFields and, after the worktree manager was
\* asked, of validateWorktree
workCellCodes ==
  << "invalid_task_id", "invalid_run_id", "invalid_trace_id",
     "invalid_capability", "invalid_worktree_required",
     "invalid_worktree_creator", "invalid_base_branch", "invalid_base_sha",
     "main_checkout_path", "invalid_worktree_path", "main_branch",
     "invalid_task_branch", "invalid_codex_cwd",
     "main_checkout_edits_allowed", "invalid_cleanup_policy" >>

\* A worktree is its path, relative to the main checkout, and the other codes
\* that its record, or the request's ids, call for.
WorktreeCodes(worktree) ==
  worktree.flaws \cup
  Failing(
    [main_checkout_path    |-> ~IsStrictPrefix(<< "..", ".worktrees" >>,
                                               worktree.path),
     invalid_worktree_path |-> \/ Len(worktree.path) # 4
                               \/ worktree.path[4] \notin WorktreeNames])

\* createWorkCell: "ok", or the code it fails with
createWorkCell(decision, worktree) ==
  IF decision # "allow" THEN "policy_denied"
  ELSE FirstOf(workCellCodes, WorktreeCodes(worktree))
=============================================================================
