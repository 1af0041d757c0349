------------------------- MODULE MCEvidencePipeline -------------------------
(***************************************************************************)
(* Instance of EvidencePipeline for TLC: one input that is in order for    *)
(* each check, and the inputs that differ from it in what the check looks  *)
(* at.                                                                     *)
(***************************************************************************)
EXTENDS EvidencePipeline

\* Both runs make a proof of the same id.
OneProofId == [r \in Runs |-> "p1"]

-----------------------------------------------------------------------------
(***************************************************************************)
(* Registries and routing requests, with the ids of                        *)
(* runtime/capabilities.yaml.                                              *)
(***************************************************************************)
Codex ==
  [id |-> "repo.patch.codex", task_types |-> {"code_change", "test_change"},
   risk_level |-> "medium",
   allow |-> {"repo:read", "repo:write_patch", "process:run_tests"},
   deny |-> {"github:create_pr", "secrets:read"}]

PrCreate ==
  [id |-> "github.pr.create", task_types |-> {"external_pr_request"},
   risk_level |-> "high", allow |-> {"external:write"},
   deny |-> {"repo:write_patch"}]

\* A second patcher, of less risk, that must not run tests
Narrow ==
  [id |-> "repo.patch.narrow", task_types |-> {"code_change"},
   risk_level |-> "low", allow |-> {"repo:read", "repo:write_patch"},
   deny |-> {"process:run_tests"}]

Registries ==
  { << Codex, PrCreate >>,
    << Codex, Narrow, PrCreate >>,
    << Codex, [Codex EXCEPT !.risk_level = "low"], PrCreate >>,
    << [Codex EXCEPT !.deny = @ \cup {"repo:write_patch"}], PrCreate >> }

TestChange ==
  [task_type |-> "test_change", risk |-> "medium",
   required_permissions |-> {"repo:read", "repo:write_patch"},
   suggested_capability |-> "repo.patch.codex"]

TaskRequests ==
  { TestChange,
    [TestChange EXCEPT !.task_type = "code_change",
                       !.suggested_capability = None],
    [TestChange EXCEPT !.task_type = "code_change", !.risk = "low",
                       !.suggested_capability = None],
    [TestChange EXCEPT !.task_type = "code_change",
                       !.required_permissions = @ \cup {"process:run_tests"},
                       !.suggested_capability = None],
    [TestChange EXCEPT !.task_type = "external_pr_request"],
    [TestChange EXCEPT !.task_type = "deployment"],
    [TestChange EXCEPT !.suggested_capability = "repo.patch.gone"],
    [task_type |-> "external_pr_request", risk |-> "high",
     required_permissions |-> {"external:write"},
     suggested_capability |-> "github.pr.create"] }

-----------------------------------------------------------------------------
(***************************************************************************)
(* A policy like runtime/policies/repo-patch.yaml, and what it is asked.   *)
(***************************************************************************)
McPolicy ==
  [allowed_actions |->
     << [action |-> "repo:write_patch", capability_id |-> "repo.patch.codex",
         requires_isolated_worktree |-> TRUE],
        [action |-> "external:write", capability_id |-> "github.pr.create",
         requires_isolated_worktree |-> FALSE] >>,
   denied_actions |-> {"github:merge", "memory:write_direct"},
   approval_required_actions |-> {"external:write"},
   denied_context_kinds |-> {"production_secret"},
   room_workspace_map |-> {<< "!control", "workspace_carpet" >>},
   allowed_commands |-> {"pnpm test:contracts"},
   allowed_uri_prefixes |-> {"object://artifacts/", "object://logs/"},
   direct_write_actions |-> {"memory:write_direct"}]

\* run_id and capability_id are filled in when the run asks.
Patch ==
  [task_id |-> "t1", run_id |-> None, workspace_id |-> "workspace_carpet",
   capability_id |-> None, action |-> "repo:write_patch", requested_at |-> 1,
   worktree |-> << "..", ".worktrees", "Carpet", "MCR-1" >>,
   scope |-> [allowed   |-> {Tree(<< "src" >>)},
              forbidden |-> {Tree(<< "src", "secrets" >>)}],
   target |-> [path |-> << "src", "a" >>, ref |-> "g1",
               operation |-> "write", source_ref |-> None,
               base_ref |-> None],
   context_kinds |-> {"task_scope"}, matrix_event |-> None,
   attempts_policy_override |-> FALSE, command |-> None,
   artifact_refs |-> {}, proof |-> None, approval |-> None,
   used_replay_keys |-> {}]

Event(sender, room) ==
  [room_id |-> room, sender_id |-> sender, claimed_actor_id |-> "@human"]

ArtifactRef(place, traversal, hashed) ==
  [place |-> place, traversal |-> traversal, hashed |-> hashed]

PatchRequests ==
  { Patch,
    [Patch EXCEPT !.worktree = << "..", "Carpet" >>],
    [Patch EXCEPT !.target.path = << "src", "..", "a" >>],
    [Patch EXCEPT !.target.path = << "docs", "a" >>],
    [Patch EXCEPT !.target.path = << "src", "secrets" >>],
    [Patch EXCEPT !.context_kinds = {"task_scope", "production_secret"}],
    [Patch EXCEPT !.matrix_event = Event("@human", "!control")],
    [Patch EXCEPT !.matrix_event = Event("@worker", "!control")],
    [Patch EXCEPT !.matrix_event = Event("@human", "!other")],
    [Patch EXCEPT !.matrix_event = Event("@human", "!control"),
                  !.workspace_id = "workspace_other"],
    [Patch EXCEPT !.attempts_policy_override = TRUE],
    [Patch EXCEPT !.command = "rm"],
    [Patch EXCEPT !.artifact_refs =
       {ArtifactRef("object://artifacts/", TRUE, TRUE)}],
    [Patch EXCEPT !.artifact_refs = {ArtifactRef("file://", FALSE, TRUE)}],
    [Patch EXCEPT !.artifact_refs =
       {ArtifactRef("object://logs/", FALSE, FALSE)}] }

\* A write outside that a human approved for r1
Write ==
  [Patch EXCEPT
     !.action = "external:write",
     !.target = [path |-> None, ref |-> "g1", operation |-> "create_pr",
                 source_ref |-> "codex/r1", base_ref |-> "main"],
     !.proof = [proof_id |-> "p1", verdict |-> "verified",
                verifier |-> "proof.verify",
                validation |-> {[status |-> "passed", exit_code |-> 0,
                                 log |-> "object://logs/",
                                 secret |-> FALSE]}],
     !.approval = [action |-> "external:write", task_id |-> "t1",
                   target_ref |-> "g1", proof_id |-> "p1",
                   replay_key |-> << "t1", "r1", "external:write", "g1",
                                     "p1" >>,
                   expires_at |-> 2]]

WriteRequests ==
  { Write,
    [Write EXCEPT !.approval = None],
    [Write EXCEPT !.approval.replay_key[2] = "r2"],
    [Write EXCEPT !.used_replay_keys = {Write.approval.replay_key}],
    [Write EXCEPT !.requested_at = 2],
    [Write EXCEPT !.target.ref = "g2"],
    [Write EXCEPT !.target.source_ref = "main"],
    [Write EXCEPT !.proof.verdict = "rejected"],
    [Write EXCEPT !.proof.validation =
       {[v EXCEPT !.exit_code = 1] : v \in @}] }

PolicyRequests == PatchRequests \cup WriteRequests

GoodWorktree ==
  [path |-> << "..", ".worktrees", "Carpet", "MCR-1" >>, flaws |-> {}]

Worktrees ==
  { GoodWorktree,
    [GoodWorktree EXCEPT !.path = << "..", "Carpet" >>],
    [GoodWorktree EXCEPT !.path[4] = "tmp"],
    [GoodWorktree EXCEPT !.flaws = {"main_branch", "invalid_cleanup_policy"}] }

\* Every route with a request and a worktree in order, and, on the two routes
\* that succeed for those, every request with every worktree
McDispatchInputs ==
  [registry : Registries, task : TaskRequests, request : {Patch, Write},
   worktree : {GoodWorktree}]
    \cup [registry : {<< Codex, PrCreate >>},
          task : {t \in TaskRequests : t.risk = "high" \/ t = TestChange},
          request : PolicyRequests, worktree : Worktrees]

-----------------------------------------------------------------------------
(***************************************************************************)
(* What a worker writes and claims.                                        *)
(***************************************************************************)
McForbiddenPaths == {Prefix({".env", ".env.d"}), Tree(<< "secrets" >>)}

McLines ==
  {[type |-> "command", command |-> "test", exit_code |-> n] : n \in {0, 1}}
    \cup {[type |-> "turn", status |-> s] : s \in {"completed", "failed",
                                                   "blocked"}}
    \cup {[type |-> "garbage"]}

Validation(exit_code, status) ==
  [command |-> "test", exit_code |-> exit_code, status |-> status,
   log_ref |-> << "artifact", "log" >>]

Success ==
  [wellformed |-> TRUE, status |-> "success", ready_for_review |-> TRUE,
   identity |-> "r1", files |-> {<< "src", "a" >>},
   validations |-> {Validation(0, "passed")},
   risk_notes |-> TRUE, rollback_notes |-> TRUE]

McFinalOutputs ==
  { None, Success,
    [Success EXCEPT !.wellformed = FALSE],
    [Success EXCEPT !.status = "failed", !.ready_for_review = FALSE],
    [Success EXCEPT !.identity = "r2"],
    [Success EXCEPT !.files = {<< ".env" >>}],
    [Success EXCEPT !.files = {<< ".env.d", "x" >>}],
    [Success EXCEPT !.files = {<< "secrets" >>}],
    [Success EXCEPT !.files = {<< "secrets", "x" >>}],
    [Success EXCEPT !.validations = {Validation(1, "failed")}],
    [Success EXCEPT !.validations = @ \cup {Validation(1, "skipped")}],
    [Success EXCEPT !.validations = @ \cup {Validation(1, "failed")}],
    [Success EXCEPT !.validations = {[v EXCEPT !.log_ref = None] : v \in @}],
    [Success EXCEPT !.validations =
       {[v EXCEPT !.log_ref = << "artifact", "other" >>] : v \in @}],
    [Success EXCEPT !.risk_notes = FALSE],
    [Success EXCEPT !.rollback_notes = FALSE] }

-----------------------------------------------------------------------------
(***************************************************************************)
(* Settings of the codex exec adapter, and lessons.                        *)
(***************************************************************************)
Approved(r) == [approved |-> TRUE, scope |-> "codex_exec_smoke", run |-> r]

Smoke ==
  [worktree |-> << "w" >>, main_checkout |-> << "main" >>,
   env |-> {"plain"}, smoke |-> TRUE, approval |-> Approved("r1"),
   credential_scope |-> "disposable", has_runner |-> TRUE,
   evidence_place |-> "artifact"]

McSmokeInputs ==
  { Smoke,
    [Smoke EXCEPT !.approval = Approved("r2"), !.evidence_place = "plain"],
    [Smoke EXCEPT !.evidence_place = "plain"],
    [Smoke EXCEPT !.evidence_place = "traversal"],
    [Smoke EXCEPT !.worktree = << "main", "sub" >>],
    [Smoke EXCEPT !.env = {"plain", "secret"}],
    [Smoke EXCEPT !.env = {}],
    [Smoke EXCEPT !.smoke = FALSE],
    [Smoke EXCEPT !.approval.approved = FALSE],
    [Smoke EXCEPT !.credential_scope = "production"],
    [Smoke EXCEPT !.has_runner = FALSE] }

Lesson ==
  [reusable |-> TRUE, apply_live |-> FALSE, complete |-> TRUE,
   evidence_ref |-> << "artifact", "log" >>]

McLessons ==
  { None, Lesson,
    [Lesson EXCEPT !.reusable = FALSE],
    [Lesson EXCEPT !.apply_live = TRUE],
    [Lesson EXCEPT !.complete = FALSE],
    [Lesson EXCEPT !.evidence_ref = << "artifact", "other" >>] }
=============================================================================
