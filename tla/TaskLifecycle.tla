--------------------------- MODULE TaskLifecycle ---------------------------
(***************************************************************************)
(* The task state machine of packages/state-machine as pure operators: the *)
(* states, the contract of every legal transition, and the verdict that    *)
(* applyTaskTransition reaches on a task and a requested transition.       *)
(*                                                                         *)
(* The audit event "task.transition.<to>" of a transition is abstracted to *)
(* the state name it ends in; references are values of a caller-chosen set *)
(* or None (the null of the code).                                         *)
(***************************************************************************)
CONSTANT None                 \* null, and "there is no such row"

HappyPath == << "created", "accepted", "scoped", "graph_compiled",
                "capability_selected", "work_cell_created",
                "worker_dispatched", "running", "artifact_submitted",
                "proof_submitted", "verifying", "waiting_approval",
                "approved", "pr_created", "completed" >>

TaskStates == {HappyPath[i] : i \in DOMAIN HappyPath} \cup
              {"rejected", "blocked", "needs_human_input", "policy_denied",
               "worker_failed", "verification_failed", "approval_denied",
               "cancelled"}

terminalStates == {"completed", "rejected", "blocked", "needs_human_input",
                   "policy_denied", "worker_failed", "verification_failed",
                   "approval_denied", "cancelled"}

artifactRefStates == {"artifact_submitted", "proof_submitted", "completed"}

proofRefStates == {"verifying", "waiting_approval", "approved", "pr_created",
                   "completed", "verification_failed"}

approvalRefStates == {"approved", "pr_created", "completed",
                      "approval_denied"}

(***************************************************************************)
(* transitionContracts: who may move a task along an edge, and by which    *)
(* event.                                                                  *)
(***************************************************************************)
Contract(from, to, trigger, actor) ==
    [from |-> from, to |-> to, trigger |-> trigger, actor |-> actor]

cancellableStates ==
    {"created", "accepted", "scoped", "running", "waiting_approval"}

transitionContracts ==
  { Contract("created", "accepted", "task.accepted", "human"),
    Contract("accepted", "scoped", "task.scoped", "runtime"),
    Contract("scoped", "graph_compiled", "task.graph_compiled", "runtime"),
    Contract("graph_compiled", "capability_selected",
             "capability.selected", "runtime"),
    Contract("capability_selected", "work_cell_created",
             "work_cell.created", "runtime"),
    Contract("work_cell_created", "worker_dispatched",
             "worker.dispatched", "runtime"),
    Contract("worker_dispatched", "running", "worker.started", "worker"),
    Contract("running", "artifact_submitted", "artifact.submitted", "worker"),
    Contract("artifact_submitted", "proof_submitted",
             "proof.submitted", "worker"),
    Contract("proof_submitted", "verifying",
             "verification.started", "verifier"),
    Contract("verifying", "waiting_approval", "approval.requested", "runtime"),
    Contract("waiting_approval", "approved", "approval.granted", "human"),
    Contract("approved", "pr_created",
             "github.pr.create_requested", "runtime"),
    Contract("pr_created", "completed", "task.completed", "runtime"),
    Contract("created", "rejected", "task.rejected", "runtime"),
    Contract("accepted", "blocked", "task.blocked", "runtime"),
    Contract("scoped", "policy_denied", "policy.denied", "runtime"),
    Contract("graph_compiled", "blocked", "task.blocked", "runtime"),
    Contract("capability_selected", "policy_denied",
             "policy.denied", "runtime"),
    Contract("worker_dispatched", "worker_failed", "worker.failed", "worker"),
    Contract("running", "worker_failed", "worker.failed", "worker"),
    Contract("running", "needs_human_input",
             "human_input.requested", "worker"),
    Contract("proof_submitted", "verification_failed",
             "verification.failed", "verifier"),
    Contract("verifying", "verification_failed",
             "verification.failed", "verifier"),
    Contract("waiting_approval", "approval_denied",
             "approval.denied", "human") }
  \cup { Contract(s, "cancelled", "task.cancelled", "human") :
           s \in cancellableStates }

\* Mutant: the table is looked up by the target state alone.
ContractOfTarget(from, to) ==
    LET found == {c \in transitionContracts : c.to = to}
    IN  IF found = {} THEN None ELSE CHOOSE c \in found : TRUE

\* The contract of an edge, None where the table has no such key.
ContractOf(from, to) ==
    LET found == {c \in transitionContracts : c.from = from /\ c.to = to}
    IN  IF found = {} THEN None ELSE CHOOSE c \in found : TRUE

\* The TransitionErrorCode values.
TransitionErrors ==
  {"unknown_state", "duplicate_transition_conflict", "task_mismatch",
   "state_mismatch", "terminal_state", "unknown_transition",
   "invalid_trigger_event", "invalid_actor", "audit_event_mismatch",
   "missing_artifact_ref", "missing_proof_ref", "missing_approval_ref"}

\* missingRequiredRef: the first reference the target state needs and the
\* transition does not carry.
missingRequiredRef(tr) ==
    IF tr.to \in artifactRefStates /\ tr.artifact_ref = None
    THEN "missing_artifact_ref"
    ELSE IF tr.to \in proofRefStates /\ tr.proof_ref = None
    THEN "missing_proof_ref"
    ELSE IF tr.to \in approvalRefStates /\ tr.approval_ref = None
    THEN "missing_approval_ref"
    ELSE None

\* Mutant: the task's state is not compared with transition.from.
ScopeErrorWithoutFrom(task_id, task, tr) ==
    IF task_id # tr.task_id THEN "task_mismatch"
    ELSE IF task.state \in terminalStates THEN "terminal_state"
    ELSE None

\* The refusals that compare the transition with the task it is for.
ScopeError(task_id, task, tr) ==
    IF task_id # tr.task_id THEN "task_mismatch"
    ELSE IF task.state # tr.from THEN "state_mismatch"
    ELSE IF task.state \in terminalStates THEN "terminal_state"
    ELSE None

\* The refusals that compare the transition with its contract.
ContractError(tr) ==
    LET contract == ContractOf(tr.from, tr.to)
    IN  IF contract = None THEN "unknown_transition"
        ELSE IF tr.trigger # contract.trigger THEN "invalid_trigger_event"
        ELSE IF tr.actor # contract.actor THEN "invalid_actor"
        ELSE IF tr.audit # tr.to THEN "audit_event_mismatch"
        ELSE missingRequiredRef(tr)

\* Mutant: a transition is known by its id, its content is not compared.
SameTransitionById(current, tr) ==
    current # None /\ current.transition_id = tr.transition_id

\* isDeepStrictEqual(options.current_transition, transition)
SameTransition(current, tr) == current = tr

(***************************************************************************)
(* applyTaskTransition: "applied", "noop" or the first error, in the order *)
(* the code looks for them. `current` is options.current_transition.       *)
(***************************************************************************)
applyTaskTransition(task_id, task, tr, current) ==
    IF {task.state, tr.from, tr.to} \ TaskStates # {} THEN "unknown_state"
    ELSE IF /\ task.state = tr.to
            /\ task.current_transition_id = tr.transition_id
    THEN IF SameTransition(current, tr) THEN "noop"
         ELSE "duplicate_transition_conflict"
    ELSE IF ScopeError(task_id, task, tr) # None
    THEN ScopeError(task_id, task, tr)
    ELSE IF ContractError(tr) # None
    THEN ContractError(tr)
    ELSE "applied"
=============================================================================
