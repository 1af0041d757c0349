---------------------------- MODULE MCTaskStore ----------------------------
(***************************************************************************)
(* Instances of TaskStore for TLC.  Each run picks the commands its        *)
(* clients may send; Send builds one.                                      *)
(***************************************************************************)
EXTENDS TaskStore, FiniteSets, TLC

\* A transition with the trigger, actor and audit event of contract c.
Tr(id, t, c, art, prf, apr) ==
  [transition_id |-> id, task_id |-> t, from |-> c.from, to |-> c.to,
   trigger |-> c.trigger, actor |-> c.actor, audit |-> c.to,
   artifact_ref |-> art, proof_ref |-> prf, approval_ref |-> apr]

Send(id, t, expected, tr) ==
  [command_id |-> id, task_id |-> t, expected_state |-> expected,
   transition |-> tr]

-----------------------------------------------------------------------------
(***************************************************************************)
(* The lifecycle run: one task, one well-formed command per row of the     *)
(* contract table, named like the orchestrator's cmd_<from>_to_<to>, and   *)
(* one malformed command per refusal of the state machine.                 *)
(***************************************************************************)
LifecycleTransitionIds == Edges
LifecycleCommandIds ==
  Edges \cup {<<"bad", e>> : e \in TransitionErrors} \cup {<<"again">>}
LifecycleRefs == {"artifact", "proof", "approval"}

RefFor(S, state, ref) == IF state \in S THEN ref ELSE None

WellFormed(c) ==
  LET id == <<c.from, c.to>>
  IN  Send(id, "t1", c.from,
           Tr(id, "t1", c, RefFor(artifactRefStates, c.to, "artifact"),
              RefFor(proofRefStates, c.to, "proof"),
              RefFor(approvalRefStates, c.to, "approval")))

Row(from, to) == WellFormed(ContractOf(from, to))

\* The command of a row, sent in state `expected` with its transition changed
Bad(e, row, expected, change) ==
  Send(<<"bad", e>>, "t1", expected, change @@ row.transition)

LifecycleCommands ==
  {WellFormed(c) : c \in transitionContracts} \cup
  { Send(<<"again">>, "t1", "scoped", Row("accepted", "scoped").transition),
    Bad("unknown_state", Row("created", "accepted"), "created",
        [to |-> "done"]),
    Bad("duplicate_transition_conflict", Row("accepted", "scoped"), "scoped",
        [from |-> "created"]),
    Bad("state_mismatch", Row("accepted", "scoped"), "created", << >>),
    Bad("terminal_state", Row("running", "cancelled"), "completed",
        [from |-> "completed"]),
    Bad("unknown_transition", Row("approved", "pr_created"), "created",
        [from |-> "created"]),
    Bad("invalid_trigger_event", Row("verifying", "waiting_approval"),
        "verifying", [trigger |-> "approval.granted"]),
    Bad("invalid_actor", Row("waiting_approval", "approved"),
        "waiting_approval", [actor |-> "runtime"]),
    Bad("audit_event_mismatch", Row("running", "artifact_submitted"),
        "running", [audit |-> "running"]),
    Bad("missing_artifact_ref", Row("pr_created", "completed"), "pr_created",
        [artifact_ref |-> None]),
    Bad("missing_proof_ref", Row("proof_submitted", "verifying"),
        "proof_submitted", [proof_ref |-> None]),
    Bad("missing_approval_ref", Row("approved", "pr_created"), "approved",
        [approval_ref |-> None]) }

\* Every refusal is remembered, so the sets of refused commands would swamp
\* the lifecycle: behaviours stop at their second refusal.
MaxRefusals == 1
FewRefusals ==
  Cardinality({c \in CommandIds : commandResults[c] # None
                                  /\ ~commandResults[c].ok}) <= MaxRefusals

-----------------------------------------------------------------------------
(***************************************************************************)
(* The clients runs: the last steps of two tasks, every command id free to *)
(* carry any of a few requests: one that another id carried before, one    *)
(* that reuses a transition id, one for the other task, one with another   *)
(* proof, one that believes the task is already past it.                   *)
(***************************************************************************)
LateTransitions(t) ==
  LET c(from, to) == ContractOf(from, to)
  IN  { Tr("x1", t, c("waiting_approval", "approved"), None, "p1", "a1"),
        Tr("x1", t, c("waiting_approval", "approval_denied"),
           None, None, "a1"),
        Tr("x2", t, c("approved", "pr_created"), None, "p1", "a1"),
        Tr("x2", t, c("approved", "pr_created"), None, "p2", "a1"),
        Tr("x3", t, c("pr_created", "completed"), "f1", "p1", "a1") }

ClientCommands ==
  UNION {{Send(id, t, tr.from, tr), Send(id, t, tr.to, tr)} :
           id \in CommandIds, t \in TaskIds,
           tr \in UNION {LateTransitions(u) : u \in TaskIds}}

\* The state the client sees, and a transition that starts one state later
SkipsApproval ==
  {Send(id, "t1", "waiting_approval", tr) :
     id \in CommandIds,
     tr \in {x \in LateTransitions("t1") : x.from = "approved"}}

\* Without most commands whose transition names another task
TwoTaskCommands ==
  SkipsApproval \cup
  {cmd \in ClientCommands :
     \/ cmd.transition.task_id = cmd.task_id
     \/ cmd.task_id = "t1" /\ cmd.transition.to = "approved"}

ClientSymmetry == Permutations(CommandIds)
=============================================================================
