-------------------------- MODULE GitHubPrAdapter --------------------------
(***************************************************************************)
(* The way to a real pull request: a human answers a Runtime projection    *)
(* through createRuntimeApprovalIntake, the intake's approval is granted   *)
(* at the gate, and createPullRequest of the runtime-owned adapter spends  *)
(* it on one run of the injected runner (gh).                              *)
(*                                                                         *)
(* createPullRequest is asynchronous: everything up to the launch of the   *)
(* runner is one step (there is no await in it), the runner works beside   *)
(* other calls, answers and denials, and its result is handled in a later  *)
(* step.  The runner is external.  The many checks of the input are        *)
(* abstracted to the place where the first of them fails.                  *)
(***************************************************************************)
EXTENDS ApprovalGate

CONSTANTS
  Calls,         \* identities of createPullRequest calls
  Projections,   \* approval projections shown to humans
  ProjectionIds,
  safeId         \* the projection id made of an approval id: not injective

\* RuntimeApprovalProjection; the scope names a run, since targets of this
\* adapter name a repository.
Projection ==
  [approval_id : ApprovalIds, scope : {s \in Scope : s.run_id # None},
   expires_at : 0..MaxTime]

\* Where the input's own checks fail: before the gate is asked, between the
\* preview and the authorization, or nowhere.
Flaws == {"before_gate", "after_preview", "none"}

\* RuntimeOwnedGitHubPrInput: approval_id optional, run_id always the proof's
PrInput ==
  [approval_id : ApprovalIds \cup {None},
   scope : {s \in Scope : s.run_id # None /\ s.action = "create_pr"},
   flaw : Flaws]

ASSUME AdapterAssumption ==
  /\ Projections \subseteq Projection
  /\ safeId \in [ApprovalIds -> ProjectionIds]

Phases == {"idle", "refused", "running", "created", "gh_pr_create_failed",
           "pr_url_missing", "threw"}

VARIABLES
  usedProjectionIds,   \* of the intake
  acceptedApprovalIds, \* the intake's own usedApprovalIds
  calls,               \* phase, approval and scope of each call
  prs,                 \* prs: the calls whose pull request is listed
  remote               \* GitHub: the calls whose pull request exists

intakeVars == <<usedProjectionIds, acceptedApprovalIds>>
prVars == <<calls, prs, remote>>
vars == <<gateVars, intakeVars, prVars>>

Idle == [phase |-> "idle", approval_id |-> None, scope |-> None]

Init ==
  /\ GateInit
  /\ usedProjectionIds = {}
  /\ acceptedApprovalIds = {}
  /\ calls = [c \in Calls |-> Idle]
  /\ prs = << >>
  /\ remote = {}

-----------------------------------------------------------------------------
\* Mutant: an answer is a replay only when its action was approved before.
IsReplayedByProjection(p) ==
  \E a \in acceptedApprovalIds :
    approvals[a] # None /\ approvals[a].scope = p.scope

\* accept's replay check: on either id
IsReplayed(p) ==
  \/ safeId[p.approval_id] \in usedProjectionIds
  \/ p.approval_id \in acceptedApprovalIds

(***************************************************************************)
(* A matching human answer: accept marks projection and approval used,     *)
(* then the caller grants the approval.  The gate refuses a proof that it  *)
(* was not told is verified, and, since it reads the clock again, an       *)
(* approval that expires between the two calls; the marks stay.  (Answers  *)
(* that do not match the projection change nothing.)                       *)
(***************************************************************************)
AnswerProjection(p) ==
  /\ ~isExpired(p.expires_at)
  /\ ~IsReplayed(p)
  /\ usedProjectionIds' = usedProjectionIds \cup {safeId[p.approval_id]}
  /\ acceptedApprovalIds' = acceptedApprovalIds \cup {p.approval_id}
  /\ \/ Grant(p.approval_id, [scope |-> p.scope, expires_at |-> p.expires_at])
     \/ p.scope.proof_id \notin VerifiedProofs /\ UNCHANGED gateVars
     \/ p.expires_at = clock + 1 /\ Tick
  /\ UNCHANGED prVars

-----------------------------------------------------------------------------
\* The ApprovalRequest the adapter builds of its input
RequestOf(input) ==
  [approval_id |-> input.approval_id, scope |-> input.scope]

IsAccepted(input) ==
  /\ input.flaw = "none"
  /\ CheckAuthorization(RequestOf(input)) = "ok"

\* Mutant: authorize takes the place of the preview, before the other checks.
RefuseSpending(c, input) ==
  /\ calls[c].phase = "idle"
  /\ ~IsAccepted(input)
  /\ calls' = [calls EXCEPT ![c].phase = "refused"]
  /\ IF /\ input.flaw = "after_preview"
        /\ CheckAuthorization(RequestOf(input)) = "ok"
     THEN Authorize(RequestOf(input)) ELSE UNCHANGED gateVars
  /\ UNCHANGED <<intakeVars, prs, remote>>

\* createPullRequest ends before the runner; nothing is used up.
RefusePullRequest(c, input) ==
  /\ calls[c].phase = "idle"
  /\ ~IsAccepted(input)
  /\ calls' = [calls EXCEPT ![c].phase = "refused"]
  /\ UNCHANGED <<gateVars, intakeVars, prs, remote>>

\* Mutant: previewAuthorize is relied on, authorize is not called.
LaunchUnspent(c, input) ==
  /\ calls[c].phase = "idle"
  /\ IsAccepted(input)
  /\ calls' = [calls EXCEPT ![c] =
       [phase |-> "running", approval_id |-> Selected(RequestOf(input)),
        scope |-> input.scope]]
  /\ UNCHANGED <<gateVars, intakeVars, prs, remote>>

\* createPullRequest up to `await options.runner(command)`
LaunchRunner(c, input) ==
  /\ calls[c].phase = "idle"
  /\ IsAccepted(input)
  /\ calls' = [calls EXCEPT ![c] =
       [phase |-> "running", approval_id |-> Selected(RequestOf(input)),
        scope |-> input.scope]]
  /\ Authorize(RequestOf(input))
  /\ UNCHANGED <<intakeVars, prs, remote>>

\* External: gh creates the pull request on GitHub.
GhCreates(c) ==
  /\ calls[c].phase = "running"
  /\ c \notin remote
  /\ remote' = remote \cup {c}
  /\ UNCHANGED <<gateVars, intakeVars, calls, prs>>

\* Mutant: an exit code of 0 is taken for a pull request.
OutcomeByExitCode(result) ==
  IF result.exit_ok THEN "created" ELSE "gh_pr_create_failed"

\* What the adapter makes of the runner's result: the exit code first, then
\* whether the summary names this repository and these refs, or, when there is
\* none, whether stdout has the URL of a pull request in this repository.
Outcome(result) ==
  IF ~result.exit_ok THEN "gh_pr_create_failed"
  ELSE IF result.summary # "fits" THEN "pr_url_missing"
  ELSE "created"

(***************************************************************************)
(* createPullRequest after the await.  External: a summary that fits is    *)
(* only reported of a pull request that exists; an error or another        *)
(* summary says nothing about GitHub.                                      *)
(***************************************************************************)
RunnerResult == [exit_ok : BOOLEAN, summary : {"fits", "other"}]

RunnerReturns(c, result) ==
  /\ calls[c].phase = "running"
  /\ result.summary = "fits" => c \in remote
  /\ calls' = [calls EXCEPT ![c].phase = Outcome(result)]
  /\ prs' = IF Outcome(result) = "created" THEN Append(prs, c) ELSE prs
  /\ UNCHANGED <<gateVars, intakeVars, remote>>

\* The runner's promise rejects, and with it createPullRequest.
RunnerThrows(c) ==
  /\ calls[c].phase = "running"
  /\ calls' = [calls EXCEPT ![c].phase = "threw"]
  /\ UNCHANGED <<gateVars, intakeVars, prs, remote>>

-----------------------------------------------------------------------------
Next ==
  \/ \E p \in Projections : AnswerProjection(p)
  \/ \E d \in ApprovalDenial : Deny(d) /\ UNCHANGED <<intakeVars, prVars>>
  \/ Tick /\ UNCHANGED <<intakeVars, prVars>>
  \/ \E c \in Calls, input \in PrInput :
       RefusePullRequest(c, input) \/ LaunchRunner(c, input)
  \/ \E c \in Calls :
       \/ GhCreates(c)
       \/ \E result \in RunnerResult : RunnerReturns(c, result)
       \/ RunnerThrows(c)

Spec == Init /\ [][Next]_vars

-----------------------------------------------------------------------------
(* Properties.                                                             *)

Launched(c) == calls[c].phase \notin {"idle", "refused"}

\* Type invariant of the intake and the adapter.
TypeOK ==
  /\ GateTypeOK
  /\ usedProjectionIds \subseteq ProjectionIds
  /\ acceptedApprovalIds \subseteq ApprovalIds
  /\ calls \in [Calls -> [phase : Phases, approval_id : ApprovalIds \cup {None},
                          scope : Scope \cup {None}]]
  /\ prs \in Seq(Calls)
  /\ remote \subseteq Calls

\* However often a caller tries again after a failure, a lost answer or a
\* throw, and whatever runs beside it, one approval launches the runner once:
\* GitHub gets at most one pull request for it.
OneRunPerApproval ==
  \A c, d \in Calls :
    Launched(c) /\ Launched(d) /\ calls[c].approval_id = calls[d].approval_id
      => c = d

\* Every run of gh was for exactly what the approval on record says (task,
\* proof, run, action, target): the record is not exchanged afterwards.
RunWasApproved ==
  \A c \in Calls : Launched(c) =>
    /\ calls[c].approval_id \in acceptedApprovalIds \cap usedApprovalIds
    /\ approvals[calls[c].approval_id].scope = calls[c].scope

\* A human's yes is not wasted. What the intake took was granted and stays
\* granted as it was shown, and is spent only by a call that launched the
\* runner, however many calls were refused before; it was refused by the gate
\* only for its proof or its expiry. Of the approvals that share a projection
\* id only one is taken (approval-projection.ts:183 and 357).
AnswersAreNotWasted ==
  /\ \A a \in acceptedApprovalIds : \E p \in Projections :
       /\ p.approval_id = a
       /\ \/ /\ approvals[a] = None
             /\ p.scope.proof_id \notin VerifiedProofs \/ isExpired(p.expires_at)
          \/ /\ approvals[a] = [scope |-> p.scope, expires_at |-> p.expires_at]
             /\ a \in usedApprovalIds =>
                  \E c \in Calls : Launched(c) /\ calls[c].approval_id = a
  /\ \A a, b \in acceptedApprovalIds : safeId[a] = safeId[b] => a = b

\* The list of pull requests names each successful call once, and only pull
\* requests that GitHub has.
ListedPrsAreReal ==
  /\ \A i, j \in DOMAIN prs : prs[i] = prs[j] => i = j
  /\ {prs[i] : i \in DOMAIN prs} = {c \in Calls : calls[c].phase = "created"}
  /\ {prs[i] : i \in DOMAIN prs} \subseteq remote
=============================================================================
