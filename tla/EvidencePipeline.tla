-------------------------- MODULE EvidencePipeline --------------------------
(***************************************************************************)
(* From a task to a proof in the ledger: the checks runRuntimeOrchestrator *)
(* puts a run through, in its order, with the modules it calls.  Routing,  *)
(* policy and work cell decide whether a worker starts; the worker writes  *)
(* a stream of lines and a final output, or is a codex exec process; of    *)
(* what it claims a proof is made, verified, recorded and cited by a       *)
(* memory proposal.                                                        *)
(*                                                                         *)
(* The orchestrator gives these checks fixed inputs; here a task, a policy *)
(* request, a worktree, a stream, a final output and a lesson are whatever *)
(* the constants offer.  It also makes a ledger in each run; here one      *)
(* ledger serves one run after the other, as the package lets its callers  *)
(* do, so that entries of one id meet.  OrchestratorRun has the task's     *)
(* transitions, the gates of the pull request and the snapshot file.       *)
(***************************************************************************)
EXTENDS CapabilityRouting, PolicyDecision, ProofLedger

CONSTANTS
  Runs,
  ProofIds,
  proofIdOf,       \* context.proofId of a run
  Policy,
  DispatchInputs,  \* registry, what routing is asked, what policy is asked
                   \* but for run and capability, what the worktree manager
                   \* returns
  ForbiddenPaths,
  Lines, MaxLines, \* what a worker may write, and the bound of its stream
  FinalOutputs,    \* what a worker may claim, None included
  SmokeInputs,     \* settings of the codex exec adapter
  Lessons

ASSUME PipelineAssumption ==
  /\ proofIdOf \in [Runs -> ProofIds]
  /\ MaxLines \in Nat
  /\ None \notin Runs

Places == {"artifact", "plain", "traversal"}

\* What the values the constants give are like, where a definition needs it
ASSUME InputAssumption ==
  /\ \A line \in Lines : line.type \in {"command", "turn", "garbage"}
  /\ ForbiddenPaths \subseteq
       [shape : {"tree", "prefix", "exact"}, at : SUBSET Seq(STRING)]
  /\ \A final \in FinalOutputs \ {None} : final.wellformed =>
       /\ final.files \subseteq Seq(STRING)
       /\ {final.risk_notes, final.rollback_notes} \subseteq BOOLEAN
  /\ \A smoke \in SmokeInputs : smoke.evidence_place \in Places

ASSUME DispatchAssumption ==
  \A in \in DispatchInputs :
    /\ DOMAIN in = {"registry", "task", "request", "worktree"}
    /\ {"task_id", "action", "target", "proof", "approval", "requested_at",
        "used_replay_keys"} \subseteq DOMAIN in.request
    /\ in.task.risk \in DOMAIN riskRank
    /\ in.worktree.path \in Seq(STRING)
    /\ in.worktree.flaws \subseteq Range(workCellCodes)
    /\ in.request.requested_at \in Nat
    /\ in.request.approval # None =>
         /\ in.request.approval.proof_id # None
         /\ in.request.approval.expires_at \in Nat

VARIABLES
  stage,     \* where the current run is
  run,       \* the current run
  dispatch,  \* history: what the work cell was made for, until work starts
  stream,    \* the lines the worker has written
  truth,     \* history: what happened in the worker, line by line
  work,      \* history: what the worker did and claimed
  result,    \* worker
  proof,     \* proofBuild.proof
  ledger,    \* entries of the proof ledger
  madeFrom,  \* history: the work behind each entry
  proposal   \* memoryProposal

runVars == <<dispatch, stream, truth, work, result, proof, proposal>>
vars == <<stage, run, runVars, ledger, madeFrom>>

Stages ==
  {"idle", "dispatched", "working", "executing", "proving", "proved",
   "recorded", "done", "stopped", "threw"}

\* The run came to an end: completed, returned early, or by an exception.
Over == stage \in {"idle", "done", "stopped", "threw"}

nothing == [ran |-> {}, lastTurn |-> None, garbled |-> FALSE]

Init ==
  /\ stage = "idle"
  /\ run = None
  /\ dispatch = None
  /\ stream = << >>
  /\ truth = nothing
  /\ work = None
  /\ result = None
  /\ proof = None
  /\ ledger = [p \in ProofIds |-> None]
  /\ madeFrom = [p \in ProofIds |-> None]
  /\ proposal = None

-----------------------------------------------------------------------------
(* What the variables hold.                                                *)

\* Commands that may have ended, and how
Endings ==
  {<< line.command, line.exit_code >> :
     line \in {l \in Lines : l.type = "command"}}
    \cup {<< smokeCommand, n >> : n \in {0, 1}}

Truths ==
  [ran : SUBSET Endings, garbled : BOOLEAN,
   lastTurn : {None} \cup {line.status :
                             line \in {l \in Lines : l.type = "turn"}}]

Works ==
  [smoke : {FALSE}, run : Runs, place : {"artifact"}, final : FinalOutputs,
   truth : Truths]
    \cup [smoke : {TRUE}, run : Runs, settings : SmokeInputs, place : Places,
          final : {None}, truth : Truths]

\* ProofLedgerEntry
Proofs ==
  [proof_id : ProofIds, run : Runs,
   artifacts : SUBSET (Places \X {"jsonl", "final", "log", "diff", "proof"}),
   validations :
     {final.validations : final \in FinalOutputs \ {None}}
       \cup {workerResultFromSmoke(r, smoke, "ok", 0).final.validations :
               r \in Runs, smoke \in SmokeInputs},
   risk_notes : BOOLEAN, rollback_notes : BOOLEAN]

\* An absent value is none of the values it is absent from.
ASSUME NoneAssumption ==
  /\ None \notin Works /\ None \notin Proofs
  /\ None \notin Places \X {"jsonl", "final", "log", "diff", "proof"}
  /\ \A r \in Runs, smoke \in SmokeInputs :
       None # workerResultFromSmoke(r, smoke, "ok", 0).final

-----------------------------------------------------------------------------
\* What policy is asked for a run of a capability
RequestOf(request, r, capability) ==
  [request EXCEPT !.run_id = r, !.capability_id = capability.id]

\* Route, policy and work cell in one: "ok", or what the run throws with
DispatchCode(r, in) ==
  LET failure == routeFailure(in.registry, in.task)
  IN  IF failure # "ok" THEN failure
      ELSE createWorkCell(
             decidePolicy(Policy,
               RequestOf(in.request, r,
                         routeCapability(in.registry, in.task))),
             in.worktree)

\* A run starts; policy is asked about one of the permissions it routed with.
Dispatch(r) ==
  \E in \in DispatchInputs :
    LET code == DispatchCode(r, in)
        capability == routeCapability(in.registry, in.task)
    IN  /\ Over
        /\ r # run
        /\ in.request.action \in in.task.required_permissions
        /\ run' = r
        /\ stage' = IF code = "ok" THEN "dispatched" ELSE "threw"
        /\ dispatch' =
             IF code # "ok" THEN None
             ELSE [in EXCEPT !.request = RequestOf(@, r, capability)]
        /\ stream' = << >> /\ truth' = nothing
        /\ work' = None /\ result' = None /\ proof' = None /\ proposal' = None
        /\ UNCHANGED <<ledger, madeFrom>>

\* The run goes on to the worker it was configured with.
StartWorker ==
  /\ stage = "dispatched"
  /\ stage' = "working"
  /\ dispatch' = None
  /\ UNCHANGED <<run, stream, truth, work, result, proof, ledger, madeFrom,
                 proposal>>

\* The worker completes a command or a turn, or its output is garbled.
Emit(line) ==
  /\ stage = "working"
  /\ Len(stream) < MaxLines
  /\ stream' = Append(stream, line)
  /\ truth' =
       CASE line.type = "command" ->
              [truth EXCEPT !.ran = @ \cup {<<line.command, line.exit_code>>}]
         [] line.type = "turn"    -> [truth EXCEPT !.lastTurn = line.status]
         [] line.type = "garbage" -> [truth EXCEPT !.garbled = TRUE]
  /\ UNCHANGED <<stage, run, dispatch, work, result, proof, ledger, madeFrom,
                 proposal>>

\* A worker whose result is not a success ends the run without a proof.
TakeResult(res) ==
  /\ stage' = IF res.status = "success" THEN "proving" ELSE "stopped"
  /\ result' = IF res.status = "success" THEN res ELSE None

\* runFakeCodexWorker over the stream and the final output
WorkerReturns(final) ==
  /\ stage = "working"
  /\ TakeResult(runFakeCodexWorker(stream, final, ForbiddenPaths))
  /\ work' = [smoke |-> FALSE, run |-> run, place |-> "artifact",
              final |-> final, truth |-> truth]
  /\ stream' = << >> /\ truth' = nothing
  /\ UNCHANGED <<run, dispatch, proof, ledger, madeFrom, proposal>>

\* runCodexExecSmoke: refused, or the process is started and awaited.
LaunchSmoke(smoke) ==
  LET refusal == smokeRefusal(smoke, run)
  IN  /\ stage = "dispatched"
      /\ dispatch' = None
      /\ work' = [smoke |-> TRUE, run |-> run, settings |-> smoke,
                  place |-> smoke.evidence_place, final |-> None,
                  truth |-> nothing]
      /\ IF refusal # "ok"
         THEN TakeResult(workerResultFromSmoke(run, smoke, refusal, None))
         ELSE stage' = "executing" /\ result' = None
      /\ UNCHANGED <<run, stream, truth, proof, ledger, madeFrom, proposal>>

\* The process ends with an exit code.
ProcessReturns(exit_code) ==
  /\ stage = "executing"
  /\ TakeResult(workerResultFromSmoke(run, work.settings,
       IF exit_code = 0 THEN "ok" ELSE "codex_exec_failed", exit_code))
  /\ work' = [work EXCEPT !.truth.ran = {<<smokeCommand, exit_code>>}]
  /\ UNCHANGED <<run, dispatch, stream, truth, proof, ledger, madeFrom,
                 proposal>>

\* The process runner rejects.
ProcessThrows ==
  /\ stage = "executing"
  /\ stage' = "threw"
  /\ UNCHANGED <<run, runVars, ledger, madeFrom>>

-----------------------------------------------------------------------------
\* recordCodexExecSmokeArtifacts
smokeArtifacts == {"jsonl", "final", "log", "diff", "proof"}

\* What the run records of a worker that is no codex exec process
workerArtifacts == {"jsonl", "final", "log"}

\* The artifacts recorded in the run, which are those of its proof, and the
\* worker's own two among them
Recorded(w) ==
  {<< w.place, name >> :
     name \in IF w.smoke THEN smokeArtifacts ELSE workerArtifacts}

ArtifactRefs(w) ==
  [jsonl |-> << w.place, "jsonl" >>, final_output |-> << w.place, "final" >>]

CreateProof ==
  LET id   == proofIdOf[run]
      code == proofCode(id, run, result, ArtifactRefs(work), Recorded(work),
                        ForbiddenPaths)
  IN  /\ stage = "proving"
      /\ stage' = IF code = "ok" THEN "proved" ELSE "threw"
      /\ proof' = IF code = "ok" THEN ProofOf(id, run, result, Recorded(work))
                  ELSE None
      /\ UNCHANGED <<run, dispatch, stream, truth, work, result, ledger,
                     madeFrom, proposal>>

\* ledger.append: verified again, but without the forbidden paths; an earlier
\* entry of the id is overwritten.
RecordProof ==
  LET errors == verifyProof(proof, [run |-> run, forbidden_paths |-> {}],
                            result.final.files)
      id     == proof.proof_id
  IN  /\ stage = "proved"
      /\ stage' = IF errors = {} THEN "recorded" ELSE "threw"
      /\ ledger' = IF errors = {} THEN [ledger EXCEPT ![id] = proof]
                   ELSE ledger
      /\ madeFrom' = IF errors = {} THEN [madeFrom EXCEPT ![id] = work]
                     ELSE madeFrom
      /\ result' = None
      /\ UNCHANGED <<run, dispatch, stream, truth, work, proof, proposal>>

\* createMemoryProposal: whatever it answers, the run completes.
Propose(lesson) ==
  LET answer == memoryAnswer(proof, {proof.proof_id}, lesson)
  IN  /\ stage = "recorded"
      /\ stage' = "done"
      /\ proposal' = IF answer = "ok"
                     THEN [proof_id |-> proof.proof_id,
                           evidence_ref |-> lesson.evidence_ref]
                     ELSE None
      /\ proof' = None
      /\ UNCHANGED <<run, dispatch, stream, truth, work, result, ledger,
                     madeFrom>>

Next ==
  \/ \E r \in Runs : Dispatch(r)
  \/ StartWorker
  \/ \E line \in Lines : Emit(line)
  \/ \E final \in FinalOutputs : WorkerReturns(final)
  \/ \E smoke \in SmokeInputs : LaunchSmoke(smoke)
  \/ \E exit_code \in {0, 1} : ProcessReturns(exit_code)
  \/ ProcessThrows
  \/ CreateProof
  \/ RecordProof
  \/ \E lesson \in Lessons : Propose(lesson)

Spec == Init /\ [][Next]_vars

-----------------------------------------------------------------------------
(***************************************************************************)
(* Properties.  IsGood is what a proof should stand on, said of what the   *)
(* worker did and not of what the runtime made of it.                      *)
(***************************************************************************)

\* The path is a forbidden location or, unless one path alone is forbidden,
\* lies below it.
IsForbidden(path) ==
  \E pattern \in ForbiddenPaths : \E k \in 0..Len(path) :
    /\ SubSeq(path, 1, k) \in pattern.at
    /\ pattern.shape = "exact" => k = Len(path)

\* The worker claims success, for its own run, with notes.
ClaimsSuccess(w) ==
  /\ w.final.wellformed
  /\ w.final.status = "success" /\ w.final.ready_for_review
  /\ w.final.identity = w.run
  /\ w.final.risk_notes /\ w.final.rollback_notes

\* What it claims to have run did run and ended so, some of it well, and the
\* logs are the ones the runtime keeps.
ClaimsAreTrue(w) ==
  /\ \A v \in w.final.validations :
       /\ << v.command, v.exit_code >> \in w.truth.ran
       /\ v.status # "failed"
       /\ v.log_ref \in Recorded(w)
  /\ \E v \in w.final.validations : v.status = "passed" /\ v.exit_code = 0

IsGood(w) ==
  IF w.smoke
  THEN w.truth.ran = {<< smokeCommand, 0 >>} /\ w.place = "artifact"
  ELSE /\ ~w.truth.garbled
       /\ w.truth.lastTurn \notin {"failed", "blocked"}
       /\ w.final # None
       /\ ClaimsSuccess(w)
       /\ ClaimsAreTrue(w)
       /\ \A path \in w.final.files : ~IsForbidden(path)

\* Type invariant of the orchestrator's locals and of the proof ledger; an
\* entry is stored under its own id.
TypeOK ==
  /\ stage \in Stages
  /\ run \in Runs \cup {None}
  /\ stream \in Seq(Lines) /\ Len(stream) <= MaxLines
  /\ truth \in Truths /\ work \in Works \cup {None}
  /\ proof \in Proofs \cup {None}
  /\ ledger \in [ProofIds -> Proofs \cup {None}]
  /\ madeFrom \in [ProofIds -> Works \cup {None}]
  /\ result # None => /\ result.status = "success"
                      /\ result.final.validations # {}
                      /\ result.commands \subseteq work.truth.ran
  /\ proof # None => proof.proof_id = proofIdOf[run]
  /\ \A p \in ProofIds :
       /\ ledger[p] # None => ledger[p].proof_id = p
       /\ ledger[p] = None <=> madeFrom[p] = None

\* A work cell is made only where routing, policy and cell all agree: the
\* action is one the capability allows and neither it nor the policy denies,
\* within the task's risk; the worktree is outside the main checkout; and an
\* action that needs a human has an approval of this very run, action, target
\* and verified proof that is neither spent nor expired.
HasHumanApproval(req) ==
  /\ req.approval # None /\ req.proof # None
  /\ req.approval.replay_key
       = << req.task_id, req.run_id, req.action, req.target.ref,
            req.proof.proof_id >>
  /\ req.approval.replay_key \notin req.used_replay_keys
  /\ req.requested_at < req.approval.expires_at
  /\ req.proof.verdict = "verified"
  /\ \A v \in req.proof.validation : v.exit_code = 0

DispatchIsAuthorized ==
  dispatch # None =>
    LET task == dispatch.task
        cap  == routeCapability(dispatch.registry, dispatch.task)
        req  == dispatch.request
    IN  /\ task.task_type \in cap.task_types
        /\ task.required_permissions \subseteq cap.allow \ cap.deny
        /\ req.action \in cap.allow \ (cap.deny \cup Policy.denied_actions)
        /\ cap.risk_level = "high" => task.risk = "high"
        /\ dispatch.worktree.path[2] = ".worktrees"
        /\ dispatch.worktree.flaws = {}
        /\ req.action \in Policy.approval_required_actions
             => HasHumanApproval(req)

\* Every entry of the ledger, also one that replaced another, is the proof of
\* one run whose work was good: the claims in it are that run's own, they
\* happened, and nothing forbidden was touched.
LedgerIsBacked ==
  \A p \in ProofIds : ledger[p] # None =>
    LET w == madeFrom[p]
    IN  /\ IsGood(w)
        /\ ledger[p].run = w.run
        /\ proofIdOf[w.run] = p
        /\ ~w.smoke => ledger[p].validations = w.final.validations
        /\ LogRefs(ledger[p].validations) \subseteq ledger[p].artifacts

\* The checks are spread over the runner, the proof builder and the ledger,
\* and between them they turn away no run whose work was good.
NoGoodWorkIsRefused ==
  stage \in {"stopped", "threw"} /\ work # None => ~IsGood(work)

\* A memory proposal cites an artifact the runtime recorded for the proof that
\* the ledger holds under the cited id, and that proof is of good work.
ProposalCitesEvidence ==
  proposal # None =>
    LET w == madeFrom[proposal.proof_id]
    IN  /\ w # None /\ w.run = run
        /\ IsGood(w)
        /\ proposal.evidence_ref \in Recorded(w)

\* docs/analysis/07-security-threat-model.md, "Fake proof / fabricated
\* validation": "validation requires exit code 0 and log ref".
ValidationsExitZero ==
  \A p \in ProofIds : ledger[p] # None =>
    \A v \in ledger[p].validations : v.exit_code = 0 /\ v.log_ref # None
=============================================================================
