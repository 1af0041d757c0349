--------------------------- MODULE WorkerEvidence ---------------------------
(***************************************************************************)
(* What the runtime makes of a worker's work: the parser of its JSONL      *)
(* stream, the runner's verdict on stream and final output, and the gate   *)
(* and result of a real codex exec process.                                *)
(*                                                                         *)
(* A line of the stream is a completed command, a completed turn or one    *)
(* that is no JSON; other events leave what is modelled alone.  A final    *)
(* output is a record; `wellformed` says that its fields have the types    *)
(* its schema asks for, `identity` is the run whose task and run id it     *)
(* carries, notes count as given or not.                                   *)
(***************************************************************************)
EXTENDS Refusals, PathPatterns

\* Mutant: the first turn decides.
terminal_status_of_first(lines) ==
  LET turns == {i \in DOMAIN lines : lines[i].type = "turn"}
  IN  IF turns = {} THEN None
      ELSE lines[CHOOSE i \in turns : \A j \in turns : i <= j].status

\* parseCodexJsonl: the status of the last completed turn, and each command
\* with its exit code. A line that is no JSON throws. (A turn that completed
\* without a status would forget the earlier one; turns here carry one.)
terminal_status(lines) ==
  LET turns == {i \in DOMAIN lines : lines[i].type = "turn"}
  IN  IF turns = {} THEN None
      ELSE lines[CHOOSE i \in turns : \A j \in turns : j <= i].status

\* Mutant: a command that completed counts as one that passed.
command_results_passed(lines) ==
  {<< lines[i].command, 0 >> :
     i \in {j \in DOMAIN lines : lines[j].type = "command"}}

command_results(lines) ==
  {<< lines[i].command, lines[i].exit_code >> :
     i \in {j \in DOMAIN lines : lines[j].type = "command"}}

ParseThrows(lines) == \E i \in DOMAIN lines : lines[i].type = "garbage"

-----------------------------------------------------------------------------
FinalStatuses == {"success", "failed", "blocked", "needs_human_input"}

HasPassed(validations) ==
  \E v \in validations : v.status = "passed" /\ v.exit_code = 0

\* repo-patch-result.schema.json
IsFinalOutput(final) ==
  /\ final.wellformed
  /\ final.status \in FinalStatuses
  /\ final.ready_for_review <=> final.status = "success"
  /\ final.status = "success" =>
       /\ HasPassed(final.validations)
       /\ \A v \in final.validations : v.status # "failed"

\* firstUnbackedValidation: a command of that name ended so, at any time
IsUnbacked(validations, commands) ==
  \E v \in validations : << v.command, v.exit_code >> \notin commands

\* Mutant: a blocked turn is not held against a success.
streamFailureOfFailed(terminal, final) ==
  final.status = "success" /\ terminal = "failed"

\* streamFailureStatus: a success that the stream contradicts
streamFailure(terminal, final) ==
  final.status = "success" /\ terminal \in {"failed", "blocked"}

\* Why a run that has a final output is not taken at its word
OutputChecks(lines, final, forbidden) ==
  IF ~IsFinalOutput(final) THEN {"invalid_final_output"}
  ELSE Failing(
    [forbidden_path_change |->
       \E path \in final.files, pattern \in forbidden :
         globMatch(pattern, path),
     missing_jsonl_validation_evidence |->
       IsUnbacked(final.validations, command_results(lines)),
     codex_stream_terminal_mismatch |->
       streamFailure(terminal_status(lines), final)])

outputCodes ==
  << "invalid_final_output", "forbidden_path_change",
     "missing_jsonl_validation_evidence", "codex_stream_terminal_mismatch" >>

workerCode(lines, final, forbidden) ==
  IF ParseThrows(lines) THEN "invalid_jsonl"
  ELSE IF final # None
  THEN FirstOf(outputCodes, OutputChecks(lines, final, forbidden))
  ELSE IF terminal_status(lines) = "failed" THEN "codex_failed"
  ELSE IF terminal_status(lines) = "blocked" THEN "codex_blocked"
  ELSE "missing_final_output"

\* runFakeCodexWorker
runFakeCodexWorker(lines, final, forbidden) ==
  LET code     == workerCode(lines, final, forbidden)
      terminal == terminal_status(lines)
      status   ==
        CASE code = "ok" -> final.status
          [] code = "codex_stream_terminal_mismatch" -> terminal
          [] code \in {"codex_failed", "forbidden_path_change"} -> "failed"
          [] code = "codex_blocked" -> "blocked"
          [] OTHER -> "malformed"
  IN  [status |-> status,
       ready_for_review |-> code = "ok" /\ final.ready_for_review,
       code |-> code,
       commands |-> IF code = "invalid_jsonl" THEN {}
                    ELSE command_results(lines),
       final |-> IF code \in {"invalid_jsonl", "invalid_final_output"}
                 THEN None ELSE final]

-----------------------------------------------------------------------------
\* The checks of runCodexExecSmoke before it starts a process. Paths are
\* absolute; an environment is the kinds of its entries.
smokeCodes ==
  << "main_checkout_cwd_rejected", "secret_env_rejected",
     "explicit_smoke_flag_required", "manual_approval_required",
     "credential_scope_required", "explicit_env_required",
     "process_runner_required" >>

\* hasManualApprovalForRun; that an approver is named is left out
hasManualApprovalForRun(smoke, run) ==
  /\ smoke.approval # None
  /\ smoke.approval.approved
  /\ smoke.approval.scope = "codex_exec_smoke"
  /\ smoke.approval.run = run

smokeRefusal(smoke, run) ==
  FirstOf(smokeCodes, Failing(
    [main_checkout_cwd_rejected   |-> IsPrefix(smoke.main_checkout,
                                               smoke.worktree),
     secret_env_rejected          |-> /\ smoke.env # None
                                      /\ "secret" \in smoke.env,
     explicit_smoke_flag_required |-> ~smoke.smoke,
     manual_approval_required     |-> ~hasManualApprovalForRun(smoke, run),
     credential_scope_required    |-> smoke.credential_scope
                                        \notin {"disposable", "scoped"},
     explicit_env_required        |-> smoke.env = None \/ smoke.env = {},
     process_runner_required      |-> ~smoke.has_runner]))

smokeCommand == "codex exec smoke"

\* workerResultFromCodexExecSmoke: the final output is made up from the exit
\* code; what the process wrote is not read.
workerResultFromSmoke(run, smoke, code, exit_code) ==
  IF code # "ok"
  THEN [status |-> IF code = "codex_exec_failed" THEN "failed" ELSE "blocked",
        ready_for_review |-> FALSE, code |-> code, commands |-> {},
        final |-> None]
  ELSE [status |-> "success", ready_for_review |-> TRUE, code |-> "ok",
        commands |-> {<< smokeCommand, exit_code >>},
        final |-> [wellformed |-> TRUE, status |-> "success",
                   ready_for_review |-> TRUE, identity |-> run, files |-> {},
                   validations |->
                     {[command |-> smokeCommand, exit_code |-> exit_code,
                       status |-> "passed",
                       log_ref |-> << smoke.evidence_place, "log" >>]},
                   risk_notes |-> TRUE, rollback_notes |-> TRUE]]
=============================================================================
