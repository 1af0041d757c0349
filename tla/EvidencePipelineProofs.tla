----------------------- MODULE EvidencePipelineProofs -----------------------
(***************************************************************************)
(* Proofs about EvidencePipeline, for any runs, policy, inputs and worker. *)
(* First what an "ok" of each of the spread-out checks amounts to, as an   *)
(* equivalence: the one direction says what a proof in the ledger stands   *)
(* on, the other that good work is not refused.  Then the invariants.      *)
(***************************************************************************)
EXTENDS EvidencePipeline, LeastIndex

-----------------------------------------------------------------------------
(* The shape of the checks.                                                *)

\* No check fails exactly if each of them, looked at by its name, is false.
LEMMA NothingFails ==
  ASSUME NEW checks
  PROVE  Failing(checks) = {} <=> \A c \in DOMAIN checks : ~checks[c]
BY DEF Failing

\* Where every code of a failure is one the code looks for, "ok" is answered
\* exactly if nothing failed; and what is answered else is a failure.
LEMMA FirstOfIsOk ==
  ASSUME NEW order, NEW codes, DOMAIN order \subseteq Nat,
         \A i \in DOMAIN order : order[i] # "ok",
         \A c \in codes : \E i \in DOMAIN order : order[i] = c
  PROVE  /\ FirstOf(order, codes) = "ok" <=> codes = {}
         /\ FirstOf(order, codes) \in codes \cup {"ok"}
<1> DEFINE hits == {i \in DOMAIN order : order[i] \in codes}
<1>1. CASE hits = {}
  BY <1>1 DEF FirstOf
<1>2. CASE hits # {}
  <2>1. \E i \in hits : \A j \in hits : i <= j
    BY <1>2, SetOfNaturalsHasMin
  <2>2. (CHOOSE i \in hits : \A j \in hits : i <= j) \in hits
    BY <2>1
  <2> QED
    BY <1>2, <2>2 DEF FirstOf
<1> QED
  BY <1>1, <1>2

-----------------------------------------------------------------------------
(* Paths.                                                                  *)

\* A location is a prefix of a path exactly if cutting the path gives it.
LEMMA PrefixIsCut ==
  ASSUME NEW at \in Seq(STRING), NEW path \in Seq(STRING)
  PROVE  IsPrefix(at, path)
           <=> \E k \in 0..Len(path) : SubSeq(path, 1, k) = at
<1>1. ASSUME IsPrefix(at, path)
      PROVE  \E k \in 0..Len(path) : SubSeq(path, 1, k) = at
  <2>1. Len(at) \in 0..Len(path) /\ SubSeq(path, 1, Len(at)) = at
    BY <1>1 DEF IsPrefix
  <2> QED
    BY <2>1
<1>2. ASSUME NEW k \in 0..Len(path), SubSeq(path, 1, k) = at
      PROVE  IsPrefix(at, path)
  <2>1. Len(at) = k
    BY <1>2
  <2> QED
    BY <1>2, <2>1 DEF IsPrefix
<1> QED
  BY <1>1, <1>2

\* What the verifier holds to be forbidden is what is forbidden.
LEMMA VerifierSeesForbidden ==
  ASSUME NEW path \in Seq(STRING)
  PROVE  matchesAnyPath(path, ForbiddenPaths) <=> IsForbidden(path)
<1>1. ASSUME NEW pattern \in ForbiddenPaths
      PROVE  matchesPathPattern(path, pattern) <=>
               \E k \in 0..Len(path) :
                 /\ SubSeq(path, 1, k) \in pattern.at
                 /\ pattern.shape = "exact" => k = Len(path)
  <2>1. /\ pattern.shape \in {"tree", "prefix", "exact"}
        /\ pattern.at \subseteq Seq(STRING)
    BY InputAssumption
  <2>2. SubSeq(path, 1, Len(path)) = path
    OBVIOUS
  <2>3. CASE pattern.shape = "exact"
    <3>1. matchesPathPattern(path, pattern) <=> path \in pattern.at
      BY <2>3 DEF matchesPathPattern
    <3>2. Len(path) \in 0..Len(path)
      OBVIOUS
    <3>3. (\E k \in 0..Len(path) : /\ SubSeq(path, 1, k) \in pattern.at
                                  /\ k = Len(path))
            <=> path \in pattern.at
      BY <2>2, <3>2
    <3> QED
      BY <2>3, <3>1, <3>3
  <2>4. CASE pattern.shape \in {"tree", "prefix"}
    <3>1. matchesPathPattern(path, pattern)
            <=> \E at \in pattern.at : IsPrefix(at, path)
      BY <2>4 DEF matchesPathPattern
    <3>2. \A at \in pattern.at :
            IsPrefix(at, path)
              <=> \E k \in 0..Len(path) : SubSeq(path, 1, k) = at
      BY <2>1, PrefixIsCut
    <3> QED
      BY <2>4, <3>1, <3>2
  <2> QED
    BY <2>1, <2>3, <2>4
<1> QED
  BY <1>1 DEF matchesAnyPath, IsForbidden

\* The runner's matcher finds nothing the verifier's would not.
LEMMA RunnerSeesForbidden ==
  ASSUME NEW path \in Seq(STRING), NEW pattern \in ForbiddenPaths,
         globMatch(pattern, path)
  PROVE  IsForbidden(path)
<1>1. /\ pattern.shape \in {"tree", "prefix", "exact"}
      /\ pattern.at \subseteq Seq(STRING)
  BY InputAssumption
<1>2. IsPrefix(path, path)
  BY DEF IsPrefix
<1>3. matchesPathPattern(path, pattern)
  BY <1>1, <1>2 DEF globMatch, matchesPathPattern, IsStrictPrefix
<1> QED
  BY <1>3, VerifierSeesForbidden DEF matchesAnyPath

-----------------------------------------------------------------------------
(* What an "ok" of each check says.                                        *)

\* verifyProof finds nothing exactly of a proof that follows the schema, is of
\* the expected run, passed and logged its validations, has notes and stayed
\* within the allowed paths.
LEMMA VerifierAccepts ==
  ASSUME NEW p, NEW expected, NEW files
  PROVE  verifyProof(p, expected, files) = {} <=>
           /\ IsLedgerEntry(p)
           /\ expected.run # None => p.run = expected.run
           /\ \A ref \in p.artifacts \cup LogRefs(p.validations) :
                ~HasTraversal(ref)
           /\ HasPassed(p.validations)
           /\ \A v \in p.validations : v.log_ref # None
           /\ p.risk_notes
           /\ \A path \in files :
                ~matchesAnyPath(path, expected.forbidden_paths)
<1> DEFINE a == ~IsLedgerEntry(p)
           b == expected.run # None /\ p.run # expected.run
           c == p.artifacts = {}
           d == \E ref \in p.artifacts \cup LogRefs(p.validations) :
                  HasTraversal(ref)
           e == p.validations = {}
           f == ~HasPassed(p.validations)
           g == \E v \in p.validations : v.log_ref = None
           h == ~p.risk_notes
           i == ~p.rollback_notes
           j == \E path \in files :
                  matchesAnyPath(path, expected.forbidden_paths)
           checks == [schema_invalid |-> a, mismatched_run_id |-> b,
             missing_artifacts |-> c, path_traversal_artifact_ref |-> d,
             missing_validation |-> e, missing_passing_validation |-> f,
             missing_validation_log_ref |-> g, missing_risk_notes |-> h,
             missing_rollback_notes |-> i, forbidden_path_change |-> j]
<1>1. verifyProof(p, expected, files) = Failing(checks)
  BY DEF verifyProof
<1>2. Failing(checks) = {} <=> ~(a \/ b \/ c \/ d \/ e \/ f \/ g \/ h \/ i \/ j)
  <2> HIDE DEF a, b, c, d, e, f, g, h, i, j
  <2> QED
    BY DEF Failing
<1>3. IsLedgerEntry(p) => ~c /\ ~e /\ ~i
  BY DEF IsLedgerEntry
<1> QED
  BY <1>1, <1>2, <1>3

\* createProofFromWorkerArtifacts takes a result exactly if it is a success of
\* this run with validations, notes and files that are in order.
LEMMA BuilderAccepts ==
  ASSUME NEW res, NEW refs, NEW r, NEW forbidden
  PROVE  WorkerErrors(res, refs, r, forbidden) = {} <=>
           /\ res.status = "success" /\ res.ready_for_review
           /\ res.code = "ok" /\ res.final # None
           /\ res.final.identity = r
           /\ res.final.validations # {}
           /\ refs.final_output # None
           /\ res.final.risk_notes /\ res.final.rollback_notes
           /\ \A path \in res.final.files : ~matchesAnyPath(path, forbidden)
           /\ ~IsUnbacked(res.final.validations, res.commands)
<1> DEFINE a == res.final.identity # r
           b == res.final.validations = {}
           c == refs.final_output = None
           d == ~res.final.risk_notes
           e == ~res.final.rollback_notes
           f == \E path \in res.final.files : matchesAnyPath(path, forbidden)
           g == IsUnbacked(res.final.validations, res.commands)
           checks == [mismatched_worker_identity |-> a,
             missing_validation |-> b, missing_worker_artifact_ref |-> c,
             missing_risk_notes |-> d, missing_rollback_notes |-> e,
             forbidden_path_change |-> f, unbacked_validation |-> g]
<1>1. WorkerErrors(res, refs, r, forbidden) =
        IF \/ res.status # "success" \/ ~res.ready_for_review
           \/ res.code # "ok"
        THEN {"worker_not_successful"}
        ELSE IF res.final = None THEN {"missing_final_output"}
        ELSE Failing(checks)
  BY DEF WorkerErrors
<1>2. Failing(checks) = {} <=> ~(a \/ b \/ c \/ d \/ e \/ f \/ g)
  <2> HIDE DEF a, b, c, d, e, f, g
  <2> QED
    BY DEF Failing
<1> QED
  BY <1>1, <1>2

\* The artifacts a result refers to have to be recorded ones.
LEMMA BindingAccepts ==
  ASSUME NEW artifacts, NEW required
  PROVE  bindingErrors(artifacts, required) = {} <=>
           /\ \A ref \in required : ~HasTraversal(ref)
           /\ required \subseteq artifacts
<1> DEFINE a == \E ref \in required : HasTraversal(ref)
           b == ~(required \subseteq artifacts)
           checks == [path_traversal_artifact_ref |-> a,
                      missing_worker_artifact_ref |-> b]
<1>1. bindingErrors(artifacts, required) = Failing(checks)
  BY DEF bindingErrors
<1>2. Failing(checks) = {} <=> ~(a \/ b)
  <2> HIDE DEF a, b
  <2> QED
    BY DEF Failing
<1> QED
  BY <1>1, <1>2

\* The runner takes a final output at its word exactly if it follows the
\* schema, stayed within the allowed paths and the stream bears it out.
LEMMA OutputAccepted ==
  ASSUME NEW lines, NEW final, NEW forbidden
  PROVE  /\ OutputChecks(lines, final, forbidden) = {} <=>
              /\ IsFinalOutput(final)
              /\ \A path \in final.files, pattern \in forbidden :
                   ~globMatch(pattern, path)
              /\ ~IsUnbacked(final.validations, command_results(lines))
              /\ ~streamFailure(terminal_status(lines), final)
         /\ OutputChecks(lines, final, forbidden) \subseteq
              {"invalid_final_output", "forbidden_path_change",
               "missing_jsonl_validation_evidence",
               "codex_stream_terminal_mismatch"}
         /\ "codex_stream_terminal_mismatch"
               \in OutputChecks(lines, final, forbidden)
              => streamFailure(terminal_status(lines), final)
<1> DEFINE a == \E path \in final.files, pattern \in forbidden :
                  globMatch(pattern, path)
           b == IsUnbacked(final.validations, command_results(lines))
           c == streamFailure(terminal_status(lines), final)
           checks == [forbidden_path_change |-> a,
                      missing_jsonl_validation_evidence |-> b,
                      codex_stream_terminal_mismatch |-> c]
<1>1. OutputChecks(lines, final, forbidden) =
        IF ~IsFinalOutput(final) THEN {"invalid_final_output"}
        ELSE Failing(checks)
  BY DEF OutputChecks
<1>2. /\ Failing(checks) = {} <=> ~(a \/ b \/ c)
      /\ Failing(checks) \subseteq
           {"forbidden_path_change", "missing_jsonl_validation_evidence",
            "codex_stream_terminal_mismatch"}
      /\ "codex_stream_terminal_mismatch" \in Failing(checks) => c
  <2> HIDE DEF a, b, c
  <2> QED
    BY DEF Failing
<1> QED
  BY <1>1, <1>2

\* runFakeCodexWorker answers "ok" exactly of a stream that can be parsed and
\* a final output it takes at its word; a code that is not "ok" makes a
\* result that is not a success.
LEMMA RunnerAccepts ==
  ASSUME NEW lines, NEW final, NEW forbidden
  PROVE  /\ workerCode(lines, final, forbidden) = "ok" <=>
              /\ ~ParseThrows(lines) /\ final # None
              /\ OutputChecks(lines, final, forbidden) = {}
         /\ runFakeCodexWorker(lines, final, forbidden).status = "success"
              => workerCode(lines, final, forbidden) = "ok"
<1> DEFINE codes == OutputChecks(lines, final, forbidden)
           terminal == terminal_status(lines)
           code == workerCode(lines, final, forbidden)
<1>1. /\ FirstOf(outputCodes, codes) = "ok" <=> codes = {}
      /\ FirstOf(outputCodes, codes) \in codes \cup {"ok"}
  <2>1. /\ DOMAIN outputCodes = 1..4
        /\ outputCodes[1] = "invalid_final_output"
        /\ outputCodes[2] = "forbidden_path_change"
        /\ outputCodes[3] = "missing_jsonl_validation_evidence"
        /\ outputCodes[4] = "codex_stream_terminal_mismatch"
    BY DEF outputCodes
  <2>2. \A i \in DOMAIN outputCodes : outputCodes[i] # "ok"
    BY <2>1
  <2>3. \A c \in codes : \E i \in DOMAIN outputCodes : outputCodes[i] = c
    BY <2>1, OutputAccepted
  <2> QED
    BY <2>1, <2>2, <2>3, FirstOfIsOk
<1>2. /\ code = "ok" <=> ~ParseThrows(lines) /\ final # None /\ codes = {}
      /\ code = "codex_stream_terminal_mismatch"
           => "codex_stream_terminal_mismatch" \in codes
  BY <1>1 DEF workerCode
<1>3. ASSUME runFakeCodexWorker(lines, final, forbidden).status = "success",
             code # "ok"
      PROVE  FALSE
  <2>1. CASE code = "codex_stream_terminal_mismatch"
    <3>1. terminal \in {"failed", "blocked"}
      BY <2>1, <1>2, OutputAccepted DEF streamFailure
    <3>2. runFakeCodexWorker(lines, final, forbidden).status = terminal
      BY <2>1 DEF runFakeCodexWorker
    <3> QED
      BY <3>1, <3>2, <1>3
  <2>2. CASE code # "codex_stream_terminal_mismatch"
    BY <2>2, <1>3 DEF runFakeCodexWorker
  <2> QED
    BY <2>1, <2>2
<1> QED
  BY <1>2, <1>3

\* createProofFromWorkerArtifacts answers "ok" exactly if none of its three
\* groups of checks finds anything.
LEMMA ProofIsMade ==
  ASSUME NEW id, NEW r, NEW res, NEW refs, NEW artifacts, NEW forbidden
  PROVE  proofCode(id, r, res, refs, artifacts, forbidden) = "ok" <=>
           /\ WorkerErrors(res, refs, r, forbidden) = {}
           /\ bindingErrors(artifacts, requiredRefs(res, refs)) = {}
           /\ verifyProof(ProofOf(id, r, res, artifacts),
                [run |-> r, forbidden_paths |-> forbidden],
                res.final.files) = {}
<1> DEFINE worker == WorkerErrors(res, refs, r, forbidden)
           binding == bindingErrors(artifacts, requiredRefs(res, refs))
           errors == verifyProof(ProofOf(id, r, res, artifacts),
                       [run |-> r, forbidden_paths |-> forbidden],
                       res.final.files)
           proofCodes == verifyCodes \o << "missing_worker_artifact_ref" >>
<1>1. FirstOf(workerErrorCodes, worker) = "ok" <=> worker = {}
  <2>1. worker \subseteq
          {"worker_not_successful", "missing_final_output",
           "mismatched_worker_identity", "missing_validation",
           "missing_worker_artifact_ref", "missing_risk_notes",
           "missing_rollback_notes", "forbidden_path_change",
           "unbacked_validation"}
    BY DEF WorkerErrors, Failing
  <2>2. /\ DOMAIN workerErrorCodes = 1..9
        /\ workerErrorCodes[1] = "worker_not_successful"
        /\ workerErrorCodes[2] = "missing_final_output"
        /\ workerErrorCodes[3] = "mismatched_worker_identity"
        /\ workerErrorCodes[4] = "missing_validation"
        /\ workerErrorCodes[5] = "missing_worker_artifact_ref"
        /\ workerErrorCodes[6] = "missing_risk_notes"
        /\ workerErrorCodes[7] = "missing_rollback_notes"
        /\ workerErrorCodes[8] = "forbidden_path_change"
        /\ workerErrorCodes[9] = "unbacked_validation"
    BY DEF workerErrorCodes
  <2> HIDE DEF worker
  <2>3. /\ DOMAIN workerErrorCodes \subseteq Nat
        /\ \A i \in DOMAIN workerErrorCodes : workerErrorCodes[i] # "ok"
    BY <2>2
  <2>4. \A c \in worker :
          \E i \in DOMAIN workerErrorCodes : workerErrorCodes[i] = c
    BY <2>1, <2>2
  <2> QED
    BY <2>3, <2>4, FirstOfIsOk
<1>2. ASSUME NEW codes \in {binding, errors}
      PROVE  FirstOf(proofCodes, codes) = "ok" <=> codes = {}
  <2>1. codes \subseteq
          {"schema_invalid", "mismatched_run_id", "missing_artifacts",
           "path_traversal_artifact_ref", "missing_validation",
           "missing_passing_validation", "missing_validation_log_ref",
           "missing_risk_notes", "missing_rollback_notes",
           "forbidden_path_change", "missing_worker_artifact_ref"}
    BY DEF verifyProof, bindingErrors, Failing
  <2>2. /\ DOMAIN proofCodes = 1..11
        /\ proofCodes[1] = "schema_invalid"
        /\ proofCodes[2] = "mismatched_run_id"
        /\ proofCodes[3] = "missing_artifacts"
        /\ proofCodes[4] = "path_traversal_artifact_ref"
        /\ proofCodes[5] = "missing_validation"
        /\ proofCodes[6] = "missing_passing_validation"
        /\ proofCodes[7] = "missing_validation_log_ref"
        /\ proofCodes[8] = "missing_risk_notes"
        /\ proofCodes[9] = "missing_rollback_notes"
        /\ proofCodes[10] = "forbidden_path_change"
        /\ proofCodes[11] = "missing_worker_artifact_ref"
    BY DEF verifyCodes
  <2> HIDE DEF binding, errors, proofCodes
  <2>3. /\ DOMAIN proofCodes \subseteq Nat
        /\ \A i \in DOMAIN proofCodes : proofCodes[i] # "ok"
    BY <2>2
  <2>4. \A c \in codes : \E i \in DOMAIN proofCodes : proofCodes[i] = c
    BY <2>1, <2>2
  <2> QED
    BY <2>3, <2>4, FirstOfIsOk
<1>3. proofCode(id, r, res, refs, artifacts, forbidden) =
        IF worker # {} THEN FirstOf(workerErrorCodes, worker)
        ELSE FirstOf(proofCodes, IF binding # {} THEN binding ELSE errors)
  BY DEF proofCode
<1> HIDE DEF worker, binding, errors, proofCodes
<1>4. /\ FirstOf(proofCodes, binding) = "ok" <=> binding = {}
      /\ FirstOf(proofCodes, errors) = "ok" <=> errors = {}
  BY <1>2
<1> QED
  BY <1>1, <1>3, <1>4 DEF worker, binding, errors

-----------------------------------------------------------------------------
(* The worker's stream and what happened in the worker.                    *)

\* A stream with a turn has a last one.
LEMMA LastTurnExists ==
  ASSUME NEW s \in Seq(Lines), NEW turns \in SUBSET (DOMAIN s), turns # {}
  PROVE  \E i \in turns : \A j \in turns : j <= i
<1> DEFINE back == {Len(s) - i : i \in turns}
<1>1. DOMAIN s = 1..Len(s) /\ Len(s) \in Nat
  OBVIOUS
<1>2. back \in SUBSET Nat /\ back # {}
  BY <1>1
<1>3. PICK k \in back : \A l \in back : k <= l
  BY <1>2, SetOfNaturalsHasMin
<1>4. PICK i \in turns : k = Len(s) - i
  BY <1>3
<1>5. ASSUME NEW j \in turns
      PROVE  j <= i
  <2>1. k <= Len(s) - j
    BY <1>3
  <2>2. i \in Nat /\ j \in Nat
    BY <1>1
  <2> QED
    BY <1>1, <1>4, <2>1, <2>2
<1> QED
  BY <1>5

\* The status the parser returns is that of the last turn.
LEMMA TerminalIsLast ==
  ASSUME NEW lines, NEW i \in DOMAIN lines, DOMAIN lines \subseteq Nat,
         lines[i].type = "turn",
         \A j \in DOMAIN lines : lines[j].type = "turn" => j <= i
  PROVE  terminal_status(lines) = lines[i].status
<1> DEFINE turns == {j \in DOMAIN lines : lines[j].type = "turn"}
           last == CHOOSE k \in turns : \A j \in turns : j <= k
<1>1. i \in turns /\ \A j \in turns : j <= i
  OBVIOUS
<1>2. last \in turns /\ \A j \in turns : j <= last
  BY <1>1
<1>3. last = i
  BY <1>1, <1>2
<1>4. terminal_status(lines) = lines[last].status
  BY <1>1 DEF terminal_status
<1> QED
  BY <1>3, <1>4

\* One more line changes the status exactly if it ends a turn.
LEMMA TerminalOfAppend ==
  ASSUME NEW s \in Seq(Lines), NEW line \in Lines
  PROVE  terminal_status(Append(s, line)) =
           IF line.type = "turn" THEN line.status ELSE terminal_status(s)
<1> DEFINE t == Append(s, line)
           turns == {j \in DOMAIN s : s[j].type = "turn"}
<1>1. /\ DOMAIN s = 1..Len(s) /\ Len(s) \in Nat
      /\ DOMAIN t = 1..(Len(s) + 1) /\ t[Len(s) + 1] = line
      /\ \A j \in DOMAIN s : t[j] = s[j]
  OBVIOUS
<1> HIDE DEF t
<1>2. CASE line.type = "turn"
  <2>1. Len(s) + 1 \in DOMAIN t /\ DOMAIN t \subseteq Nat
    BY <1>1
  <2>2. terminal_status(t) = t[Len(s) + 1].status
    BY <1>1, <1>2, <2>1, TerminalIsLast
  <2> QED
    BY <1>1, <1>2, <2>2 DEF t
<1>3. CASE line.type # "turn" /\ turns = {}
  <2>1. {j \in DOMAIN t : t[j].type = "turn"} = {}
    BY <1>1, <1>3
  <2> QED
    BY <1>3, <2>1 DEF terminal_status, t
<1>4. CASE line.type # "turn" /\ turns # {}
  <2>1. PICK i \in turns : \A j \in turns : j <= i
    BY <1>4, LastTurnExists
  <2>2. terminal_status(s) = s[i].status
    BY <1>1, <2>1, TerminalIsLast
  <2>3. /\ i \in DOMAIN t /\ DOMAIN t \subseteq Nat /\ t[i].type = "turn"
        /\ \A j \in DOMAIN t : t[j].type = "turn" => j <= i
    BY <1>1, <1>4, <2>1
  <2>4. terminal_status(t) = t[i].status
    BY <2>3, TerminalIsLast
  <2> QED
    BY <1>1, <1>4, <2>1, <2>2, <2>4 DEF t
<1> QED
  BY <1>2, <1>3, <1>4

\* So do its commands and its garbage add up.
LEMMA ResultsOfAppend ==
  ASSUME NEW s \in Seq(Lines), NEW line \in Lines
  PROVE  /\ command_results(Append(s, line)) =
              command_results(s) \cup
                (IF line.type = "command"
                 THEN {<< line.command, line.exit_code >>} ELSE {})
         /\ ParseThrows(Append(s, line)) <=>
              ParseThrows(s) \/ line.type = "garbage"
<1> DEFINE t == Append(s, line)
<1>1. /\ DOMAIN s = 1..Len(s) /\ Len(s) \in Nat
      /\ DOMAIN t = DOMAIN s \cup {Len(s) + 1} /\ t[Len(s) + 1] = line
      /\ \A j \in DOMAIN s : t[j] = s[j]
  OBVIOUS
<1> HIDE DEF t
<1>2. ParseThrows(t) <=> ParseThrows(s) \/ line.type = "garbage"
  BY <1>1 DEF ParseThrows
<1>3. command_results(t) =
        command_results(s) \cup
          (IF line.type = "command"
           THEN {<< line.command, line.exit_code >>} ELSE {})
  BY <1>1 DEF command_results
<1> QED
  BY <1>2, <1>3 DEF t

-----------------------------------------------------------------------------
(***************************************************************************)
(* The invariants.                                                         *)
(***************************************************************************)

\* What happened in the worker is what a parser finds in its stream.
Tracks(lines, t) ==
  /\ t.ran = command_results(lines)
  /\ t.garbled <=> ParseThrows(lines)
  /\ t.lastTurn = terminal_status(lines)

TruthIsStream == Tracks(stream, truth)

\* The result is a success, it reports what ran, and it was checked against
\* what happened: the part of IsGood the runner is answerable for.
Checked(res, w) ==
  /\ res.status = "success" /\ res.ready_for_review /\ res.code = "ok"
  /\ res.commands = w.truth.ran
  /\ IF w.smoke
     THEN /\ w.truth.ran = {<< smokeCommand, 0 >>}
          /\ res.final = workerResultFromSmoke(w.run, w.settings, "ok", 0).final
     ELSE /\ ~w.truth.garbled
          /\ w.truth.lastTurn \notin {"failed", "blocked"}
          /\ w.final # None /\ IsFinalOutput(w.final)
          /\ w.final.status = "success"
          /\ ~IsUnbacked(w.final.validations, w.truth.ran)
          /\ \A path \in w.final.files, pattern \in ForbiddenPaths :
               ~globMatch(pattern, path)
          /\ res.final = w.final

\* What is at hand at each stage
Progress ==
  /\ stage # "idle" => run \in Runs
  /\ stage \in {"executing", "proving", "proved", "recorded"} => work # None
  /\ work # None =>
       /\ work.run = run
       /\ work.smoke => work.place = work.settings.evidence_place
  /\ stage = "executing" => work.smoke /\ work.truth = nothing
  /\ result # None => work # None /\ Checked(result, work)
  /\ stage \in {"proving", "proved"} => Checked(result, work)

\* The proof is of the run behind the work, and that work was good.
Stands(p, w) ==
  /\ IsGood(w)
  /\ p.run = w.run
  /\ p.proof_id = proofIdOf[w.run]
  /\ p.artifacts = Recorded(w)
  /\ LogRefs(p.validations) \subseteq p.artifacts
  /\ ~w.smoke => p.validations = w.final.validations

ProofsStand ==
  /\ stage \in {"proved", "recorded"} => proof # None /\ Stands(proof, work)
  /\ stage = "proved" =>
       verifyProof(proof, [run |-> run, forbidden_paths |-> {}],
                   result.final.files) = {}
  /\ stage = "recorded" => /\ ledger[proof.proof_id] = proof
                           /\ madeFrom[proof.proof_id] = work
  /\ \A p \in ProofIds : ledger[p] # None => Stands(ledger[p], madeFrom[p])

\* A proposal is there only once the run is done with it.
CitedWhenDone == proposal # None => stage = "done" /\ ProposalCitesEvidence

IInv ==
  /\ TypeOK /\ TruthIsStream /\ Progress /\ ProofsStand
  /\ NoGoodWorkIsRefused /\ DispatchIsAuthorized /\ CitedWhenDone

-----------------------------------------------------------------------------
(* What the checks let through, and that they let good work through.       *)

\* A success of the runner has been checked against what happened.
LEMMA SuccessIsChecked ==
  ASSUME NEW lines, NEW t, Tracks(lines, t), NEW final, NEW w,
         w.smoke = FALSE, w.truth = t, w.final = final,
         runFakeCodexWorker(lines, final, ForbiddenPaths).status = "success"
  PROVE  Checked(runFakeCodexWorker(lines, final, ForbiddenPaths), w)
<1> DEFINE res == runFakeCodexWorker(lines, final, ForbiddenPaths)
<1>1. workerCode(lines, final, ForbiddenPaths) = "ok"
  BY RunnerAccepts
<1>2. /\ ~ParseThrows(lines) /\ final # None
      /\ OutputChecks(lines, final, ForbiddenPaths) = {}
  BY <1>1, RunnerAccepts
<1>3. /\ res.status = final.status
      /\ res.ready_for_review <=> final.ready_for_review
      /\ res.code = "ok" /\ res.commands = command_results(lines)
      /\ res.final = final
  BY <1>1 DEF runFakeCodexWorker
<1>4. /\ IsFinalOutput(final)
      /\ \A path \in final.files, pattern \in ForbiddenPaths :
           ~globMatch(pattern, path)
      /\ ~IsUnbacked(final.validations, command_results(lines))
      /\ ~streamFailure(terminal_status(lines), final)
  BY <1>2, OutputAccepted
<1>5. final.status = "success" /\ final.ready_for_review
  BY <1>3, <1>4 DEF IsFinalOutput
<1>6. t.lastTurn \notin {"failed", "blocked"}
  BY <1>4, <1>5 DEF streamFailure, Tracks
<1> HIDE DEF res
<1>7. Checked(res, w)
  BY <1>2, <1>3, <1>4, <1>5, <1>6 DEF Checked, Tracks
<1> QED
  BY <1>7 DEF res

\* Good work is a success of the runner.
LEMMA GoodWorkSucceeds ==
  ASSUME NEW lines, NEW t, Tracks(lines, t), NEW final \in FinalOutputs, NEW w,
         w.smoke = FALSE, w.truth = t, w.final = final, IsGood(w)
  PROVE  runFakeCodexWorker(lines, final, ForbiddenPaths).status = "success"
<1>1. /\ ~t.garbled /\ t.lastTurn \notin {"failed", "blocked"}
      /\ final # None /\ ClaimsSuccess(w) /\ ClaimsAreTrue(w)
      /\ \A path \in final.files : ~IsForbidden(path)
  BY DEF IsGood
<1>2. IsFinalOutput(final)
  BY <1>1 DEF ClaimsSuccess, ClaimsAreTrue, IsFinalOutput, FinalStatuses,
              HasPassed
<1>3. final.files \subseteq Seq(STRING)
  BY <1>1, <1>2, InputAssumption DEF IsFinalOutput
<1>4. \A path \in final.files, pattern \in ForbiddenPaths :
        ~globMatch(pattern, path)
  BY <1>1, <1>3, RunnerSeesForbidden
<1>5. ~IsUnbacked(final.validations, command_results(lines))
  BY <1>1 DEF ClaimsAreTrue, IsUnbacked, Tracks
<1>6. ~streamFailure(terminal_status(lines), final)
  BY <1>1 DEF streamFailure, Tracks
<1>7. workerCode(lines, final, ForbiddenPaths) = "ok"
  BY <1>1, <1>2, <1>4, <1>5, <1>6, RunnerAccepts, OutputAccepted DEF Tracks
<1> QED
  BY <1>1, <1>7 DEF runFakeCodexWorker, ClaimsSuccess

\* The references of a piece of work, spelled out
LEMMA RecordedRefs ==
  ASSUME NEW w \in Works
  PROVE  /\ Recorded(w) \subseteq
              {w.place} \X {"jsonl", "final", "log", "diff", "proof"}
         /\ {w.place} \X {"jsonl", "final", "log"} \subseteq Recorded(w)
         /\ w.place \in Places /\ w.run \in Runs /\ w.smoke \in BOOLEAN
         /\ ~w.smoke => w.place = "artifact" /\ w.final \in FinalOutputs
         /\ w.smoke => w.settings \in SmokeInputs
<1>1. /\ w.place \in Places /\ w.run \in Runs /\ w.smoke \in BOOLEAN
      /\ ~w.smoke => w.place = "artifact" /\ w.final \in FinalOutputs
      /\ w.smoke => w.settings \in SmokeInputs
  BY DEF Works, Places
<1>2. \A name \in {"jsonl", "final", "log"} : << w.place, name >> \in Recorded(w)
  BY DEF Recorded, smokeArtifacts, workerArtifacts
<1>3. \A ref \in Recorded(w) :
        \E name \in {"jsonl", "final", "log", "diff", "proof"} :
          ref = << w.place, name >>
  BY DEF Recorded, smokeArtifacts, workerArtifacts
<1> QED
  BY <1>1, <1>2, <1>3

\* A smoke run's final output
LEMMA SmokeFinal ==
  ASSUME NEW r, NEW smoke, NEW n
  PROVE  LET res == workerResultFromSmoke(r, smoke, "ok", n)
             v == [command |-> smokeCommand, exit_code |-> n,
                   status |-> "passed",
                   log_ref |-> << smoke.evidence_place, "log" >>]
         IN  /\ res.status = "success" /\ res.ready_for_review
             /\ res.code = "ok" /\ res.commands = {<< smokeCommand, n >>}
             /\ res.final.identity = r /\ res.final.files = {}
             /\ res.final.validations = {v}
             /\ res.final.risk_notes = TRUE
             /\ res.final.rollback_notes = TRUE
BY DEF workerResultFromSmoke

\* A result that is made into a proof: the proof stands on good work, and the
\* ledger, which verifies it again, finds nothing.
LEMMA ProofStandsOnWork ==
  ASSUME NEW w \in Works, NEW res, Checked(res, w),
         w.smoke => w.place = w.settings.evidence_place,
         proofCode(proofIdOf[w.run], w.run, res, ArtifactRefs(w), Recorded(w),
                   ForbiddenPaths) = "ok"
  PROVE  LET p == ProofOf(proofIdOf[w.run], w.run, res, Recorded(w))
         IN  /\ Stands(p, w)
             /\ verifyProof(p, [run |-> w.run, forbidden_paths |-> {}],
                            res.final.files) = {}
             /\ p \in Proofs
<1> DEFINE p == ProofOf(proofIdOf[w.run], w.run, res, Recorded(w))
           refs == ArtifactRefs(w)
<1>1. /\ WorkerErrors(res, refs, w.run, ForbiddenPaths) = {}
      /\ bindingErrors(Recorded(w), requiredRefs(res, refs)) = {}
      /\ verifyProof(p, [run |-> w.run, forbidden_paths |-> ForbiddenPaths],
                     res.final.files) = {}
  BY ProofIsMade
<1>2. /\ p.run = w.run /\ p.proof_id = proofIdOf[w.run]
      /\ p.artifacts = Recorded(w) /\ p.validations = res.final.validations
      /\ p.risk_notes = res.final.risk_notes
      /\ p.rollback_notes = res.final.rollback_notes
  BY DEF ProofOf
<1>3. /\ res.final.identity = w.run
      /\ res.final.validations # {}
      /\ res.final.risk_notes /\ res.final.rollback_notes
      /\ \A path \in res.final.files : ~matchesAnyPath(path, ForbiddenPaths)
      /\ ~IsUnbacked(res.final.validations, res.commands)
  BY <1>1, BuilderAccepts
<1>4. LogRefs(res.final.validations) \subseteq Recorded(w)
  BY <1>1, BindingAccepts DEF requiredRefs
<1>5. /\ IsLedgerEntry(p)
      /\ \A ref \in p.artifacts \cup LogRefs(p.validations) :
           ~HasTraversal(ref)
      /\ HasPassed(p.validations)
      /\ \A v \in p.validations : v.log_ref # None
      /\ p.risk_notes
  BY <1>1, VerifierAccepts
<1>6. verifyProof(p, [run |-> w.run, forbidden_paths |-> {}],
                  res.final.files) = {}
  <2> DEFINE expected == [run |-> w.run, forbidden_paths |-> {}]
  <2>1. expected.run = w.run /\ expected.forbidden_paths = {}
    OBVIOUS
  <2>2. \A path \in res.final.files :
          ~matchesAnyPath(path, expected.forbidden_paths)
    BY <2>1 DEF matchesAnyPath
  <2> HIDE DEF expected, p
  <2>3. verifyProof(p, expected, res.final.files) = {}
    BY <1>2, <1>5, <2>1, <2>2, VerifierAccepts
  <2> QED
    BY <2>3 DEF expected, p
<1>7. CASE w.smoke
  <2>1. w.place # "plain" /\ w.place # "traversal"
    <3>1. << w.place, "log" >> \in p.artifacts
      BY <1>2, RecordedRefs
    <3> QED
      BY <1>5, <3>1 DEF IsLedgerEntry, IsUri, HasTraversal
  <2>2. IsGood(w)
    <3>1. w.place = "artifact"
      BY <2>1, RecordedRefs DEF Places
    <3> QED
      BY <1>7, <3>1 DEF IsGood, Checked
  <2>3. /\ res.final.risk_notes = TRUE /\ res.final.rollback_notes = TRUE
        /\ res.final.validations =
             workerResultFromSmoke(w.run, w.settings, "ok", 0).final.validations
    <3> DEFINE f == workerResultFromSmoke(w.run, w.settings, "ok", 0).final
    <3>1. res.final = f
      BY <1>7 DEF Checked
    <3>2. f.risk_notes = TRUE /\ f.rollback_notes = TRUE
      BY SmokeFinal
    <3> HIDE DEF f
    <3>3. res.final.risk_notes = TRUE /\ res.final.rollback_notes = TRUE
      BY <3>1, <3>2
    <3> QED
      BY <3>1, <3>3 DEF f
  <2>4. p \in Proofs
    <3>1. /\ w.run \in Runs /\ w.settings \in SmokeInputs
          /\ proofIdOf[w.run] \in ProofIds
          /\ Recorded(w) \in
               SUBSET (Places \X {"jsonl", "final", "log", "diff", "proof"})
      BY <1>7, RecordedRefs, PipelineAssumption
    <3>2. res.final.validations \in
            {workerResultFromSmoke(r, smoke, "ok", 0).final.validations :
               r \in Runs, smoke \in SmokeInputs}
      BY <2>3, <3>1
    <3> HIDE DEF p
    <3>3. p = [proof_id |-> proofIdOf[w.run], run |-> w.run,
               artifacts |-> Recorded(w),
               validations |-> res.final.validations,
               risk_notes |-> res.final.risk_notes,
               rollback_notes |-> res.final.rollback_notes]
      BY DEF p, ProofOf
    <3> DEFINE vals == res.final.validations
    <3> HIDE DEF vals
    <3>4. [proof_id |-> proofIdOf[w.run], run |-> w.run,
           artifacts |-> Recorded(w), validations |-> vals,
           risk_notes |-> TRUE, rollback_notes |-> TRUE] \in Proofs
      BY <3>1, <3>2 DEF Proofs, vals
    <3> QED
      BY <2>3, <3>3, <3>4 DEF vals
  <2>5. Stands(p, w)
    <3> HIDE DEF p
    <3> QED
      BY <1>2, <1>4, <1>7, <2>2 DEF Stands
  <2> QED
    BY <1>6, <2>4, <2>5
<1>8. CASE ~w.smoke
  <2>1. /\ res.final = w.final /\ IsFinalOutput(w.final)
        /\ w.final.status = "success"
        /\ ~w.truth.garbled /\ w.truth.lastTurn \notin {"failed", "blocked"}
        /\ w.final # None /\ w.final \in FinalOutputs
        /\ res.commands = w.truth.ran
    BY <1>8, RecordedRefs DEF Checked
  <2>2. ClaimsSuccess(w)
    BY <1>3, <2>1 DEF ClaimsSuccess, IsFinalOutput
  <2>3. ClaimsAreTrue(w)
    <3>1. \A v \in w.final.validations :
            /\ << v.command, v.exit_code >> \in w.truth.ran
            /\ v.status # "failed"
      BY <1>3, <2>1 DEF IsUnbacked, IsFinalOutput
    <3>2. \A v \in w.final.validations : v.log_ref \in Recorded(w)
      BY <1>2, <1>4, <1>5, <2>1 DEF LogRefs
    <3>3. \E v \in w.final.validations :
            v.status = "passed" /\ v.exit_code = 0
      BY <1>2, <1>5, <2>1 DEF HasPassed
    <3> QED
      BY <3>1, <3>2, <3>3 DEF ClaimsAreTrue
  <2>4. w.final.files \subseteq Seq(STRING) /\ w.final.wellformed
        /\ w.final.risk_notes \in BOOLEAN /\ w.final.rollback_notes \in BOOLEAN
    BY <2>1, InputAssumption DEF IsFinalOutput
  <2>5. \A path \in w.final.files : ~IsForbidden(path)
    BY <1>3, <2>1, <2>4, VerifierSeesForbidden
  <2>6. IsGood(w)
    BY <1>8, <2>1, <2>2, <2>3, <2>5 DEF IsGood
  <2>7. p \in Proofs
    <3>1. /\ w.run \in Runs /\ proofIdOf[w.run] \in ProofIds
          /\ Recorded(w) \in
               SUBSET (Places \X {"jsonl", "final", "log", "diff", "proof"})
      BY RecordedRefs, PipelineAssumption
    <3>2. w.final.validations \in
            {final.validations : final \in FinalOutputs \ {None}}
      BY <2>1
    <3> HIDE DEF p
    <3>3. p = [proof_id |-> proofIdOf[w.run], run |-> w.run,
               artifacts |-> Recorded(w),
               validations |-> w.final.validations,
               risk_notes |-> w.final.risk_notes,
               rollback_notes |-> w.final.rollback_notes]
      BY <2>1 DEF p, ProofOf
    <3> QED
      BY <2>4, <3>1, <3>2, <3>3 DEF Proofs
  <2>8. Stands(p, w)
    <3> HIDE DEF p
    <3> QED
      BY <1>2, <1>4, <1>8, <2>1, <2>6 DEF Stands
  <2> QED
    BY <1>6, <2>7, <2>8
<1> QED
  BY <1>7, <1>8

\* Good work whose result is a success is made into a proof.
LEMMA GoodWorkIsProved ==
  ASSUME NEW w \in Works, NEW res, Checked(res, w), IsGood(w),
         w.smoke => w.place = w.settings.evidence_place
  PROVE  proofCode(proofIdOf[w.run], w.run, res, ArtifactRefs(w), Recorded(w),
                   ForbiddenPaths) = "ok"
<1> DEFINE p == ProofOf(proofIdOf[w.run], w.run, res, Recorded(w))
           refs == ArtifactRefs(w)
           expected == [run |-> w.run, forbidden_paths |-> ForbiddenPaths]
<1>1. /\ w.place = "artifact"
      /\ Recorded(w) \subseteq
           {"artifact"} \X {"jsonl", "final", "log", "diff", "proof"}
      /\ {"artifact"} \X {"jsonl", "final", "log"} \subseteq Recorded(w)
  <2>1. w.place = "artifact"
    BY RecordedRefs DEF IsGood
  <2> QED
    BY <2>1, RecordedRefs
\* what the final output has to be, for either kind of work
<1>2. /\ res.final # None
      /\ res.final.identity = w.run
      /\ res.final.risk_notes /\ res.final.rollback_notes
      /\ \A path \in res.final.files : ~matchesAnyPath(path, ForbiddenPaths)
      /\ HasPassed(res.final.validations)
      /\ \A v \in res.final.validations :
           /\ << v.command, v.exit_code >> \in w.truth.ran
           /\ v.log_ref \in Recorded(w)
  <2>1. CASE w.smoke
    <3>1. /\ w.run \in Runs /\ w.settings \in SmokeInputs
          /\ w.truth.ran = {<< smokeCommand, 0 >>}
          /\ w.settings.evidence_place = "artifact"
          /\ res.final = workerResultFromSmoke(w.run, w.settings, "ok", 0).final
      BY <1>1, <2>1, RecordedRefs DEF Checked
    <3>2. res.final # None
      BY <3>1, NoneAssumption
    <3>3. << "artifact", "log" >> \in Recorded(w)
      BY <1>1
    <3> DEFINE f == workerResultFromSmoke(w.run, w.settings, "ok", 0).final
               v == [command |-> smokeCommand, exit_code |-> 0,
                     status |-> "passed", log_ref |-> << "artifact", "log" >>]
    <3>4. /\ f.identity = w.run /\ f.files = {} /\ f.validations = {v}
          /\ f.risk_notes = TRUE /\ f.rollback_notes = TRUE
      <4> DEFINE u == [command |-> smokeCommand, exit_code |-> 0,
                       status |-> "passed",
                       log_ref |-> << w.settings.evidence_place, "log" >>]
      <4>1. /\ f.identity = w.run /\ f.files = {} /\ f.validations = {u}
            /\ f.risk_notes = TRUE /\ f.rollback_notes = TRUE
        BY DEF workerResultFromSmoke
      <4>2. u = v
        BY <3>1
      <4> QED
        BY <4>1, <4>2
    <3>5. /\ v.command = smokeCommand /\ v.exit_code = 0
          /\ v.status = "passed" /\ v.log_ref = << "artifact", "log" >>
      OBVIOUS
    <3> HIDE DEF f, v
    <3>6. res.final = f
      BY <3>1 DEF f
    <3>7. res.final.risk_notes /\ res.final.rollback_notes
      <4>1. res.final.risk_notes = TRUE /\ res.final.rollback_notes = TRUE
        BY <3>4, <3>6
      <4> QED
        BY <4>1
    <3>8. res.final.identity = w.run /\ res.final.files = {}
      BY <3>4, <3>6
    <3>9. /\ HasPassed(res.final.validations)
          /\ \A u \in res.final.validations :
               /\ << u.command, u.exit_code >> \in w.truth.ran
               /\ u.log_ref \in Recorded(w)
      BY <3>1, <3>3, <3>4, <3>5, <3>6 DEF HasPassed
    <3> QED
      BY <3>2, <3>7, <3>8, <3>9
  <2>2. CASE ~w.smoke
    <3>1. /\ res.final = w.final /\ w.final # None /\ w.final \in FinalOutputs
          /\ ClaimsSuccess(w) /\ ClaimsAreTrue(w)
          /\ \A path \in w.final.files : ~IsForbidden(path)
      BY <2>2, RecordedRefs DEF Checked, IsGood
    <3>2. w.final.files \subseteq Seq(STRING)
      BY <3>1, InputAssumption DEF ClaimsSuccess
    <3>3. \A path \in w.final.files : ~matchesAnyPath(path, ForbiddenPaths)
      BY <3>1, <3>2, VerifierSeesForbidden
    <3> QED
      BY <3>1, <3>3 DEF ClaimsSuccess, ClaimsAreTrue, HasPassed
  <2> QED
    BY <2>1, <2>2
<1>3. \A ref \in Recorded(w) :
        ref # None /\ IsUri(ref) /\ ~HasTraversal(ref)
  <2>1. None \notin Places \X {"jsonl", "final", "log", "diff", "proof"}
    BY NoneAssumption
  <2>2. \A ref \in Recorded(w) :
          /\ ref \in Places \X {"jsonl", "final", "log", "diff", "proof"}
          /\ ref[1] = "artifact"
    BY <1>1 DEF Places
  <2> QED
    BY <2>1, <2>2 DEF IsUri, HasTraversal
<1>4. LogRefs(res.final.validations) \subseteq Recorded(w)
  BY <1>2 DEF LogRefs
<1>5. /\ refs.jsonl \in Recorded(w) /\ refs.final_output \in Recorded(w)
  BY <1>1 DEF ArtifactRefs
<1>6. WorkerErrors(res, refs, w.run, ForbiddenPaths) = {}
  <2>1. refs.final_output # None
    BY <1>3, <1>5
  <2>2. ~IsUnbacked(res.final.validations, res.commands)
    BY <1>2 DEF IsUnbacked, Checked
  <2>3. res.final.validations # {}
    BY <1>2 DEF HasPassed
  <2>4. res.status = "success" /\ res.ready_for_review /\ res.code = "ok"
    BY DEF Checked
  <2> HIDE DEF refs
  <2> QED
    BY <1>2, <2>1, <2>2, <2>3, <2>4, BuilderAccepts
<1>7. bindingErrors(Recorded(w), requiredRefs(res, refs)) = {}
  <2>1. requiredRefs(res, refs) \subseteq Recorded(w)
    BY <1>4, <1>5 DEF requiredRefs
  <2> QED
    BY <1>3, <2>1, BindingAccepts
<1>8. verifyProof(p, expected, res.final.files) = {}
  <2>1. /\ p.run = w.run /\ p.artifacts = Recorded(w)
        /\ p.validations = res.final.validations
        /\ p.risk_notes = res.final.risk_notes
        /\ p.rollback_notes = res.final.rollback_notes
    BY DEF ProofOf
  <2>2. expected.run = w.run /\ expected.forbidden_paths = ForbiddenPaths
    OBVIOUS
  <2> HIDE DEF p, expected
  <2>3. IsLedgerEntry(p)
    <3>1. p.artifacts # {}
      BY <1>5, <2>1
    <3>2. p.validations # {}
      BY <1>2, <2>1 DEF HasPassed
    <3> QED
      BY <1>2, <1>3, <1>4, <2>1, <3>1, <3>2 DEF IsLedgerEntry
  <2>4. /\ \A ref \in p.artifacts \cup LogRefs(p.validations) :
             ~HasTraversal(ref)
        /\ \A v \in p.validations : v.log_ref # None
    BY <1>2, <1>3, <1>4, <2>1
  <2>5. HasPassed(p.validations) /\ p.risk_notes
    BY <1>2, <2>1
  <2> QED
    BY <1>2, <2>1, <2>2, <2>3, <2>4, <2>5, VerifierAccepts
<1> QED
  BY <1>6, <1>7, <1>8, ProofIsMade

-----------------------------------------------------------------------------
(* What a work cell is made for.                                           *)

\* Routing that fails with nothing picks a capability that takes the task's
\* type, allows what the task requires, denies none of it, and is no riskier
\* than the task.
LEMMA RoutingIsSafe ==
  ASSUME NEW registry, NEW task, task.risk \in DOMAIN riskRank,
         routeFailure(registry, task) = "ok"
  PROVE  LET cap == routeCapability(registry, task)
         IN  /\ task.task_type \in cap.task_types
             /\ task.required_permissions \subseteq cap.allow
             /\ task.required_permissions \cap cap.deny = {}
             /\ cap.risk_level = "high" => task.risk = "high"
<1> DEFINE named == task.suggested_capability # None
           suggested == Suggested(registry, task)
           safe == Safe(registry, task)
           a == TaskMatches(registry, task) = {}
           b == named /\ suggested = {}
           c == named /\ ~(suggested \subseteq TaskMatches(registry, task))
           d == RiskSafe(registry, task) = {}
           e == DeniesRequired(registry, task)
           f == safe = {}
           g == \E i, j \in safe : i # j
           checks == [unsupported_task_type |-> a, unknown_capability |-> b,
             overbroad_capability |-> c, risk_too_low |-> d,
             permission_denied |-> e, permission_unsupported |-> f,
             ambiguous_capability |-> g]
<1>1. FirstOf(routeFailureCodes, Failing(checks)) = "ok"
  BY DEF routeFailure
<1>2. /\ Failing(checks) = {} <=> ~(a \/ b \/ c \/ d \/ e \/ f \/ g)
      /\ Failing(checks) \subseteq
           {"unsupported_task_type", "unknown_capability",
            "overbroad_capability", "risk_too_low", "permission_denied",
            "permission_unsupported", "ambiguous_capability"}
  <2> HIDE DEF a, b, c, d, e, f, g
  <2> QED
    BY DEF Failing
<1>3. Failing(checks) = {}
  <2> DEFINE codes == Failing(checks)
  <2>1. /\ DOMAIN routeFailureCodes = 1..7
        /\ routeFailureCodes[1] = "unsupported_task_type"
        /\ routeFailureCodes[2] = "unknown_capability"
        /\ routeFailureCodes[3] = "overbroad_capability"
        /\ routeFailureCodes[4] = "risk_too_low"
        /\ routeFailureCodes[5] = "permission_denied"
        /\ routeFailureCodes[6] = "permission_unsupported"
        /\ routeFailureCodes[7] = "ambiguous_capability"
    BY DEF routeFailureCodes
  <2> HIDE DEF checks
  <2>2. /\ DOMAIN routeFailureCodes \subseteq Nat
        /\ \A i \in DOMAIN routeFailureCodes : routeFailureCodes[i] # "ok"
    BY <2>1
  <2>3. \A code \in codes :
          \E i \in DOMAIN routeFailureCodes : routeFailureCodes[i] = code
    BY <1>2, <2>1
  <2> QED
    BY <1>1, <2>2, <2>3, FirstOfIsOk
<1>4. ~c /\ ~e /\ ~f
  BY <1>2, <1>3
<1> DEFINE k == CHOOSE i \in safe : TRUE
<1>5. k \in safe
  BY <1>4
<1>6. /\ k \in RiskSafe(registry, task)
      /\ task.required_permissions \subseteq registry[k].allow
  BY <1>5 DEF Safe
<1>7. /\ k \in Candidates(registry, task)
      /\ riskRank[registry[k].risk_level] <= riskRank[task.risk]
  BY <1>6 DEF RiskSafe
<1>8. task.required_permissions \cap registry[k].deny = {}
  BY <1>4, <1>6 DEF DeniesRequired
<1>9. task.task_type \in registry[k].task_types
  BY <1>4, <1>7 DEF Candidates, TaskMatches
<1>10. registry[k].risk_level = "high" => task.risk = "high"
  BY <1>7 DEF riskRank
<1>11. routeCapability(registry, task) = registry[k]
  BY DEF routeCapability
<1> QED
  BY <1>6, <1>8, <1>9, <1>10, <1>11

\* A request policy allows is not of a denied action, and one that needs a
\* human has the approval of this run, action, target and verified proof.
LEMMA PolicyIsHeld ==
  ASSUME NEW policy, NEW req, decidePolicy(policy, req) = "allow",
         req.requested_at \in Nat,
         req.approval # None =>
           /\ req.approval.proof_id # None
           /\ req.approval.expires_at \in Nat
  PROVE  /\ req.action \notin policy.denied_actions
         /\ req.action \in policy.approval_required_actions
              => HasHumanApproval(req)
<1>1. /\ RequestErrors(policy, req) = {} /\ ApprovalErrors(policy, req) = {}
      /\ ProofErrors(policy, req) = {}
  BY DEF decidePolicy, policyDecisionErrors
<1>2. req.action \notin policy.denied_actions
  <2> DEFINE rule == AllowRule(policy, req)
             event == req.matrix_event
             a == rule = None
             b == req.action \in policy.denied_actions
             c == /\ rule # None
                  /\ rule.requires_isolated_worktree
                  /\ \/ req.worktree = None
                     \/ ~IsInWorktrees(req.worktree)
             d == req.context_kinds \cap policy.denied_context_kinds # {}
             e == event # None /\ event.claimed_actor_id # event.sender_id
             f == /\ event # None
                  /\ << event.room_id, req.workspace_id >>
                       \notin policy.room_workspace_map
             g == req.attempts_policy_override
             h == /\ req.command # None
                  /\ req.command \notin policy.allowed_commands
             i == /\ req.target.operation = "create_pr"
                  /\ req.target.source_ref # None
                  /\ req.target.source_ref = req.target.base_ref
             j == req.action \in policy.direct_write_actions
             checks == [default_deny |-> a, action_denied |-> b,
               worktree_required |-> c, context_denied |-> d,
               actor_spoofing |-> e, room_mismatch |-> f,
               policy_override |-> g, command_denied |-> h,
               target_confusion |-> i, memory_write |-> j]
  <2>1. RequestErrors(policy, req) = Failing(checks)
    BY DEF RequestErrors
  <2>2. Failing(checks) = {} => ~b
    <3> HIDE DEF a, b, c, d, e, f, g, h, i, j
    <3> QED
      BY DEF Failing
  <2> QED
    BY <1>1, <2>1, <2>2
<1>3. ASSUME req.action \in policy.approval_required_actions
      PROVE  HasHumanApproval(req)
  <2> DEFINE approval == req.approval
             proof_id == IF req.proof = None THEN None ELSE req.proof.proof_id
             a == approval.action # req.action
             b == approval.task_id # req.task_id
             c == approval.target_ref # req.target.ref
             d == approval.proof_id # proof_id
             e == approval.replay_key # approvalReplayKey(req)
             f == approval.replay_key \in req.used_replay_keys
             g == approval.expires_at <= req.requested_at
             checks == [approval_action |-> a, approval_task |-> b,
               approval_target |-> c, approval_proof |-> d,
               approval_replay_key |-> e, approval_replayed |-> f,
               approval_expired |-> g]
  <2>1. approval # None /\ Failing(checks) = {}
    BY <1>1, <1>3 DEF ApprovalErrors
  <2>2. Failing(checks) = {} <=> ~(a \/ b \/ c \/ d \/ e \/ f \/ g)
    <3> HIDE DEF a, b, c, d, e, f, g
    <3> QED
      BY DEF Failing
  <2>3. ~d /\ ~e /\ ~f /\ ~g
    BY <2>1, <2>2
  <2>4. req.proof # None
    BY <2>1, <2>3
  <2>5. approval.replay_key =
          << req.task_id, req.run_id, req.action, req.target.ref,
             req.proof.proof_id >>
    BY <2>3, <2>4 DEF approvalReplayKey
  <2>6. req.requested_at < approval.expires_at
    BY <2>1, <2>3
  <2>7. /\ req.proof.verdict = "verified"
        /\ \A v \in req.proof.validation : v.exit_code = 0
    <3> DEFINE p == req.proof.verdict # "verified"
                      \/ req.proof.verifier # "proof.verify"
               q == \E v \in req.proof.validation :
                      v.status # "passed" \/ v.exit_code # 0
               r == \E v \in req.proof.validation :
                      v.log \notin policy.allowed_uri_prefixes
               s == \E v \in req.proof.validation : v.secret
               errors == [proof_not_verified |-> p,
                 validation_not_passed |-> q, proof_log_prefix |-> r,
                 secret_log |-> s]
    <3>1. Failing(errors) = {}
      BY <1>1, <2>4 DEF ProofErrors
    <3>2. Failing(errors) = {} <=> ~(p \/ q \/ r \/ s)
      <4> HIDE DEF p, q, r, s
      <4> QED
        BY DEF Failing
    <3> QED
      BY <3>1, <3>2
  <2> QED
    BY <2>1, <2>3, <2>4, <2>5, <2>6, <2>7 DEF HasHumanApproval
<1> QED
  BY <1>2, <1>3

\* A work cell is made where policy allows it, in a worktree without flaws
\* outside the main checkout.
LEMMA WorkCellIsApart ==
  ASSUME NEW decision, NEW worktree, createWorkCell(decision, worktree) = "ok",
         worktree.path \in Seq(STRING),
         worktree.flaws \subseteq Range(workCellCodes)
  PROVE  /\ decision = "allow"
         /\ worktree.flaws = {}
         /\ worktree.path[2] = ".worktrees"
<1> DEFINE a == ~IsStrictPrefix(<< "..", ".worktrees" >>, worktree.path)
           b == \/ Len(worktree.path) # 4
                \/ worktree.path[4] \notin WorktreeNames
           checks == [main_checkout_path |-> a, invalid_worktree_path |-> b]
           codes == worktree.flaws \cup Failing(checks)
<1>1. decision = "allow" /\ FirstOf(workCellCodes, codes) = "ok"
  BY DEF createWorkCell, WorktreeCodes
<1>2. /\ Failing(checks) = {} <=> ~(a \/ b)
      /\ Failing(checks) \subseteq
           {"main_checkout_path", "invalid_worktree_path"}
  <2> HIDE DEF a, b
  <2> QED
    BY DEF Failing
<1>3. codes = {}
  <2>1. /\ DOMAIN workCellCodes = 1..15
        /\ workCellCodes[9] = "main_checkout_path"
        /\ workCellCodes[10] = "invalid_worktree_path"
        /\ \A i \in 1..15 : workCellCodes[i] # "ok"
    BY DEF workCellCodes
  <2> HIDE DEF checks
  <2>2. \A code \in codes :
          \E i \in DOMAIN workCellCodes : workCellCodes[i] = code
    BY <1>2, <2>1 DEF Range
  <2>3. /\ DOMAIN workCellCodes \subseteq Nat
        /\ \A i \in DOMAIN workCellCodes : workCellCodes[i] # "ok"
    BY <2>1
  <2> HIDE DEF codes
  <2> QED
    BY <1>1, <2>2, <2>3, FirstOfIsOk
<1>4. IsStrictPrefix(<< "..", ".worktrees" >>, worktree.path)
  BY <1>2, <1>3
<1>5. worktree.path[2] = ".worktrees"
  <2> DEFINE apart == << "..", ".worktrees" >>
  <2>1. /\ apart \in Seq({"..", ".worktrees"}) /\ Len(apart) = 2
        /\ apart[2] = ".worktrees"
    OBVIOUS
  <2> HIDE DEF apart
  <2>2. /\ Len(worktree.path) >= 2
        /\ SubSeq(worktree.path, 1, 2) = SubSeq(apart, 1, 2)
    BY <1>4, <2>1 DEF IsStrictPrefix, IsPrefix, apart
  <2>3. SubSeq(worktree.path, 1, 2)[2] = worktree.path[2]
    BY <2>2
  <2>4. SubSeq(apart, 1, 2)[2] = apart[2]
    BY <2>1
  <2> QED
    BY <2>1, <2>2, <2>3, <2>4
<1> QED
  BY <1>1, <1>3, <1>5

\* What a dispatch was made for, when a work cell was made: it is routed,
\* allowed, approved where that is needed, and apart from the main checkout.
LEMMA CellIsAuthorized ==
  ASSUME NEW in \in DispatchInputs, NEW r, DispatchCode(r, in) = "ok",
         in.request.action \in in.task.required_permissions
  PROVE  LET d   == [in EXCEPT !.request = RequestOf(@, r,
                       routeCapability(in.registry, in.task))]
             cap == routeCapability(d.registry, d.task)
             req == d.request
         IN  /\ d.task.task_type \in cap.task_types
             /\ d.task.required_permissions \subseteq cap.allow \ cap.deny
             /\ req.action \in cap.allow \ (cap.deny \cup Policy.denied_actions)
             /\ cap.risk_level = "high" => d.task.risk = "high"
             /\ d.worktree.path[2] = ".worktrees"
             /\ d.worktree.flaws = {}
             /\ req.action \in Policy.approval_required_actions
                  => HasHumanApproval(req)
<1> DEFINE cap == routeCapability(in.registry, in.task)
           req == RequestOf(in.request, r, cap)
           d == [in EXCEPT !.request = RequestOf(@, r, cap)]
<1>1. /\ d.registry = in.registry /\ d.task = in.task
      /\ d.worktree = in.worktree /\ d.request = req
  BY DispatchAssumption
<1>2. /\ req.action = in.request.action
      /\ req.requested_at = in.request.requested_at
      /\ req.approval = in.request.approval
  BY DispatchAssumption DEF RequestOf
<1>3. /\ in.task.risk \in DOMAIN riskRank
      /\ in.worktree.path \in Seq(STRING)
      /\ in.worktree.flaws \subseteq Range(workCellCodes)
      /\ in.request.requested_at \in Nat
      /\ in.request.approval # None =>
           /\ in.request.approval.proof_id # None
           /\ in.request.approval.expires_at \in Nat
  BY DispatchAssumption
<1>4. /\ routeFailure(in.registry, in.task) = "ok"
      /\ createWorkCell(decidePolicy(Policy, req), in.worktree) = "ok"
  BY DEF DispatchCode
<1> HIDE DEF req, cap, d
<1>5. /\ in.task.task_type \in cap.task_types
      /\ in.task.required_permissions \subseteq cap.allow
      /\ in.task.required_permissions \cap cap.deny = {}
      /\ cap.risk_level = "high" => in.task.risk = "high"
  BY <1>3, <1>4, RoutingIsSafe DEF cap
<1>6. /\ decidePolicy(Policy, req) = "allow"
      /\ in.worktree.flaws = {}
      /\ in.worktree.path[2] = ".worktrees"
  BY <1>3, <1>4, WorkCellIsApart
<1>7. /\ req.action \notin Policy.denied_actions
      /\ req.action \in Policy.approval_required_actions
           => HasHumanApproval(req)
  BY <1>2, <1>3, <1>6, PolicyIsHeld
<1>8. routeCapability(d.registry, d.task) = cap
  BY <1>1 DEF cap
<1>9. /\ d.task.task_type \in cap.task_types
      /\ d.task.required_permissions \subseteq cap.allow \ cap.deny
      /\ d.request.action \in cap.allow \ (cap.deny \cup Policy.denied_actions)
      /\ cap.risk_level = "high" => d.task.risk = "high"
      /\ d.worktree.path[2] = ".worktrees" /\ d.worktree.flaws = {}
      /\ d.request.action \in Policy.approval_required_actions
           => HasHumanApproval(d.request)
  BY <1>1, <1>2, <1>5, <1>6, <1>7
<1> QED
  BY <1>8, <1>9 DEF d, cap

-----------------------------------------------------------------------------
(* The invariants hold at first, and each action keeps them.               *)

\* What happened in a worker that has not written yet
LEMMA NothingIsTracked == Tracks(<< >>, nothing) /\ nothing \in Truths
<1>1. DOMAIN << >> = {}
  OBVIOUS
<1>2. Tracks(<< >>, nothing)
  BY <1>1 DEF Tracks, nothing, command_results, ParseThrows, terminal_status
<1> QED
  BY <1>2 DEF nothing, Truths

\* Nothing is dispatched, claimed, proved or proposed at first.
LEMMA InitHolds == Init => IInv
<1> SUFFICES ASSUME Init PROVE IInv
  OBVIOUS
<1>1. TypeOK
  BY NothingIsTracked, PipelineAssumption DEF Init, TypeOK, Stages
<1>2. TruthIsStream /\ Progress /\ NoGoodWorkIsRefused
      /\ DispatchIsAuthorized /\ CitedWhenDone
  BY NothingIsTracked DEF Init, TruthIsStream, Progress, NoGoodWorkIsRefused,
     DispatchIsAuthorized, CitedWhenDone
<1>3. ProofsStand
  BY DEF Init, ProofsStand
<1> QED
  BY <1>1, <1>2, <1>3 DEF IInv

\* A new run starts from nothing; the ledger stays as it was.
LEMMA DispatchHolds ==
  ASSUME IInv, NEW r \in Runs, Dispatch(r)
  PROVE  IInv'
<1> USE DEF IInv
<1>0. /\ run' = r /\ stage' \in {"dispatched", "threw"}
      /\ stream' = << >> /\ truth' = nothing /\ work' = None /\ result' = None
      /\ proof' = None /\ proposal' = None
      /\ ledger' = ledger /\ madeFrom' = madeFrom
  BY DEF Dispatch
<1>1. TypeOK'
  BY <1>0, NothingIsTracked, PipelineAssumption DEF TypeOK, Stages
<1>2. TruthIsStream'
  BY <1>0, NothingIsTracked DEF TruthIsStream
<1>3. Progress' /\ NoGoodWorkIsRefused' /\ CitedWhenDone'
  BY <1>0 DEF Progress, NoGoodWorkIsRefused, CitedWhenDone
<1>4. ProofsStand'
  BY <1>0 DEF ProofsStand
<1>5. DispatchIsAuthorized'
  <2> SUFFICES ASSUME dispatch' # None PROVE DispatchIsAuthorized'
    BY DEF DispatchIsAuthorized
  <2>1. PICK in \in DispatchInputs :
          /\ in.request.action \in in.task.required_permissions
          /\ DispatchCode(r, in) = "ok"
          /\ dispatch' = [in EXCEPT !.request = RequestOf(@, r,
                            routeCapability(in.registry, in.task))]
    BY DEF Dispatch
  <2> QED
    BY <2>1, CellIsAuthorized DEF DispatchIsAuthorized
<1> QED
  BY <1>1, <1>2, <1>3, <1>4, <1>5

\* The worker starts.
LEMMA StartHolds ==
  ASSUME IInv, StartWorker
  PROVE  IInv'
<1> USE DEF IInv, StartWorker
<1>1. TypeOK' /\ TruthIsStream' /\ DispatchIsAuthorized'
  BY DEF TypeOK, Stages, TruthIsStream, DispatchIsAuthorized
<1>2. Progress' /\ NoGoodWorkIsRefused' /\ CitedWhenDone'
  BY DEF Progress, NoGoodWorkIsRefused, CitedWhenDone
<1>3. ProofsStand'
  BY DEF ProofsStand
<1> QED
  BY <1>1, <1>2, <1>3

\* A line is written as what it says happens.
LEMMA EmitHolds ==
  ASSUME IInv, NEW line \in Lines, Emit(line)
  PROVE  IInv'
<1> USE DEF IInv
<1>0. /\ stage = "working" /\ Len(stream) < MaxLines
      /\ stream' = Append(stream, line) /\ stream \in Seq(Lines)
      /\ truth \in Truths /\ Tracks(stream, truth)
      /\ line.type \in {"command", "turn", "garbage"}
      /\ UNCHANGED <<stage, run, dispatch, work, result, proof, ledger,
                     madeFrom, proposal>>
  BY InputAssumption DEF Emit, TypeOK, TruthIsStream
<1>1. truth' \in Truths /\ Tracks(stream', truth')
  <2>1. CASE line.type = "command"
    <3>1. truth' = [truth EXCEPT !.ran =
                      @ \cup {<<line.command, line.exit_code>>}]
      BY <2>1 DEF Emit
    <3>2. << line.command, line.exit_code >> \in Endings
      BY <2>1 DEF Endings
    <3>3. /\ truth'.ran = truth.ran \cup {<< line.command, line.exit_code >>}
          /\ truth'.garbled = truth.garbled
          /\ truth'.lastTurn = truth.lastTurn
      BY <1>0, <3>1 DEF Truths
    <3>4. truth' \in Truths
      BY <1>0, <3>1, <3>2 DEF Truths
    <3>5. /\ command_results(stream') = command_results(stream)
               \cup {<< line.command, line.exit_code >>}
          /\ ParseThrows(stream') <=> ParseThrows(stream)
          /\ terminal_status(stream') = terminal_status(stream)
      BY <1>0, <2>1, TerminalOfAppend, ResultsOfAppend
    <3> QED
      BY <1>0, <3>3, <3>4, <3>5 DEF Tracks
  <2>2. CASE line.type = "turn"
    <3>1. truth' = [truth EXCEPT !.lastTurn = line.status]
      BY <2>2 DEF Emit
    <3>2. /\ truth'.ran = truth.ran /\ truth'.garbled = truth.garbled
          /\ truth'.lastTurn = line.status
      BY <1>0, <3>1 DEF Truths
    <3>3. truth' \in Truths
      BY <1>0, <2>2, <3>1 DEF Truths
    <3> QED
      BY <1>0, <2>2, <3>2, <3>3, TerminalOfAppend, ResultsOfAppend DEF Tracks
  <2>3. CASE line.type = "garbage"
    <3>1. truth' = [truth EXCEPT !.garbled = TRUE]
      BY <2>3 DEF Emit
    <3>2. /\ truth'.ran = truth.ran /\ truth'.garbled = TRUE
          /\ truth'.lastTurn = truth.lastTurn
      BY <1>0, <3>1 DEF Truths
    <3>3. truth' \in Truths
      BY <1>0, <3>1 DEF Truths
    <3>4. /\ command_results(stream') = command_results(stream)
          /\ ParseThrows(stream')
          /\ terminal_status(stream') = terminal_status(stream)
      BY <1>0, <2>3, TerminalOfAppend, ResultsOfAppend
    <3>5. truth'.garbled <=> ParseThrows(stream')
      BY <3>2, <3>4
    <3> QED
      BY <1>0, <3>2, <3>3, <3>4, <3>5 DEF Tracks
  <2> QED
    BY <1>0, <2>1, <2>2, <2>3
<1>2. TypeOK'
  <2>1. stream' \in Seq(Lines) /\ Len(stream') <= MaxLines
    BY <1>0, PipelineAssumption
  <2> QED
    BY <1>0, <1>1, <2>1 DEF TypeOK
<1>3. TruthIsStream' /\ DispatchIsAuthorized'
  BY <1>0, <1>1 DEF TruthIsStream, DispatchIsAuthorized
<1>4. Progress' /\ NoGoodWorkIsRefused' /\ CitedWhenDone'
  BY <1>0 DEF Progress, NoGoodWorkIsRefused, CitedWhenDone,
     ProposalCitesEvidence
<1>5. ProofsStand'
  BY <1>0 DEF ProofsStand
<1> QED
  BY <1>2, <1>3, <1>4, <1>5

\* What a checked result has to do with the type invariant
LEMMA CheckedIsTyped ==
  ASSUME NEW res, NEW w, Checked(res, w)
  PROVE  /\ res.status = "success" /\ res.final.validations # {}
         /\ res.commands \subseteq w.truth.ran
<1>1. CASE w.smoke
  <2>1. workerResultFromSmoke(w.run, w.settings, "ok", 0).final.validations # {}
    BY DEF workerResultFromSmoke
  <2> QED
    BY <1>1, <2>1 DEF Checked
<1>2. CASE ~w.smoke
  BY <1>2 DEF Checked, IsFinalOutput, HasPassed
<1> QED
  BY <1>1, <1>2

\* The runner's verdict on a stream and a final output
LEMMA WorkerReturnsHolds ==
  ASSUME IInv, NEW final \in FinalOutputs, WorkerReturns(final)
  PROVE  IInv'
<1> USE DEF IInv
<1> DEFINE res == runFakeCodexWorker(stream, final, ForbiddenPaths)
           w == [smoke |-> FALSE, run |-> run, place |-> "artifact",
                 final |-> final, truth |-> truth]
<1>0. /\ stage = "working" /\ run \in Runs /\ truth \in Truths
      /\ Tracks(stream, truth)
      /\ stage' = IF res.status = "success" THEN "proving" ELSE "stopped"
      /\ result' = IF res.status = "success" THEN res ELSE None
      /\ work' = w /\ stream' = << >> /\ truth' = nothing
      /\ UNCHANGED <<run, dispatch, proof, ledger, madeFrom, proposal>>
  BY DEF WorkerReturns, TakeResult, TypeOK, TruthIsStream, Progress
<1>1. /\ w \in Works /\ w # None /\ w.run = run /\ w.smoke = FALSE
      /\ w.truth = truth /\ w.final = final
  <2>1. w \in Works
    BY <1>0 DEF Works
  <2> QED
    BY <2>1, NoneAssumption
<1> HIDE DEF w, res
<1>2. res.status = "success" => Checked(res, w)
  BY <1>0, <1>1, SuccessIsChecked DEF res
<1>3. res.status # "success" => ~IsGood(w)
  BY <1>0, <1>1, GoodWorkSucceeds DEF res
<1>4. TypeOK'
  <2>1. result' # None => /\ result'.status = "success"
                          /\ result'.final.validations # {}
                          /\ result'.commands \subseteq work'.truth.ran
    BY <1>0, <1>2, CheckedIsTyped
  <2> QED
    BY <1>0, <1>1, <2>1, NothingIsTracked, PipelineAssumption
    DEF TypeOK, Stages
<1>5. TruthIsStream'
  BY <1>0, NothingIsTracked DEF TruthIsStream
<1>6. Progress'
  BY <1>0, <1>1, <1>2 DEF Progress
<1>7. NoGoodWorkIsRefused'
  BY <1>0, <1>3 DEF NoGoodWorkIsRefused
<1>8. DispatchIsAuthorized' /\ CitedWhenDone'
  BY <1>0 DEF DispatchIsAuthorized, CitedWhenDone
<1>9. ProofsStand'
  BY <1>0 DEF ProofsStand
<1> QED
  BY <1>4, <1>5, <1>6, <1>7, <1>8, <1>9

\* A smoke run that is refused did nothing; one that is not runs.
LEMMA LaunchHolds ==
  ASSUME IInv, NEW smoke \in SmokeInputs, LaunchSmoke(smoke)
  PROVE  IInv'
<1> USE DEF IInv
<1> DEFINE w == [smoke |-> TRUE, run |-> run, settings |-> smoke,
                 place |-> smoke.evidence_place, final |-> None,
                 truth |-> nothing]
<1>0. /\ stage = "dispatched" /\ run \in Runs
      /\ dispatch' = None /\ work' = w /\ result' = None
      /\ stage' \in {"stopped", "executing"}
      /\ UNCHANGED <<run, stream, truth, proof, ledger, madeFrom, proposal>>
  <2>1. \A refusal : refusal # "ok" =>
          workerResultFromSmoke(run, smoke, refusal, None).status # "success"
    BY DEF workerResultFromSmoke
  <2> QED
    BY <2>1 DEF LaunchSmoke, TakeResult, Progress
<1>1. /\ w \in Works /\ w # None /\ w.run = run /\ w.smoke = TRUE
      /\ w.truth = nothing /\ w.place = w.settings.evidence_place
  <2>1. w \in Works
    BY <1>0, InputAssumption, NothingIsTracked DEF Works
  <2> QED
    BY <2>1, NoneAssumption
<1> HIDE DEF w
<1>2. ~IsGood(w)
  <2>1. w.truth.ran = {}
    BY <1>1 DEF nothing
  <2> QED
    BY <1>1, <2>1 DEF IsGood
<1>3. TypeOK'
  BY <1>0, <1>1 DEF TypeOK, Stages
<1>4. TruthIsStream'
  BY <1>0 DEF TruthIsStream
<1>5. Progress'
  BY <1>0, <1>1 DEF Progress
<1>6. NoGoodWorkIsRefused'
  BY <1>0, <1>2 DEF NoGoodWorkIsRefused
<1>7. DispatchIsAuthorized' /\ CitedWhenDone'
  BY <1>0 DEF DispatchIsAuthorized, CitedWhenDone
<1>8. ProofsStand'
  BY <1>0 DEF ProofsStand
<1> QED
  BY <1>3, <1>4, <1>5, <1>6, <1>7, <1>8

\* A process that ends with 0 is a success, any other end is not.
LEMMA ProcessReturnsHolds ==
  ASSUME IInv, NEW exit_code \in {0, 1}, ProcessReturns(exit_code)
  PROVE  IInv'
<1> USE DEF IInv
<1> DEFINE code == IF exit_code = 0 THEN "ok" ELSE "codex_exec_failed"
           res == workerResultFromSmoke(run, work.settings, code, exit_code)
           w == [work EXCEPT !.truth.ran = {<<smokeCommand, exit_code>>}]
<1>0. /\ stage = "executing" /\ run \in Runs /\ work \in Works
      /\ work.smoke /\ work.run = run /\ work.truth = nothing
      /\ work.place = work.settings.evidence_place
      /\ stage' = IF res.status = "success" THEN "proving" ELSE "stopped"
      /\ result' = IF res.status = "success" THEN res ELSE None
      /\ work' = w
      /\ UNCHANGED <<run, dispatch, stream, truth, proof, ledger, madeFrom,
                     proposal>>
  BY DEF ProcessReturns, TakeResult, TypeOK, Progress
<1>1. /\ w \in Works /\ w # None /\ w.run = run /\ w.smoke = TRUE
      /\ w.truth.ran = {<< smokeCommand, exit_code >>}
      /\ w.settings = work.settings /\ w.place = w.settings.evidence_place
  <2>1. work \in [smoke : {TRUE}, run : Runs, settings : SmokeInputs,
                  place : Places, final : {None}, truth : Truths]
    BY <1>0 DEF Works
  <2> DEFINE t == [work.truth EXCEPT !.ran = {<< smokeCommand, exit_code >>}]
  <2>2. t \in Truths /\ t.ran = {<< smokeCommand, exit_code >>}
    <3>1. << smokeCommand, exit_code >> \in Endings
      BY DEF Endings
    <3> QED
      BY <2>1, <3>1 DEF Truths
  <2>3. w = [work EXCEPT !.truth = t]
    OBVIOUS
  <2> HIDE DEF t, w
  <2>4. /\ w \in [smoke : {TRUE}, run : Runs, settings : SmokeInputs,
                  place : Places, final : {None}, truth : Truths]
        /\ w.truth = t /\ w.run = work.run /\ w.settings = work.settings
        /\ w.place = work.place
    BY <2>1, <2>2, <2>3
  <2>5. w \in Works
    BY <2>4 DEF Works
  <2> QED
    BY <1>0, <2>2, <2>4, <2>5, NoneAssumption
<1> HIDE DEF w
<1>2. res.status = "success" => Checked(res, w)
  <2> SUFFICES ASSUME res.status = "success" PROVE Checked(res, w)
    OBVIOUS
  <2>1. exit_code = 0
    BY DEF workerResultFromSmoke
  <2>2. res = workerResultFromSmoke(w.run, w.settings, "ok", 0)
    BY <1>0, <1>1, <2>1
  <2>3. /\ res.ready_for_review /\ res.code = "ok"
        /\ res.commands = {<< smokeCommand, 0 >>}
    BY <2>2 DEF workerResultFromSmoke
  <2> HIDE DEF res
  <2> QED
    BY <1>1, <2>1, <2>2, <2>3 DEF Checked
<1>3. res.status # "success" => ~IsGood(w)
  <2> SUFFICES ASSUME res.status # "success" PROVE ~IsGood(w)
    OBVIOUS
  <2>1. exit_code = 1
    BY DEF workerResultFromSmoke
  <2>2. << smokeCommand, 1 >> # << smokeCommand, 0 >>
    OBVIOUS
  <2> QED
    BY <1>1, <2>1, <2>2 DEF IsGood
<1> HIDE DEF res
<1>4. TypeOK'
  <2>1. result' # None => /\ result'.status = "success"
                          /\ result'.final.validations # {}
                          /\ result'.commands \subseteq work'.truth.ran
    BY <1>0, <1>2, CheckedIsTyped
  <2> QED
    BY <1>0, <1>1, <2>1 DEF TypeOK, Stages
<1>5. TruthIsStream' /\ DispatchIsAuthorized'
  BY <1>0 DEF TruthIsStream, DispatchIsAuthorized
<1>6. Progress'
  BY <1>0, <1>1, <1>2 DEF Progress
<1>7. NoGoodWorkIsRefused'
  BY <1>0, <1>3 DEF NoGoodWorkIsRefused
<1>8. CitedWhenDone'
  BY <1>0 DEF CitedWhenDone
<1>9. ProofsStand'
  BY <1>0 DEF ProofsStand
<1> QED
  BY <1>4, <1>5, <1>6, <1>7, <1>8, <1>9

\* A process that never answers leaves no work that is good.
LEMMA ProcessThrowsHolds ==
  ASSUME IInv, ProcessThrows
  PROVE  IInv'
<1> USE DEF IInv
<1>0. /\ stage = "executing" /\ stage' = "threw"
      /\ UNCHANGED <<run, dispatch, stream, truth, work, result, proof,
                     proposal, ledger, madeFrom>>
  BY DEF ProcessThrows, runVars
<1>1. TypeOK' /\ TruthIsStream' /\ DispatchIsAuthorized'
  BY <1>0 DEF TypeOK, Stages, TruthIsStream, DispatchIsAuthorized
<1>2. Progress' /\ CitedWhenDone'
  BY <1>0 DEF Progress, CitedWhenDone
<1>3. NoGoodWorkIsRefused'
  <2>1. work.smoke /\ work.truth.ran = {}
    BY <1>0 DEF Progress, nothing
  <2>2. ~IsGood(work)
    BY <2>1 DEF IsGood
  <2> QED
    BY <1>0, <2>2 DEF NoGoodWorkIsRefused
<1>4. ProofsStand'
  BY <1>0 DEF ProofsStand
<1> QED
  BY <1>1, <1>2, <1>3, <1>4

\* The proof is made of work that was good, and of no other.
LEMMA CreateProofHolds ==
  ASSUME IInv, CreateProof
  PROVE  IInv'
<1> USE DEF IInv
<1> DEFINE id == proofIdOf[run]
           code == proofCode(id, run, result, ArtifactRefs(work),
                             Recorded(work), ForbiddenPaths)
           made == ProofOf(id, run, result, Recorded(work))
<1>0. /\ stage = "proving" /\ run \in Runs /\ work \in Works /\ work # None
      /\ work.run = run /\ Checked(result, work)
      /\ work.smoke => work.place = work.settings.evidence_place
      /\ stage' = IF code = "ok" THEN "proved" ELSE "threw"
      /\ proof' = IF code = "ok" THEN made ELSE None
      /\ UNCHANGED <<run, dispatch, stream, truth, work, result, ledger,
                     madeFrom, proposal>>
  BY DEF CreateProof, TypeOK, Progress
<1>1. code = "ok" =>
        /\ Stands(made, work) /\ made \in Proofs
        /\ verifyProof(made, [run |-> run, forbidden_paths |-> {}],
                       result.final.files) = {}
  BY <1>0, ProofStandsOnWork
<1>2. code # "ok" => ~IsGood(work)
  BY <1>0, GoodWorkIsProved
<1>3. made.proof_id = proofIdOf[run]
  BY DEF ProofOf
<1> HIDE DEF made, code
<1>4. TypeOK'
  BY <1>0, <1>1, <1>3 DEF TypeOK, Stages
<1>5. TruthIsStream' /\ DispatchIsAuthorized'
  BY <1>0 DEF TruthIsStream, DispatchIsAuthorized
<1>6. Progress'
  BY <1>0 DEF Progress
<1>7. NoGoodWorkIsRefused'
  BY <1>0, <1>2 DEF NoGoodWorkIsRefused
<1>8. CitedWhenDone'
  BY <1>0 DEF CitedWhenDone
<1>9. ProofsStand'
  <2>1. code = "ok" => proof' # None
    BY <1>0, <1>1, NoneAssumption
  <2>2. stage' \in {"proved", "recorded"} =>
          proof' # None /\ Stands(proof', work')
    BY <1>0, <1>1, <2>1
  <2>3. stage' = "proved" =>
          verifyProof(proof', [run |-> run', forbidden_paths |-> {}],
                      result'.final.files) = {}
    BY <1>0, <1>1
  <2>4. \A p \in ProofIds : ledger'[p] # None => Stands(ledger'[p], madeFrom'[p])
    BY <1>0 DEF ProofsStand
  <2> QED
    BY <1>0, <2>2, <2>3, <2>4 DEF ProofsStand
<1> QED
  BY <1>4, <1>5, <1>6, <1>7, <1>8, <1>9

\* The ledger verifies the proof again and finds nothing; the entry it may
\* replace is of the same id.
LEMMA RecordProofHolds ==
  ASSUME IInv, RecordProof
  PROVE  IInv'
<1> USE DEF IInv
<1>0. /\ stage = "proved" /\ run \in Runs /\ work \in Works /\ work # None
      /\ proof \in Proofs /\ proof # None /\ Stands(proof, work)
      /\ proof.proof_id = proofIdOf[run] /\ proof.proof_id \in ProofIds
      /\ ledger \in [ProofIds -> Proofs \cup {None}]
      /\ madeFrom \in [ProofIds -> Works \cup {None}]
      /\ verifyProof(proof, [run |-> run, forbidden_paths |-> {}],
                     result.final.files) = {}
  BY PipelineAssumption DEF RecordProof, TypeOK, Progress, ProofsStand
<1>1. /\ stage' = "recorded" /\ result' = None
      /\ ledger' = [ledger EXCEPT ![proof.proof_id] = proof]
      /\ madeFrom' = [madeFrom EXCEPT ![proof.proof_id] = work]
      /\ UNCHANGED <<run, dispatch, stream, truth, work, proof, proposal>>
  BY <1>0 DEF RecordProof
<1>2. /\ ledger' \in [ProofIds -> Proofs \cup {None}]
      /\ madeFrom' \in [ProofIds -> Works \cup {None}]
      /\ ledger'[proof.proof_id] = proof /\ madeFrom'[proof.proof_id] = work
      /\ \A p \in ProofIds \ {proof.proof_id} :
           ledger'[p] = ledger[p] /\ madeFrom'[p] = madeFrom[p]
  BY <1>0, <1>1
<1>3. TypeOK'
  <2>1. \A p \in ProofIds : /\ ledger'[p] # None => ledger'[p].proof_id = p
                            /\ ledger'[p] = None <=> madeFrom'[p] = None
    BY <1>0, <1>2 DEF TypeOK
  <2> QED
    BY <1>1, <1>2, <2>1 DEF TypeOK, Stages
<1>4. TruthIsStream' /\ DispatchIsAuthorized'
  BY <1>1 DEF TruthIsStream, DispatchIsAuthorized
<1>5. Progress' /\ NoGoodWorkIsRefused' /\ CitedWhenDone'
  BY <1>0, <1>1 DEF Progress, NoGoodWorkIsRefused, CitedWhenDone
<1>6. ProofsStand'
  <2>1. \A p \in ProofIds : ledger'[p] # None => Stands(ledger'[p], madeFrom'[p])
    BY <1>0, <1>2 DEF ProofsStand
  <2> QED
    BY <1>0, <1>1, <1>2, <2>1 DEF ProofsStand
<1> QED
  BY <1>3, <1>4, <1>5, <1>6

\* A proposal that is made cites evidence of the proof it was made with.
LEMMA CuratorCites ==
  ASSUME NEW p, NEW verified, NEW lesson,
         memoryAnswer(p, verified, lesson) = "ok"
  PROVE  lesson.evidence_ref \in proofEvidenceRefs(p)
<1> DEFINE given == lesson # None
           a == \/ verifyProof(p, [run |-> None, forbidden_paths |-> {}], {})
                     # {}
                \/ p.proof_id \notin verified
           b == ~given \/ ~lesson.reusable
           c == given /\ lesson.apply_live
           d == given /\ ~lesson.complete
           e == given /\ lesson.evidence_ref \notin proofEvidenceRefs(p)
           checks == [unverified_proof |-> a, no_update |-> b,
             automatic_memory_write_denied |-> c, invalid_lesson |-> d,
             unbound_evidence_ref |-> e]
<1>1. FirstOf(memoryCodes, Failing(checks)) = "ok"
  BY DEF memoryAnswer
<1>2. /\ Failing(checks) = {} <=> ~(a \/ b \/ c \/ d \/ e)
      /\ Failing(checks) \subseteq
           {"unverified_proof", "no_update", "automatic_memory_write_denied",
            "invalid_lesson", "unbound_evidence_ref"}
  <2> HIDE DEF a, b, c, d, e
  <2> QED
    BY DEF Failing
<1>3. Failing(checks) = {}
  <2>1. /\ DOMAIN memoryCodes = 1..5
        /\ memoryCodes[1] = "unverified_proof"
        /\ memoryCodes[2] = "no_update"
        /\ memoryCodes[3] = "automatic_memory_write_denied"
        /\ memoryCodes[4] = "invalid_lesson"
        /\ memoryCodes[5] = "unbound_evidence_ref"
    BY DEF memoryCodes
  <2> DEFINE codes == Failing(checks)
  <2> HIDE DEF checks
  <2>2. /\ DOMAIN memoryCodes \subseteq Nat
        /\ \A i \in DOMAIN memoryCodes : memoryCodes[i] # "ok"
    BY <2>1
  <2>3. \A code \in codes :
          \E i \in DOMAIN memoryCodes : memoryCodes[i] = code
    BY <1>2, <2>1
  <2> QED
    BY <1>1, <2>2, <2>3, FirstOfIsOk
<1> QED
  BY <1>2, <1>3

\* The run completes; what it proposes cites what is in the ledger.
LEMMA ProposeHolds ==
  ASSUME IInv, NEW lesson \in Lessons, Propose(lesson)
  PROVE  IInv'
<1> USE DEF IInv
<1> DEFINE answer == memoryAnswer(proof, {proof.proof_id}, lesson)
<1>0. /\ stage = "recorded" /\ stage' = "done" /\ proof' = None
      /\ run \in Runs /\ work \in Works /\ work # None /\ work.run = run
      /\ proposal' = IF answer = "ok"
                     THEN [proof_id |-> proof.proof_id,
                           evidence_ref |-> lesson.evidence_ref]
                     ELSE None
      /\ UNCHANGED <<run, dispatch, stream, truth, work, result, ledger,
                     madeFrom>>
  BY DEF Propose, TypeOK, Progress
<1>1. /\ Stands(proof, work) /\ madeFrom[proof.proof_id] = work
  BY <1>0 DEF ProofsStand
<1>2. answer = "ok" => lesson.evidence_ref \in Recorded(work)
  <2>1. answer = "ok" => lesson.evidence_ref \in proofEvidenceRefs(proof)
    BY CuratorCites
  <2>2. proofEvidenceRefs(proof) = Recorded(work)
    BY <1>1 DEF Stands, proofEvidenceRefs
  <2> QED
    BY <2>1, <2>2
<1> HIDE DEF answer
<1>3. TypeOK'
  BY <1>0 DEF TypeOK, Stages
<1>4. TruthIsStream' /\ DispatchIsAuthorized'
  BY <1>0 DEF TruthIsStream, DispatchIsAuthorized
<1>5. Progress' /\ NoGoodWorkIsRefused'
  BY <1>0 DEF Progress, NoGoodWorkIsRefused
<1>6. CitedWhenDone'
  <2>1. CASE answer = "ok"
    <3>1. /\ proposal'.proof_id = proof.proof_id
          /\ proposal'.evidence_ref = lesson.evidence_ref
      BY <1>0, <2>1
    <3>2. IsGood(work)
      BY <1>1 DEF Stands
    <3>3. ProposalCitesEvidence'
      BY <1>0, <1>1, <1>2, <2>1, <3>1, <3>2 DEF ProposalCitesEvidence
    <3> QED
      BY <1>0, <3>3 DEF CitedWhenDone
  <2>2. CASE answer # "ok"
    BY <1>0, <2>2 DEF CitedWhenDone
  <2> QED
    BY <2>1, <2>2
<1>7. ProofsStand'
  BY <1>0 DEF ProofsStand
<1> QED
  BY <1>3, <1>4, <1>5, <1>6, <1>7

\* The invariants hold in every state.
LEMMA AlwaysIInv == Spec => []IInv
<1>1. Init => IInv
  BY InitHolds
<1>2. IInv /\ [Next]_vars => IInv'
  <2> SUFFICES ASSUME IInv, [Next]_vars PROVE IInv'
    OBVIOUS
  <2>1. ASSUME NEW r \in Runs, Dispatch(r) PROVE IInv'
    BY <2>1, DispatchHolds
  <2>2. CASE StartWorker
    BY <2>2, StartHolds
  <2>3. ASSUME NEW line \in Lines, Emit(line) PROVE IInv'
    BY <2>3, EmitHolds
  <2>4. ASSUME NEW final \in FinalOutputs, WorkerReturns(final) PROVE IInv'
    BY <2>4, WorkerReturnsHolds
  <2>5. ASSUME NEW smoke \in SmokeInputs, LaunchSmoke(smoke) PROVE IInv'
    BY <2>5, LaunchHolds
  <2>6. ASSUME NEW exit_code \in {0, 1}, ProcessReturns(exit_code) PROVE IInv'
    BY <2>6, ProcessReturnsHolds
  <2>7. CASE ProcessThrows
    BY <2>7, ProcessThrowsHolds
  <2>8. CASE CreateProof
    BY <2>8, CreateProofHolds
  <2>9. CASE RecordProof
    BY <2>9, RecordProofHolds
  <2>10. ASSUME NEW lesson \in Lessons, Propose(lesson) PROVE IInv'
    BY <2>10, ProposeHolds
  <2>11. CASE UNCHANGED vars
    <3>1. UNCHANGED <<stage, run, dispatch, stream, truth, work, result, proof,
                      proposal, ledger, madeFrom>>
      BY <2>11 DEF vars, runVars
    <3>2. TypeOK' /\ TruthIsStream' /\ DispatchIsAuthorized'
      BY <3>1 DEF IInv, TypeOK, TruthIsStream, DispatchIsAuthorized
    <3>3. Progress' /\ NoGoodWorkIsRefused'
      BY <3>1 DEF IInv, Progress, NoGoodWorkIsRefused
    <3>4. ProofsStand' /\ CitedWhenDone'
      BY <3>1 DEF IInv, ProofsStand, CitedWhenDone, ProposalCitesEvidence
    <3> QED
      BY <3>2, <3>3, <3>4 DEF IInv
  <2> QED
    BY <2>1, <2>2, <2>3, <2>4, <2>5, <2>6, <2>7, <2>8, <2>9, <2>10, <2>11
    DEF Next
<1> QED
  BY <1>1, <1>2, PTL DEF Spec

-----------------------------------------------------------------------------
(***************************************************************************)
(* Theorems.                                                               *)
(***************************************************************************)

\* The orchestrator's locals and the ledger are what they should be, and an
\* entry is stored under its own id.
THEOREM PipelineTypeCorrect == Spec => []TypeOK
BY AlwaysIInv, PTL DEF IInv

\* Whatever the registry, the policy and the worktree manager hold, a work
\* cell is made only where routing, policy and cell all agree.
THEOREM CellsAreAuthorized == Spec => []DispatchIsAuthorized
BY AlwaysIInv, PTL DEF IInv

\* Whatever workers write and claim, each entry of the ledger is the proof of
\* one run whose work was good.
THEOREM LedgerHoldsGoodWork == Spec => []LedgerIsBacked
<1>1. IInv => LedgerIsBacked
  <2> SUFFICES ASSUME IInv, NEW p \in ProofIds, ledger[p] # None
               PROVE  LET w == madeFrom[p]
                      IN  /\ IsGood(w)
                          /\ ledger[p].run = w.run
                          /\ proofIdOf[w.run] = p
                          /\ ~w.smoke =>
                               ledger[p].validations = w.final.validations
                          /\ LogRefs(ledger[p].validations)
                               \subseteq ledger[p].artifacts
    BY DEF LedgerIsBacked
  <2>1. Stands(ledger[p], madeFrom[p]) /\ ledger[p].proof_id = p
    BY DEF IInv, TypeOK, ProofsStand
  <2> QED
    BY <2>1 DEF Stands
<1> QED
  BY <1>1, AlwaysIInv, PTL

\* The checks of runner, proof builder and ledger together turn away no run
\* whose work was good.
THEOREM GoodWorkIsNotRefused == Spec => []NoGoodWorkIsRefused
BY AlwaysIInv, PTL DEF IInv

\* A memory proposal cites a recorded artifact of a proof of good work that
\* the ledger holds.
THEOREM ProposalsCiteEvidence == Spec => []ProposalCitesEvidence
<1>1. IInv => ProposalCitesEvidence
  BY DEF IInv, CitedWhenDone, ProposalCitesEvidence
<1> QED
  BY <1>1, AlwaysIInv, PTL
=============================================================================
