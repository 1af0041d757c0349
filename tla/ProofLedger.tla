---------------------------- MODULE ProofLedger ----------------------------
(***************************************************************************)
(* packages/proof-ledger: how a proof is made from a worker's result, when *)
(* it counts as verified, and how the ledger takes it in; and              *)
(* createMemoryProposal of the memory curator, which cites a proof.        *)
(*                                                                         *)
(* A reference is the place it points to and a name; the places are        *)
(* "artifact" (a URI), "plain" (a path that is no URI) and "traversal" (a  *)
(* URI with .. in it).  Task, run and trace id of a proof go together and  *)
(* are one value, the run.  Hashes and log contents are left out: the      *)
(* artifact recorder hashes all it records, and no caller passes logs.     *)
(***************************************************************************)
EXTENDS WorkerEvidence

HasTraversal(ref) == ref[1] = "traversal"
IsUri(ref)        == ref[1] # "plain"

LogRefs(validations) == {v.log_ref : v \in validations} \ {None}

-----------------------------------------------------------------------------
\* proof-ledger-entry.schema.json
IsLedgerEntry(proof) ==
  /\ proof.artifacts # {} /\ \A uri \in proof.artifacts : IsUri(uri)
  /\ proof.validations # {}
  /\ \A ref \in LogRefs(proof.validations) : IsUri(ref)
  /\ proof.rollback_notes

\* The errors in the order verifyProof looks for them, but that one loop over
\* the validations finds both a missing log and a traversal in a log
\* reference; the name of the first error matters to no property.
verifyCodes ==
  << "schema_invalid", "mismatched_run_id", "missing_artifacts",
     "path_traversal_artifact_ref", "missing_validation",
     "missing_passing_validation", "missing_validation_log_ref",
     "missing_risk_notes", "missing_rollback_notes", "forbidden_path_change" >>

\* verifyProof: `expected` has the run, or None, and the forbidden paths.
\* One validation has to have passed with exit code 0; each needs a log.
verifyProof(proof, expected, changed_files) ==
  Failing(
    [schema_invalid              |-> ~IsLedgerEntry(proof),
     mismatched_run_id           |-> /\ expected.run # None
                                     /\ proof.run # expected.run,
     missing_artifacts           |-> proof.artifacts = {},
     path_traversal_artifact_ref |->
       \E ref \in proof.artifacts \cup LogRefs(proof.validations) :
         HasTraversal(ref),
     missing_validation          |-> proof.validations = {},
     missing_passing_validation  |-> ~HasPassed(proof.validations),
     missing_validation_log_ref  |-> \E v \in proof.validations :
                                       v.log_ref = None,
     missing_risk_notes          |-> ~proof.risk_notes,
     missing_rollback_notes      |-> ~proof.rollback_notes,
     forbidden_path_change       |->
       \E path \in changed_files :
         matchesAnyPath(path, expected.forbidden_paths)])

-----------------------------------------------------------------------------
\* The worker's own two files, and what its validations refer to, have to be
\* among the recorded artifacts.
requiredRefs(result, refs) ==
  {refs.jsonl, refs.final_output} \cup LogRefs(result.final.validations)

\* proofArtifactBindingErrors
bindingErrors(artifacts, required) ==
  Failing(
    [path_traversal_artifact_ref |-> \E ref \in required : HasTraversal(ref),
     missing_worker_artifact_ref |-> ~(required \subseteq artifacts)])

\* The checks of createProofFromWorkerArtifacts on the worker's result
WorkerErrors(result, refs, run, forbidden) ==
  LET final == result.final
  IN  IF result.status # "success" \/ ~result.ready_for_review
                                   \/ result.code # "ok"
      THEN {"worker_not_successful"}
      ELSE IF final = None THEN {"missing_final_output"}
      ELSE Failing(
        [mismatched_worker_identity  |-> final.identity # run,
         missing_validation          |-> final.validations = {},
         missing_worker_artifact_ref |-> refs.final_output = None,
         missing_risk_notes          |-> ~final.risk_notes,
         missing_rollback_notes      |-> ~final.rollback_notes,
         forbidden_path_change       |-> \E path \in final.files :
                                           matchesAnyPath(path, forbidden),
         unbacked_validation         |->
           IsUnbacked(final.validations, result.commands)])

workerErrorCodes ==
  << "worker_not_successful", "missing_final_output",
     "mismatched_worker_identity", "missing_validation",
     "missing_worker_artifact_ref", "missing_risk_notes",
     "missing_rollback_notes", "forbidden_path_change",
     "unbacked_validation" >>

\* The proof that is made of a result
ProofOf(proof_id, run, result, artifacts) ==
  [proof_id |-> proof_id, run |-> run, artifacts |-> artifacts,
   validations |-> result.final.validations,
   risk_notes |-> result.final.risk_notes,
   rollback_notes |-> result.final.rollback_notes]

\* createProofFromWorkerArtifacts: "ok", or the code it fails with. Checks of
\* the result come first, then those of the artifacts, then verifyProof's.
proofCode(proof_id, run, result, refs, artifacts, forbidden) ==
  LET worker == WorkerErrors(result, refs, run, forbidden)
  IN  IF worker # {} THEN FirstOf(workerErrorCodes, worker)
      ELSE LET binding == bindingErrors(artifacts, requiredRefs(result, refs))
               errors  == verifyProof(
                            ProofOf(proof_id, run, result, artifacts),
                            [run |-> run, forbidden_paths |-> forbidden],
                            result.final.files)
           IN  FirstOf(verifyCodes \o << "missing_worker_artifact_ref" >>,
                       IF binding # {} THEN binding ELSE errors)

-----------------------------------------------------------------------------
\* createMemoryProposal. A lesson is None or a record; `complete` says that
\* scope, statement, reference, confidence and target are all given.
memoryCodes ==
  << "unverified_proof", "no_update", "automatic_memory_write_denied",
     "invalid_lesson", "unbound_evidence_ref" >>

\* proofEvidenceRefs
proofEvidenceRefs(proof) == proof.artifacts \cup LogRefs(proof.validations)

\* Mutant: the evidence a lesson cites is not looked up in the proof.
memoryAnswerUnbound(proof, verified, lesson) ==
  LET given == lesson # None
  IN  FirstOf(memoryCodes, Failing(
        [unverified_proof |->
           \/ verifyProof(proof, [run |-> None, forbidden_paths |-> {}], {})
                # {}
           \/ proof.proof_id \notin verified,
         no_update |-> ~given \/ ~lesson.reusable,
         automatic_memory_write_denied |-> given /\ lesson.apply_live,
         invalid_lesson |-> given /\ ~lesson.complete,
         unbound_evidence_ref |-> FALSE]))

\* What it answers; "ok" is a proposal
memoryAnswer(proof, verified, lesson) ==
  LET given == lesson # None
  IN  FirstOf(memoryCodes, Failing(
        [unverified_proof |->
           \/ verifyProof(proof, [run |-> None, forbidden_paths |-> {}], {})
                # {}
           \/ proof.proof_id \notin verified,
         no_update |-> ~given \/ ~lesson.reusable,
         automatic_memory_write_denied |-> given /\ lesson.apply_live,
         invalid_lesson |-> given /\ ~lesson.complete,
         unbound_evidence_ref |->
           given /\ lesson.evidence_ref \notin proofEvidenceRefs(proof)]))
=============================================================================
