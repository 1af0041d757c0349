------------------------- MODULE MCOrchestratorRun -------------------------
(***************************************************************************)
(* Instances of OrchestratorRun for TLC: some runs share a snapshot path,  *)
(* some are for the same event, and some open pull requests on GitHub.     *)
(***************************************************************************)
EXTENDS OrchestratorRun, TLC

OnePath == [r \in Runs |-> "p1"]

\* r1 and r2 are attempts at one event; the ids of e2 sanitize like those of
\* e1, those of the other events do not.
EventOfRun ==
  "r1" :> "e1" @@ "r2" :> "e1" @@ "r3" :> "e2" @@ "r4" :> "e3"
Sanitized == "e1" :> "run_1" @@ "e2" :> "run_1" @@ "e3" :> "run_3"
McEventOf == [r \in Runs |-> EventOfRun[r]]
McSanitized == [e \in Events |-> Sanitized[e]]
=============================================================================
