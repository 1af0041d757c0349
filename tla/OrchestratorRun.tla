-------------------------- MODULE OrchestratorRun --------------------------
(***************************************************************************)
(* runRuntimeOrchestratorFromMatrixEvent and runRuntimeOrchestrator of     *)
(* apps/runtime-orchestrator: a run drives one task through its lifecycle, *)
(* asks for a pull request, and leaves a snapshot file.  Every run is a    *)
(* process of its own, with its own store, gate and artifact recorder;     *)
(* runs share GitHub and the files.  A process may be killed between any   *)
(* two steps, and what it leaves behind then is what a later run with the  *)
(* same snapshot path, or for the same event, finds.                       *)
(*                                                                         *)
(* A store holds the one task of its run, so the stores of all runs are    *)
(* one TaskStore whose task ids are the runs.  What a killed process had   *)
(* in memory stays in the variables, and no action reads it again.         *)
(* Routing, policy, work cell and evidence are in EvidencePipeline; here   *)
(* the places where they make a run throw are kept.                        *)
(***************************************************************************)
EXTENDS Naturals, Sequences, SequencesExt

CONSTANTS
  None,
  Runs,         \* calls, each for one event
  Events,       \* Matrix runtime events
  Rejected,     \* events validateAcceptedMatrixRuntimeEvent turns away
  eventOf,      \* input.runtimeEvent of each run
  RunIds,
  sanitized,    \* run_<suffix> made of an event's ids: not injective
  Paths,        \* snapshot paths
  snapshotPath, \* input.snapshotPath of each run
  GitHubRuns,   \* runs given a github_pr_adapter; the others use the fake one
  SingleWriter  \* TRUE: runs with one path follow one another

ASSUME RunAssumption ==
  /\ snapshotPath \in [Runs -> Paths]
  /\ eventOf \in [Runs -> Events]
  /\ sanitized \in [Events -> RunIds]
  /\ Rejected \subseteq Events
  /\ GitHubRuns \subseteq Runs
  /\ SingleWriter \in BOOLEAN
  /\ None \notin Runs

VARIABLES
  tasks, recordsByTask, commandResults, idempotency,  \* the runs' stores
  stage,        \* where each run is
  next,         \* the transition of Script each run makes next
  artifacts,    \* ids of the records of each run's artifact recorder
  granted,      \* runs whose gate holds the approval
  prs,          \* runs whose adapter lists a pull request
  remote,       \* GitHub: runs whose pull request exists
  file,         \* the inode at each snapshot path
  temp,         \* the inode at `${filePath}.tmp`
  content,      \* what an inode holds: a whole snapshot, or None
  fd,           \* the inode each run writes to
  read          \* read_snapshot of each run

storeVars == <<tasks, recordsByTask, commandResults, idempotency>>
prVars == <<granted, prs, remote>>
fileVars == <<file, temp, content, fd, read>>
vars == <<storeVars, stage, next, artifacts, prVars, fileVars>>

-----------------------------------------------------------------------------
(* The transitions of a run and the stages between them.                   *)

\* Mutant: the artifact reference is not handed on.
StepWithoutArtifact(from, to, trigger, actor, artifact, proof, approval) ==
  [from |-> from, to |-> to, trigger |-> trigger, actor |-> actor,
   artifact_ref |-> None, proof_ref |-> proof, approval_ref |-> approval]

\* The arguments of one call of transition()
Step(from, to, trigger, actor, artifact, proof, approval) ==
  [from |-> from, to |-> to, trigger |-> trigger, actor |-> actor,
   artifact_ref |-> artifact, proof_ref |-> proof, approval_ref |-> approval]

\* The calls of transition() of a run that succeeds, in order
Script ==
  << Step("created", "accepted", "task.accepted", "human", None, None, None),
     Step("accepted", "scoped", "task.scoped", "runtime", None, None, None),
     Step("scoped", "graph_compiled", "task.graph_compiled", "runtime",
          None, None, None),
     Step("graph_compiled", "capability_selected", "capability.selected",
          "runtime", None, None, None),
     Step("capability_selected", "work_cell_created", "work_cell.created",
          "runtime", None, None, None),
     Step("work_cell_created", "worker_dispatched", "worker.dispatched",
          "runtime", None, None, None),
     Step("worker_dispatched", "running", "worker.started", "worker",
          None, None, None),
     Step("running", "artifact_submitted", "artifact.submitted", "worker",
          "final_output", None, None),
     Step("artifact_submitted", "proof_submitted", "proof.submitted",
          "worker", "final_output", "proof", None),
     Step("proof_submitted", "verifying", "verification.started", "verifier",
          None, "proof", None),
     Step("verifying", "waiting_approval", "approval.requested", "runtime",
          None, "proof", None),
     Step("waiting_approval", "approved", "approval.granted", "human",
          None, "proof", "approval"),
     Step("approved", "pr_created", "github.pr.create_requested", "runtime",
          None, "proof", "approval"),
     Step("pr_created", "completed", "task.completed", "runtime",
          "pr", "proof", "approval") >>

\* The transition of a run whose worker does not succeed
StopStep(status) ==
  IF status = "blocked"
  THEN Step("running", "needs_human_input", "human_input.requested",
            "worker", None, None, None)
  ELSE Step("running", "worker_failed", "worker.failed", "worker",
            None, None, None)

\* transition(): command id and transition id are named after the edge
CommandOf(r, step) ==
  [command_id |-> <<r, step.from, step.to>>, task_id |-> r,
   expected_state |-> step.from,
   transition |->
     [transition_id |-> <<step.from, step.to>>, task_id |-> r,
      from |-> step.from, to |-> step.to, trigger |-> step.trigger,
      actor |-> step.actor, audit |-> step.to,
      artifact_ref |-> step.artifact_ref, proof_ref |-> step.proof_ref,
      approval_ref |-> step.approval_ref]]

Steps == Range(Script) \cup {StopStep(s) : s \in {"blocked", "failed"}}
RunCommands == {CommandOf(r, step) : r \in Runs, step \in Steps}

\* The stores of all runs
Store == INSTANCE TaskStore WITH
  TaskIds <- Runs, Commands <- RunCommands, Reput <- {},
  CommandIds <- {cmd.command_id : cmd \in RunCommands},
  TransitionIds <- {<<step.from, step.to>> : step \in Steps},
  Refs <- {"final_output", "pr", "proof", "approval"},
  StartStates <- {"created"}

\* RuntimeStoreSnapshot, as far as it is modelled
RuntimeStoreSnapshot ==
  [run : Runs, task : Store!Snapshot, transitions : Seq(Store!Transition),
   proof_refs : {{"proof"}}, approval_refs : {{"approval"}},
   artifact_refs : SUBSET {"jsonl", "final_output", "log", "pr"}]

\* The literals of the script are strings: nothing is assumed of a constant
\* here, but the provers do not know it of a literal.
ASSUME LiteralAssumption ==
  \A step \in Steps : {step.from, step.to, step.trigger} \subseteq STRING

\* An absent value is none of the values it is absent from.
ASSUME NoneAssumption ==
  /\ \A step \in Steps : None # <<step.from, step.to>>
  /\ \A cmd \in RunCommands : None # cmd.command_id
  /\ None \notin {"final_output", "pr", "proof", "approval"}
  /\ None \notin Store!TransitionErrors
  /\ None \notin Store!transitionContracts
  /\ None \notin Store!Transition /\ None \notin Store!Snapshot
  /\ None \notin Store!TransitionRecord /\ None \notin Store!AppendResult
  /\ None \notin Store!IdempotencyRecord
  /\ None \notin RuntimeStoreSnapshot

\* What the run does after a transition to this state other than the next
\* transition: await the worker, append the proof to the ledger, project the
\* approval, call the adapter again, export.
StageAfter(state) ==
  CASE state = "running" -> "working"
    [] state = "verifying" -> "recording"
    [] state = "waiting_approval" -> "asking"
    [] state = "approved" -> "asking_again"
    [] state = "completed" -> "exporting"
    [] OTHER -> "stepping"

Ended == {"rejected", "stopped", "threw", "refused", "crashed", "done"}
Live(r) == stage[r] \notin Ended \cup {"idle"}

Init ==
  /\ Store!Init
  /\ stage = [r \in Runs |-> "idle"]
  /\ next = [r \in Runs |-> 1]
  /\ artifacts = [r \in Runs |-> {}]
  /\ granted = {} /\ prs = {} /\ remote = {}
  /\ file = [p \in Paths |-> None]
  /\ temp = [p \in Paths |-> None]
  /\ content = [r \in Runs |-> None]
  /\ fd = [r \in Runs |-> None]
  /\ read = [r \in Runs |-> None]

Move(r, from, to) == stage[r] = from /\ stage' = [stage EXCEPT ![r] = to]

-----------------------------------------------------------------------------
(* The run itself.                                                         *)

\* Mutant: each attempt at an event gets a run id of its own.
runIdOfAttempt(r) == << sanitized[eventOf[r]], r >>

\* runtimeContextFromMatrixEvent: every run for an event derives the same ids.
contextRunId(r) == sanitized[eventOf[r]]

\* runtimeOwnedPullRequestTarget: both refs are named after the run id. The
\* repository is the same for all runs here; pull requests in two of them
\* would never meet.
PullRequestTarget(r) ==
  [ref |-> << "head", contextRunId(r) >>, base |-> << "base", contextRunId(r) >>]

\* The event is not an accepted intent, or its actor not the sender: the run
\* ends before it has a store.
RejectEvent(r) ==
  /\ eventOf[r] \in Rejected
  /\ Move(r, "idle", "rejected")
  /\ UNCHANGED <<storeVars, next, artifacts, prVars, fileVars>>

Start(r) ==
  /\ eventOf[r] \notin Rejected
  /\ SingleWriter =>
       \A q \in Runs : snapshotPath[q] = snapshotPath[r] => ~Live(q)
  /\ Move(r, "idle", "stepping")
  /\ Store!PutTaskSnapshot(r, "created")
  /\ UNCHANGED <<next, artifacts, prVars, fileVars>>

\* One call of transition(): it throws unless the store applied the command.
MakeTransition(r) ==
  LET cmd == CommandOf(r, Script[next[r]])
  IN  /\ stage[r] = "stepping"
      /\ Store!AppendTransition(cmd)
      /\ stage' = [stage EXCEPT ![r] =
           IF commandResults'[cmd.command_id].ok
           THEN StageAfter(cmd.transition.to) ELSE "refused"]
      /\ next' = [next EXCEPT ![r] = @ + 1]
      /\ UNCHANGED <<artifacts, prVars, fileVars>>

\* The worker (external) succeeded: its artifacts are recorded.
WorkerSucceeds(r) ==
  /\ Move(r, "working", "stepping")
  /\ artifacts' = [artifacts EXCEPT ![r] = {"jsonl", "final_output", "log"}]
  /\ UNCHANGED <<storeVars, next, prVars, fileVars>>

\* The worker failed or is blocked: the run returns and writes nothing.
WorkerStops(r, status) ==
  LET cmd == CommandOf(r, StopStep(status))
  IN  /\ Store!AppendTransition(cmd)
      /\ Move(r, "working", IF commandResults'[cmd.command_id].ok
                            THEN "stopped" ELSE "refused")
      /\ UNCHANGED <<next, artifacts, prVars, fileVars>>

\* ledger.append and verifyProof
RecordProof(r) ==
  /\ Move(r, "recording", "stepping")
  /\ UNCHANGED <<storeVars, next, artifacts, prVars, fileVars>>

\* The projection is made, the adapter is called before anything is granted
\* and refuses, then the intake's approval is granted.
AskAndGrant(r) ==
  /\ r \notin granted
  /\ Move(r, "asking", "stepping")
  /\ granted' = granted \cup {r}
  /\ UNCHANGED <<storeVars, next, artifacts, prs, remote, fileVars>>

\* Mutant: the adapter's promise is not awaited.
AskAgainUnawaited(r) ==
  /\ r \in granted
  /\ Move(r, "asking_again", "stepping")
  /\ prs' = prs \cup {r}
  /\ artifacts' = [artifacts EXCEPT ![r] = @ \cup {"pr"}]
  /\ UNCHANGED <<storeVars, next, granted, remote, fileVars>>

\* createPullRequest of the fake adapter, or the start of the runner of the
\* runtime-owned one.
AskAgain(r) ==
  /\ r \in granted
  /\ Move(r, "asking_again", IF r \in GitHubRuns THEN "running_gh"
                             ELSE "stepping")
  /\ prs' = IF r \in GitHubRuns THEN prs ELSE prs \cup {r}
  /\ artifacts' = [artifacts EXCEPT ![r] =
       IF r \in GitHubRuns THEN @ ELSE @ \cup {"pr"}]
  /\ UNCHANGED <<storeVars, next, granted, remote, fileVars>>

\* External: the pull request exists from now on. GitHub takes one open pull
\* request of a head and base; gh fails on another.
GhCreates(r) ==
  /\ stage[r] = "running_gh"
  /\ \A q \in remote : PullRequestTarget(q) # PullRequestTarget(r)
  /\ remote' = remote \cup {r}
  /\ UNCHANGED <<storeVars, stage, next, artifacts, granted, prs, fileVars>>

\* The runner reports a pull request of this target.
GhReports(r) ==
  /\ r \in remote
  /\ Move(r, "running_gh", "stepping")
  /\ prs' = prs \cup {r}
  /\ artifacts' = [artifacts EXCEPT ![r] = @ \cup {"pr"}]
  /\ UNCHANGED <<storeVars, next, granted, remote, fileVars>>

\* Everything that ends a run by an exception outside the file functions: the
\* worker's or the runner's promise rejects, the ledger, the projection, the
\* adapter, the runner's result, the export or its validation; and between two
\* transitions the route, the work cell and the proof, where these come next.
Throw(r) ==
  /\ \/ stage[r] \in {"working", "recording", "asking", "asking_again",
                      "running_gh", "exporting"}
     \/ stage[r] = "stepping" /\ next[r] \in {1, 5, 8}
  /\ stage' = [stage EXCEPT ![r] = "threw"]
  /\ UNCHANGED <<storeVars, next, artifacts, prVars, fileVars>>

Crash(r) ==
  /\ Live(r)
  /\ stage' = [stage EXCEPT ![r] = "crashed"]
  /\ UNCHANGED <<storeVars, next, artifacts, prVars, fileVars>>

-----------------------------------------------------------------------------
(***************************************************************************)
(* The snapshot file: written beside the path, renamed to it, read back.   *)
(* A path names an inode; a writer keeps writing to the inode it opened,   *)
(* whatever became of its name.  An inode is named after the run that      *)
(* created it.  Content that is not one whole snapshot is None.            *)
(***************************************************************************)
Path(r) == snapshotPath[r]

\* Mutant: only the artifacts the proof names are exported.
ExportProofArtifacts(r) ==
  [run |-> r, task |-> tasks[r],
   transitions |-> [i \in DOMAIN recordsByTask[r] |->
                      recordsByTask[r][i].transition],
   proof_refs |-> {"proof"}, approval_refs |-> {"approval"},
   artifact_refs |-> artifacts[r] \ {"pr"}]

\* exportRuntimeStoreSnapshot
Export(r) ==
  [run |-> r, task |-> tasks[r],
   transitions |-> [i \in DOMAIN recordsByTask[r] |->
                      recordsByTask[r][i].transition],
   proof_refs |-> {"proof"}, approval_refs |-> {"approval"},
   artifact_refs |-> artifacts[r]]

\* Mutant: the snapshot is written to its path directly.
OpenInPlace(r) ==
  LET inode == IF file[Path(r)] = None THEN r ELSE file[Path(r)]
  IN  /\ Move(r, "exporting", "writing")
      /\ file' = [file EXCEPT ![Path(r)] = inode]
      /\ temp' = [temp EXCEPT ![Path(r)] = inode]
      /\ content' = [content EXCEPT ![inode] = None]
      /\ fd' = [fd EXCEPT ![r] = inode]
      /\ UNCHANGED <<storeVars, next, artifacts, prVars, read>>

\* writeFile opens the temporary file: what is there is truncated.
OpenTemp(r) ==
  LET inode == IF temp[Path(r)] = None THEN r ELSE temp[Path(r)]
  IN  /\ Move(r, "exporting", "writing")
      /\ temp' = [temp EXCEPT ![Path(r)] = inode]
      /\ content' = [content EXCEPT ![inode] = None]
      /\ fd' = [fd EXCEPT ![r] = inode]
      /\ UNCHANGED <<storeVars, next, artifacts, prVars, file, read>>

\* Another run writes to the same inode, or has written to it.
IsShared(r) ==
  \/ content[fd[r]] # None
  \/ \E q \in Runs \ {r} : stage[q] = "writing" /\ fd[q] = fd[r]

WriteTemp(r) ==
  /\ Move(r, "writing", "renaming")
  /\ \E bytes \in {Export(r)} \cup (IF IsShared(r) THEN {None} ELSE {}) :
       content' = [content EXCEPT ![fd[r]] = bytes]
  /\ UNCHANGED <<storeVars, next, artifacts, prVars, file, temp, fd, read>>

Rename(r) ==
  /\ temp[Path(r)] # None
  /\ Move(r, "renaming", "reading")
  /\ file' = [file EXCEPT ![Path(r)] = temp[Path(r)]]
  /\ temp' = [temp EXCEPT ![Path(r)] = None]
  /\ UNCHANGED <<storeVars, next, artifacts, prVars, content, fd, read>>

\* Mutant: the error is swallowed after the temporary file is removed.
FailToWriteSilently(r) ==
  /\ stage[r] \in {"writing", "renaming"}
  /\ stage' = [stage EXCEPT ![r] = "reading"]
  /\ \E left \in {None, temp[Path(r)]} :
       temp' = [temp EXCEPT ![Path(r)] = left]
  /\ UNCHANGED <<storeVars, next, artifacts, prVars, file, content, fd, read>>

\* writeFile or rename fails, the latter also because the name is gone; rm
\* removes the temporary file, unless that fails, too; the error is rethrown.
FailToWrite(r) ==
  /\ stage[r] \in {"writing", "renaming"}
  /\ stage' = [stage EXCEPT ![r] = "threw"]
  /\ \E left \in {None, temp[Path(r)]} :
       temp' = [temp EXCEPT ![Path(r)] = left]
  /\ UNCHANGED <<storeVars, next, artifacts, prVars, file, content, fd, read>>

\* Mutant: what is read is returned unseen.
IsValidUnseen(bytes) == TRUE

\* JSON.parse and assertRuntimeStoreSnapshot; of bytes that are not one whole
\* snapshot it is assumed that one of the two fails.
IsValid(bytes) == bytes # None

ReadBack(r) ==
  LET bytes == IF file[Path(r)] = None THEN None ELSE content[file[Path(r)]]
  IN  /\ Move(r, "reading", IF IsValid(bytes) THEN "done" ELSE "threw")
      /\ read' = [read EXCEPT ![r] = IF IsValid(bytes) THEN bytes ELSE None]
      /\ UNCHANGED <<storeVars, next, artifacts, prVars, file, temp, content,
                     fd>>

ReadFails(r) ==
  /\ Move(r, "reading", "threw")
  /\ UNCHANGED <<storeVars, next, artifacts, prVars, fileVars>>

-----------------------------------------------------------------------------
Next ==
  \E r \in Runs :
    \/ RejectEvent(r)
    \/ Start(r)
    \/ MakeTransition(r)
    \/ WorkerSucceeds(r)
    \/ \E status \in {"blocked", "failed"} : WorkerStops(r, status)
    \/ RecordProof(r)
    \/ AskAndGrant(r)
    \/ AskAgain(r)
    \/ GhCreates(r)
    \/ GhReports(r)
    \/ OpenTemp(r)
    \/ WriteTemp(r)
    \/ Rename(r)
    \/ FailToWrite(r)
    \/ ReadBack(r)
    \/ ReadFails(r)
    \/ Throw(r)
    \/ Crash(r)

Spec == Init /\ [][Next]_vars

-----------------------------------------------------------------------------
(* Properties.                                                             *)

\* Type invariant of the runs and of the files they share.
TypeOK ==
  /\ Store!TypeOK
  /\ stage \in [Runs -> Ended \cup
       {"idle", "stepping", "working", "recording", "asking", "asking_again",
        "running_gh", "exporting", "writing", "renaming", "reading"}]
  /\ next \in [Runs -> 1..Len(Script) + 1]
  /\ artifacts \in
       [Runs -> SUBSET {"jsonl", "final_output", "log", "pr"}]
  /\ granted \subseteq Runs /\ prs \subseteq granted
  /\ remote \subseteq granted
  /\ {file, temp} \subseteq [Paths -> Runs \cup {None}]
  /\ fd \in [Runs -> Runs \cup {None}]
  /\ \A r \in Runs : {content[r], read[r]} \ {None} \subseteq
                       {Export(q) : q \in Runs}

\* The script of the orchestrator fits the contract table of the state
\* machine, references included: no run is ever stopped by its own store.
NoTransitionIsRefused == \A r \in Runs : stage[r] # "refused"

\* However often a run for an event crashes, throws or is repeated, the event
\* has at most one pull request, and a run that completes on GitHub is the one
\* that has it. The gates of the runs know nothing of each other.
OnePrPerEvent ==
  /\ \A r, q \in remote : r # q => eventOf[r] # eventOf[q]
  /\ \A r, q \in GitHubRuns :
       stage[r] = "done" /\ q # r /\ eventOf[q] = eventOf[r] =>
         r \in remote /\ q \notin remote /\ stage[q] # "done"

\* Whatever crashed before, what a reader finds at a snapshot path is one
\* whole snapshot of a run that got through all of its lifecycle, and GitHub
\* has the pull request that it records. It is never that of a run whose worker
\* stopped, although such a run returns the path, too (index.ts:418).
FileTellsTheTruth ==
  SingleWriter =>
  \A p \in Paths : file[p] # None =>
    LET bytes == content[file[p]]
    IN  /\ bytes # None
        /\ bytes.task.state = "completed" /\ stage[bytes.run] # "stopped"
        /\ Len(bytes.transitions) = Len(Script)
        /\ bytes.run \in GitHubRuns => bytes.run \in remote

\* Every reference of an exported task and of its transitions is to a record
\* of the same snapshot.
SnapshotIsClosed ==
  \A r \in Runs : content[r] # None =>
    LET bytes == content[r]
        Refs(field) == {bytes.transitions[i][field] :
                          i \in DOMAIN bytes.transitions} \ {None}
    IN  /\ bytes.task.artifact_refs \cup Refs("artifact_ref")
             \subseteq bytes.artifact_refs
        /\ bytes.task.proof_refs \cup Refs("proof_ref")
             \subseteq bytes.proof_refs
        /\ bytes.task.approval_refs \cup Refs("approval_ref")
             \subseteq bytes.approval_refs

\* A run that returns has read back its own snapshot, not what an earlier
\* run left at the path.
ReadsBackItsOwn ==
  SingleWriter =>
  \A r \in Runs : stage[r] = "done" => read[r] = Export(r)

\* Even among writers of one path that overtake one another, a run returns
\* only with a whole snapshot of a completed task in hand.
ReturnsWholeSnapshot ==
  \A r \in Runs : stage[r] = "done" =>
    read[r] # None /\ read[r].task.state = "completed"

\* A failed or killed write leaves the file at the path unchanged: its bytes
\* change only at the rename of a run that has written all of its snapshot.
\* (durable-snapshot-exporter.test.ts tries one failure of writeFile.)
FileChangesByRename ==
  [][SingleWriter =>
     \A p \in Paths :
       LET bytes(f, c) == IF f = None THEN None ELSE c[f]
       IN  bytes(file'[p], content') # bytes(file[p], content) =>
             \E r \in Runs : /\ Path(r) = p
                             /\ stage[r] = "renaming"
                             /\ bytes(file'[p], content') = Export(r)
    ]_vars
=============================================================================
