----------------------- MODULE OrchestratorRunProofs -----------------------
(***************************************************************************)
(* Theorems about OrchestratorRun for any runs, events, ids and paths, and *)
(* for crashes and exceptions anywhere.  First where a run can be in its   *)
(* script, which makes its store one of TaskStore; then that the store     *)
(* never refuses; then what the runs leave on GitHub and at the paths.     *)
(***************************************************************************)
EXTENDS OrchestratorRun, SequenceTheorems, TLAPS

\* The lemmas about the store, for the stores of the runs
StoreProofs == INSTANCE TaskStoreProofs WITH
  TaskIds <- Runs, Commands <- RunCommands, Reput <- {},
  CommandIds <- {cmd.command_id : cmd \in RunCommands},
  TransitionIds <- {<<step.from, step.to>> : step \in Steps},
  Refs <- {"final_output", "pr", "proof", "approval"},
  StartStates <- {"created"}

-----------------------------------------------------------------------------
(* The script, which is given in full in the code.                         *)

\* The fourteen calls walk down the happy path.
LEMMA ScriptWalksPath ==
  /\ DOMAIN Script = 1..14 /\ Len(Script) = 14
  /\ \A k \in 1..14 : /\ Script[k].from = Store!HappyPath[k]
                      /\ Script[k].to = Store!HappyPath[k + 1]
                      /\ Script[k] \in Steps
<1>1. DOMAIN Script = 1..14 /\ Len(Script) = 14
  BY DEF Script
<1>2. \A k \in 1..14 : /\ Script[k].from = Store!HappyPath[k]
                       /\ Script[k].to = Store!HappyPath[k + 1]
  BY DEF Script, Step, Store!HappyPath
<1>3. \A k \in 1..14 : Script[k] \in Steps
  BY <1>1 DEF Steps, Range
<1> QED
  BY <1>1, <1>2, <1>3

\* The happy path has no state twice.
LEMMA PathIsSimple ==
  ASSUME NEW i \in 1..15, NEW j \in 1..15,
         Store!HappyPath[i] = Store!HappyPath[j]
  PROVE  i = j
BY DEF Store!HappyPath

\* Every state of the happy path is one of the store's task states.
LEMMA PathStates ==
  ASSUME NEW k \in 1..15 PROVE Store!HappyPath[k] \in Store!TaskStates
<1>1. DOMAIN Store!HappyPath = 1..15
  BY DEF Store!HappyPath
<1> QED
  BY <1>1 DEF Store!TaskStates

\* Who makes the transitions, and the references they carry.
LEMMA ScriptTypes ==
  ASSUME NEW k \in 1..14
  PROVE  /\ Script[k].actor \in Store!Actors
         /\ Script[k].artifact_ref \in {"final_output", "pr", None}
         /\ Script[k].proof_ref \in {"proof", None}
         /\ Script[k].approval_ref \in {"approval", None}
BY DEF Script, Step, Store!Actors

\* What the run does after its k-th transition.
LEMMA ScriptStages ==
  ASSUME NEW k \in 1..14
  PROVE  StageAfter(Script[k].to) =
           IF k = 7 THEN "working" ELSE IF k = 10 THEN "recording"
           ELSE IF k = 11 THEN "asking" ELSE IF k = 12 THEN "asking_again"
           ELSE IF k = 14 THEN "exporting" ELSE "stepping"
BY ScriptWalksPath DEF StageAfter, Store!HappyPath

-----------------------------------------------------------------------------
(* Where a run is.                                                         *)

Stages ==
  Ended \cup {"idle", "stepping", "working", "recording", "asking",
              "asking_again", "running_gh", "exporting", "writing",
              "renaming", "reading"}

\* The number of the next transition goes with the stage: the script is left
\* for something else after certain transitions only.
Place(r) ==
  /\ stage[r] \in {"idle", "rejected"} => next[r] = 1
  /\ stage[r] = "stepping" => next[r] \in 1..14
  /\ stage[r] \in {"working", "stopped"} => next[r] = 8
  /\ stage[r] = "recording" => next[r] = 11
  /\ stage[r] = "asking" => next[r] = 12
  /\ stage[r] \in {"asking_again", "running_gh"} => next[r] = 13
  /\ stage[r] \in {"exporting", "writing", "renaming", "reading", "done"}
       => next[r] = 15

InPlace ==
  /\ stage \in [Runs -> Stages]
  /\ next \in [Runs -> 1..15]
  /\ \A r \in Runs : Place(r)

\* Every run starts at the first transition.
LEMMA InPlaceInit == Init => InPlace
BY DEF Init, InPlace, Place, Stages

\* A step of one run between two stages, of which the later one asks nothing
\* of `next` that the earlier one does not give.
LEMMA MoveKeepsPlace ==
  ASSUME InPlace, NEW r \in Runs, NEW to \in Stages,
         stage' = [stage EXCEPT ![r] = to], next' = next,
         /\ to \in {"idle", "rejected"} => next[r] = 1
         /\ to = "stepping" => next[r] \in 1..14
         /\ to \in {"working", "stopped"} => next[r] = 8
         /\ to = "recording" => next[r] = 11
         /\ to = "asking" => next[r] = 12
         /\ to \in {"asking_again", "running_gh"} => next[r] = 13
         /\ to \in {"exporting", "writing", "renaming", "reading", "done"}
              => next[r] = 15
  PROVE  InPlace'
<1>1. stage' \in [Runs -> Stages] /\ next' \in [Runs -> 1..15]
  BY DEF InPlace
<1>2. ASSUME NEW q \in Runs PROVE Place(q)'
  <2>1. CASE q = r
    <3>1. stage'[q] = to /\ next'[q] = next[r]
      BY <2>1 DEF InPlace
    <3> QED
      BY <3>1 DEF Place
  <2>2. CASE q # r
    BY <2>2 DEF InPlace, Place
  <2> QED
    BY <2>1, <2>2
<1> QED
  BY <1>1, <1>2 DEF InPlace

\* No run leaves its place in the script.
LEMMA InPlaceStep == InPlace /\ [Next]_vars => InPlace'
<1> SUFFICES ASSUME InPlace, [Next]_vars PROVE InPlace'
  OBVIOUS
<1>1. CASE UNCHANGED <<stage, next>>
  BY <1>1 DEF InPlace, Place
<1>2. ASSUME NEW r \in Runs, MakeTransition(r)
      PROVE  InPlace'
  <2> DEFINE k == next[r]
             to == stage'[r]
  <2>1. k \in 1..14
    BY <1>2 DEF MakeTransition, InPlace, Place
  <2>2. /\ next' = [next EXCEPT ![r] = k + 1]
        /\ to \in {StageAfter(Script[k].to), "refused"}
        /\ stage' = [stage EXCEPT ![r] = to]
    BY <1>2 DEF MakeTransition, CommandOf, InPlace
  <2>3. /\ next'[r] = k + 1
        /\ \A q \in Runs \ {r} : stage'[q] = stage[q] /\ next'[q] = next[q]
    BY <2>2 DEF InPlace
  <2> HIDE DEF k, to
  <2>4. stage' \in [Runs -> Stages] /\ next' \in [Runs -> 1..15]
    BY <2>1, <2>2, ScriptStages DEF InPlace, Stages, Ended
  <2>5. Place(r)'
    BY <2>1, <2>2, <2>3, ScriptStages DEF Place, to
  <2>6. \A q \in Runs \ {r} : Place(q)'
    BY <2>3 DEF Place, InPlace
  <2> QED
    BY <2>4, <2>5, <2>6 DEF InPlace
<1>3. ASSUME NEW r \in Runs,
             \/ RejectEvent(r) \/ Start(r) \/ WorkerSucceeds(r)
             \/ RecordProof(r) \/ AskAndGrant(r) \/ AskAgain(r)
             \/ GhReports(r) \/ OpenTemp(r) \/ WriteTemp(r) \/ Rename(r)
      PROVE  InPlace'
  <2>1. CASE RejectEvent(r) \/ Start(r)
    BY <2>1, MoveKeepsPlace
       DEF RejectEvent, Start, Move, InPlace, Place, Stages, Ended
  <2>2. CASE WorkerSucceeds(r) \/ RecordProof(r) \/ AskAndGrant(r)
    BY <2>2, MoveKeepsPlace
       DEF WorkerSucceeds, RecordProof, AskAndGrant, Move, InPlace, Place,
           Stages
  <2>3. CASE AskAgain(r) \/ GhReports(r)
    BY <2>3, MoveKeepsPlace
       DEF AskAgain, GhReports, Move, InPlace, Place, Stages
  <2>4. CASE OpenTemp(r) \/ WriteTemp(r) \/ Rename(r)
    BY <2>4, MoveKeepsPlace
       DEF OpenTemp, WriteTemp, Rename, Move, InPlace, Place, Stages
  <2> QED
    BY <1>3, <2>1, <2>2, <2>3, <2>4
<1>4. ASSUME NEW r \in Runs,
             \/ \E status \in {"blocked", "failed"} : WorkerStops(r, status)
             \/ FailToWrite(r) \/ ReadBack(r) \/ ReadFails(r)
             \/ Throw(r) \/ Crash(r)
      PROVE  InPlace'
  <2>1. CASE \E status \in {"blocked", "failed"} : WorkerStops(r, status)
    <3>1. PICK to \in {"stopped", "refused"} :
            stage' = [stage EXCEPT ![r] = to]
      BY <2>1 DEF WorkerStops, Move
    <3>2. next' = next /\ next[r] = 8
      BY <2>1 DEF WorkerStops, Move, InPlace, Place
    <3> QED
      BY <3>1, <3>2, MoveKeepsPlace DEF Stages, Ended
  <2>2. CASE FailToWrite(r) \/ ReadFails(r) \/ Throw(r) \/ Crash(r)
    BY <2>2, MoveKeepsPlace
       DEF FailToWrite, ReadFails, Throw, Crash, Move, Stages, Ended
  <2>3. CASE ReadBack(r)
    BY <2>3, MoveKeepsPlace DEF ReadBack, Move, InPlace, Place, Stages, Ended
  <2> QED
    BY <1>4, <2>1, <2>2, <2>3
<1> QED
  BY <1>1, <1>2, <1>3, <1>4 DEF Next, GhCreates, vars

\* A run's stage, position, ids and pull request always go together.
LEMMA AlwaysInPlace == Spec => []InPlace
BY InPlaceInit, InPlaceStep, PTL DEF Spec

-----------------------------------------------------------------------------
(* The stores of the runs are one TaskStore.                               *)

\* What a run sends is one of the commands the stores are asked for.
LEMMA SentCommands ==
  ASSUME NEW r \in Runs
  PROVE  /\ \A k \in 1..14 : CommandOf(r, Script[k]) \in RunCommands
         /\ \A s \in {"blocked", "failed"} :
              CommandOf(r, StopStep(s)) \in RunCommands
<1>1. \A s \in {"blocked", "failed"} : StopStep(s) \in Steps
  BY DEF Steps
<1> QED
  BY <1>1, ScriptWalksPath DEF RunCommands

\* Each step of a run is one call of its store, or none.
LEMMA StoreStep == InPlace /\ [Next]_vars => [Store!Next]_(Store!vars)
<1> SUFFICES ASSUME InPlace, [Next]_vars PROVE [Store!Next]_(Store!vars)
  OBVIOUS
<1>1. ASSUME NEW r \in Runs, Start(r)
      PROVE  Store!Next
  BY <1>1 DEF Start, Store!Next
<1>2. ASSUME NEW r \in Runs, MakeTransition(r)
      PROVE  Store!Next
  <2>1. next[r] \in 1..14
    BY <1>2 DEF MakeTransition, InPlace, Place
  <2> QED
    BY <1>2, <2>1, SentCommands DEF MakeTransition, Store!Next
<1>3. ASSUME NEW r \in Runs, NEW status \in {"blocked", "failed"},
             WorkerStops(r, status)
      PROVE  Store!Next
  BY <1>3, SentCommands DEF WorkerStops, Store!Next
<1>4. CASE UNCHANGED storeVars
  BY <1>4 DEF storeVars, Store!vars
<1>5. ASSUME NEW r \in Runs,
             \/ RejectEvent(r) \/ WorkerSucceeds(r) \/ RecordProof(r)
             \/ AskAndGrant(r) \/ AskAgain(r) \/ GhCreates(r)
             \/ GhReports(r) \/ OpenTemp(r) \/ WriteTemp(r) \/ Rename(r)
             \/ FailToWrite(r) \/ ReadBack(r) \/ ReadFails(r)
             \/ Throw(r) \/ Crash(r)
      PROVE  UNCHANGED storeVars
  BY <1>5 DEF RejectEvent, WorkerSucceeds, RecordProof, AskAndGrant, AskAgain,
              GhCreates, GhReports, OpenTemp, WriteTemp, Rename, FailToWrite,
              ReadBack, ReadFails, Throw, Crash
<1> QED
  BY <1>1, <1>2, <1>3, <1>4, <1>5 DEF Next, vars

\* Whatever the runs do, crash and fail, their stores together behave as one
\* TaskStore whose tasks are put once, so that what is proved of TaskStore
\* holds of the log of every run.
LEMMA RunsImplementStore == Spec => Store!Spec
<1>1. Init => Store!Init
  BY DEF Init
<1>2. InPlace /\ [Next]_vars => [Store!Next]_(Store!vars)
  BY StoreStep
<1> QED
  BY <1>1, <1>2, AlwaysInPlace, PTL DEF Spec, Store!Spec

-----------------------------------------------------------------------------
(***************************************************************************)
(* What is proved of TaskStore is proved of StoreProofs' instance of it.   *)
(* The definitions of the two instances are the same.                      *)
(***************************************************************************)
LEMMA SameTypes ==
  /\ StoreProofs!TypeOK <=> Store!TypeOK
  /\ StoreProofs!StoreAssumption <=> Store!StoreAssumption
  /\ StoreProofs!Snapshot = Store!Snapshot
  /\ StoreProofs!TransitionRecord = Store!TransitionRecord
<1>1. /\ StoreProofs!TaskStates = Store!TaskStates
      /\ StoreProofs!TransitionErrors = Store!TransitionErrors
  BY DEF StoreProofs!TaskStates, Store!TaskStates, StoreProofs!HappyPath,
         Store!HappyPath, StoreProofs!TransitionErrors,
         Store!TransitionErrors
<1>2. /\ StoreProofs!Transition = Store!Transition
      /\ StoreProofs!Snapshot = Store!Snapshot
  BY <1>1 DEF StoreProofs!Transition, Store!Transition, StoreProofs!Actors,
              Store!Actors, StoreProofs!Snapshot, Store!Snapshot
<1>3. /\ StoreProofs!Command = Store!Command
      /\ StoreProofs!TransitionRecord = Store!TransitionRecord
  BY <1>1, <1>2 DEF StoreProofs!Command, Store!Command,
                    StoreProofs!TransitionRecord, Store!TransitionRecord
<1>4. /\ StoreProofs!AppendResult = Store!AppendResult
      /\ StoreProofs!IdempotencyRecord = Store!IdempotencyRecord
  BY <1>1, <1>2, <1>3
     DEF StoreProofs!AppendResult, Store!AppendResult,
         StoreProofs!IdempotencyRecord, Store!IdempotencyRecord
<1>5. StoreProofs!TypeOK <=> Store!TypeOK
  BY <1>2, <1>3, <1>4 DEF StoreProofs!TypeOK, Store!TypeOK
<1>6. StoreProofs!StoreAssumption <=> Store!StoreAssumption
  BY <1>1, <1>2, <1>3, <1>4
     DEF StoreProofs!StoreAssumption, Store!StoreAssumption
<1> QED
  BY <1>2, <1>3, <1>5, <1>6

\* What a call of the store answers and records is the same under both
\* instances of the store.
LEMMA SameOperators ==
  ASSUME NEW cmd
  PROVE  /\ StoreProofs!Verdict(cmd) = Store!Verdict(cmd)
         /\ StoreProofs!NewRecord(cmd) = Store!NewRecord(cmd)
         /\ StoreProofs!IsDuplicateCommand(cmd)
              <=> Store!IsDuplicateCommand(cmd)
         /\ \A task, tr, verdict :
              StoreProofs!NextTask(task, tr, verdict)
                = Store!NextTask(task, tr, verdict)
<1>1. StoreProofs!Verdict(cmd) = Store!Verdict(cmd)
  <2>1. \A log, id : StoreProofs!CurrentTransition(log, id)
                       = Store!CurrentTransition(log, id)
    BY DEF StoreProofs!CurrentTransition, Store!CurrentTransition
  <2>2. \A tr : StoreProofs!ContractError(tr) = Store!ContractError(tr)
    <3>1. \A from, to : StoreProofs!ContractOf(from, to)
                          = Store!ContractOf(from, to)
      BY DEF StoreProofs!ContractOf, Store!ContractOf,
             StoreProofs!transitionContracts, Store!transitionContracts,
             StoreProofs!cancellableStates, Store!cancellableStates,
             StoreProofs!Contract, Store!Contract
    <3>2. \A tr : StoreProofs!missingRequiredRef(tr)
                    = Store!missingRequiredRef(tr)
      BY DEF StoreProofs!missingRequiredRef, Store!missingRequiredRef,
             StoreProofs!artifactRefStates, Store!artifactRefStates,
             StoreProofs!proofRefStates, Store!proofRefStates,
             StoreProofs!approvalRefStates, Store!approvalRefStates
    <3> QED
      BY <3>1, <3>2 DEF StoreProofs!ContractError, Store!ContractError
  <2>3. \A id, task, tr : StoreProofs!ScopeError(id, task, tr)
                            = Store!ScopeError(id, task, tr)
    BY DEF StoreProofs!ScopeError, Store!ScopeError,
           StoreProofs!terminalStates, Store!terminalStates
  <2>4. StoreProofs!TaskStates = Store!TaskStates
    BY DEF StoreProofs!TaskStates, Store!TaskStates, StoreProofs!HappyPath,
           Store!HappyPath
  <2>5. \A id, task, tr, current :
          StoreProofs!applyTaskTransition(id, task, tr, current)
            = Store!applyTaskTransition(id, task, tr, current)
    BY <2>2, <2>3, <2>4
       DEF StoreProofs!applyTaskTransition, Store!applyTaskTransition,
           StoreProofs!SameTransition, Store!SameTransition
  <2> QED
    BY <2>1, <2>5 DEF StoreProofs!Verdict, Store!Verdict
<1>2. \A task, tr, verdict : StoreProofs!NextTask(task, tr, verdict)
                               = Store!NextTask(task, tr, verdict)
  BY DEF StoreProofs!NextTask, Store!NextTask, StoreProofs!appendRef,
         Store!appendRef
<1>3. StoreProofs!NewRecord(cmd) = Store!NewRecord(cmd)
  BY <1>2 DEF StoreProofs!NewRecord, Store!NewRecord
<1>4. StoreProofs!IsDuplicateCommand(cmd) <=> Store!IsDuplicateCommand(cmd)
  BY DEF StoreProofs!IsDuplicateCommand, Store!IsDuplicateCommand
<1> QED
  BY <1>1, <1>2, <1>3, <1>4

\* A step of the runs' store is a step of the store the theorems of
\* TaskStoreProofs are about.
LEMMA SameSteps ==
  [Store!Next]_(Store!vars) => [StoreProofs!Next]_(StoreProofs!vars)
<1>1. ASSUME NEW cmd, Store!AppendTransition(cmd)
      PROVE  StoreProofs!AppendTransition(cmd)
  <2>1. CASE Store!ReplayResult(cmd)
    BY <2>1, SameOperators
       DEF StoreProofs!AppendTransition, StoreProofs!ReplayResult,
           Store!ReplayResult, StoreProofs!vars, Store!vars
  <2>2. CASE Store!RejectTransition(cmd)
    BY <2>2, SameOperators
       DEF StoreProofs!AppendTransition, StoreProofs!RejectTransition,
           Store!RejectTransition
  <2>3. CASE Store!NoopTransition(cmd)
    BY <2>3, SameOperators
       DEF StoreProofs!AppendTransition, StoreProofs!NoopTransition,
           Store!NoopTransition
  <2>4. CASE Store!ApplyTransition(cmd)
    BY <2>4, SameOperators
       DEF StoreProofs!AppendTransition, StoreProofs!ApplyTransition,
           Store!ApplyTransition
  <2> QED
    BY <1>1, <2>1, <2>2, <2>3, <2>4 DEF Store!AppendTransition
<1>2. ASSUME NEW t, NEW s, Store!PutTaskSnapshot(t, s)
      PROVE  StoreProofs!PutTaskSnapshot(t, s)
  BY <1>2 DEF StoreProofs!PutTaskSnapshot, Store!PutTaskSnapshot,
              StoreProofs!NewSnapshot, Store!NewSnapshot
<1>3. Store!Reset => StoreProofs!Reset
  BY DEF StoreProofs!Reset, Store!Reset
<1> QED
  BY <1>1, <1>2, <1>3
     DEF StoreProofs!Next, Store!Next, StoreProofs!vars, Store!vars

\* The same of every call of transition(), the two that stop a run included.
LEMMA StepTypes ==
  ASSUME NEW step \in Steps
  PROVE  /\ step.from \in Store!TaskStates /\ step.actor \in Store!Actors
         /\ step.artifact_ref \in {"final_output", "pr", None}
         /\ step.proof_ref \in {"proof", None}
         /\ step.approval_ref \in {"approval", None}
<1>1. CASE step \in Range(Script)
  <2>1. PICK k \in 1..14 : step = Script[k]
    BY <1>1, ScriptWalksPath DEF Range
  <2>2. step.from = Store!HappyPath[k]
    BY <2>1, ScriptWalksPath
  <2> QED
    BY <2>1, <2>2, ScriptTypes, PathStates
<1>2. CASE step \in {StopStep(s) : s \in {"blocked", "failed"}}
  <2>1. step.from = "running" /\ "running" = Store!HappyPath[8]
    BY <1>2 DEF StopStep, Step, Store!HappyPath
  <2> QED
    BY <1>2, <2>1, PathStates DEF StopStep, Step, Store!Actors
<1> QED
  BY <1>1, <1>2 DEF Steps

\* The commands of the runs are commands of the store, and None is apart.
LEMMA StoreParameters == Store!StoreAssumption
<1>1. ASSUME NEW r \in Runs, NEW step \in Steps
      PROVE  CommandOf(r, step) \in Store!Command
  <2>1. /\ step.from \in Store!TaskStates /\ step.actor \in Store!Actors
        /\ step.artifact_ref \in {"final_output", "pr", None}
        /\ step.proof_ref \in {"proof", None}
        /\ step.approval_ref \in {"approval", None}
    BY StepTypes
  <2>2. << step.from, step.to >> \in {<<s.from, s.to>> : s \in Steps}
    OBVIOUS
  <2>3. CommandOf(r, step).command_id
          \in {cmd.command_id : cmd \in RunCommands}
    BY DEF RunCommands
  <2>4. CommandOf(r, step).transition \in Store!Transition
    BY <2>1, <2>2, LiteralAssumption
       DEF LiteralAssumption, CommandOf, Store!Transition
  <2> QED
    BY <2>1, <2>3, <2>4 DEF CommandOf, Store!Command
<1>2. RunCommands \subseteq Store!Command
  BY <1>1 DEF RunCommands
<1>3. "created" \in Store!TaskStates
  BY DEF Store!TaskStates, Store!HappyPath
<1> QED
  BY <1>2, <1>3, NoneAssumption DEF NoneAssumption, Store!StoreAssumption

\* The maps of the runs' stores always hold what their types say.
LEMMA StoreTypeCorrect == Spec => []Store!TypeOK
<1>1. Store!Spec => StoreProofs!Spec
  <2>1. Store!Init => StoreProofs!Init
    BY DEF Store!Init, StoreProofs!Init
  <2> QED
    BY <2>1, SameSteps, PTL DEF Store!Spec, StoreProofs!Spec
<1>2. StoreProofs!Spec => []StoreProofs!TypeOK
  <2>1. StoreProofs!StoreAssumption
    BY StoreParameters, SameTypes
  <2> QED
    BY <2>1, StoreProofs!TypeCorrect
<1>3. StoreProofs!TypeOK => Store!TypeOK
  BY SameTypes
<1> QED
  BY <1>1, <1>2, <1>3, RunsImplementStore, PTL

-----------------------------------------------------------------------------
(* What the store of a run holds.                                          *)

\* What a run has not sent yet was not answered.
Unanswered(r, k) ==
  /\ \A i \in k..14 :
       commandResults[CommandOf(r, Script[i]).command_id] = None
  /\ k <= 8 => \A s \in {"blocked", "failed"} :
       commandResults[CommandOf(r, StopStep(s)).command_id] = None

\* The references of the script, and no others
FewRefs(task) ==
  /\ task.artifact_refs \subseteq {"final_output", "pr"}
  /\ task.proof_refs \subseteq {"proof"}
  /\ task.approval_refs \subseteq {"approval"}

\* The log is the script so far.
OnScript(r) ==
  LET k == next[r]
  IN  IF stage[r] \in {"idle", "rejected"}
      THEN /\ tasks[r] = None /\ recordsByTask[r] = << >>
           /\ Unanswered(r, 1)
      ELSE stage[r] # "stopped" =>
           /\ stage[r] # "refused"
           /\ tasks[r] # None
           /\ tasks[r].state = Store!HappyPath[k]
           /\ tasks[r].current_transition_id =
                IF k = 1 THEN None
                ELSE << Store!HappyPath[k - 1], Store!HappyPath[k] >>
           /\ FewRefs(tasks[r])
           /\ Len(recordsByTask[r]) = k - 1
           /\ \A i \in 1..k - 1 :
                recordsByTask[r][i].transition
                  = CommandOf(r, Script[i]).transition
           /\ Unanswered(r, k)

\* A run that went on has recorded what it went on with.
HasRecorded(r) ==
  /\ next[r] > 8 \/ (next[r] = 8 /\ stage[r] = "stepping") =>
       "final_output" \in artifacts[r]
  /\ next[r] > 13 \/ (next[r] = 13 /\ stage[r] = "stepping") =>
       /\ "pr" \in artifacts[r]
       /\ r \in GitHubRuns => r \in remote
  /\ next[r] > 12 \/ (next[r] = 12 /\ stage[r] = "stepping") =>
       r \in granted

\* The recorder of a run holds artifacts of four kinds.
ArtifactsTyped ==
  artifacts \in [Runs -> SUBSET {"jsonl", "final_output", "log", "pr"}]

StoresOnScript == \A r \in Runs : OnScript(r) /\ HasRecorded(r)

-----------------------------------------------------------------------------
(* The script and the table of the state machine.                          *)

\* The table has one row for each edge.
LEMMA OneContractPerEdge ==
  ASSUME NEW c \in Store!transitionContracts,
         NEW d \in Store!transitionContracts,
         c.from = d.from, c.to = d.to
  PROVE  c = d
BY DEF Store!transitionContracts, Store!Contract, Store!cancellableStates

\* A transition that follows a row of the table, and carries what its target
\* asks for, has nothing wrong with it.
LEMMA FollowsContract ==
  ASSUME NEW tr,
         Store!Contract(tr.from, tr.to, tr.trigger, tr.actor)
           \in Store!transitionContracts,
         tr.audit = tr.to, Store!missingRequiredRef(tr) = None
  PROVE  Store!ContractError(tr) = None
<1> DEFINE row == Store!Contract(tr.from, tr.to, tr.trigger, tr.actor)
           found == {c \in Store!transitionContracts :
                       c.from = tr.from /\ c.to = tr.to}
<1>1. /\ row.from = tr.from /\ row.to = tr.to
      /\ row.trigger = tr.trigger /\ row.actor = tr.actor
  BY DEF Store!Contract
<1>2. row \in found
  BY <1>1
<1>3. \A c \in found : c = row
  BY <1>1, OneContractPerEdge
<1> HIDE DEF row
<1>4. Store!ContractOf(tr.from, tr.to) = row
  BY <1>2, <1>3 DEF Store!ContractOf
<1>5. row # None
  BY <1>2, NoneAssumption DEF NoneAssumption
<1> QED
  BY <1>1, <1>4, <1>5 DEF Store!ContractError

\* Every step of the script, and every stop, follows the table.
LEMMA StepsFollowContracts ==
  ASSUME NEW r \in Runs, NEW step \in Steps
  PROVE  Store!ContractError(CommandOf(r, step).transition) = None
<1> DEFINE tr == CommandOf(r, step).transition
<1>1. /\ tr.from = step.from /\ tr.to = step.to
      /\ tr.trigger = step.trigger /\ tr.actor = step.actor
      /\ tr.audit = tr.to /\ tr.artifact_ref = step.artifact_ref
      /\ tr.proof_ref = step.proof_ref /\ tr.approval_ref = step.approval_ref
  BY DEF CommandOf
<1> HIDE DEF tr
<1>2. CASE step \in Range(Script)
  <2>1. PICK k \in 1..14 : step = Script[k]
    BY <1>2, ScriptWalksPath DEF Range
  <2>2. Store!Contract(step.from, step.to, step.trigger, step.actor)
          \in Store!transitionContracts
    BY <2>1 DEF Script, Step, Store!transitionContracts
  <2>3. Store!missingRequiredRef(tr) = None
    BY <1>1, <2>1, NoneAssumption
       DEF NoneAssumption, Script, Step, Store!missingRequiredRef,
           Store!artifactRefStates, Store!proofRefStates,
           Store!approvalRefStates
  <2> QED
    BY <1>1, <2>2, <2>3, FollowsContract DEF tr
<1>3. CASE step \in {StopStep(s) : s \in {"blocked", "failed"}}
  <2>1. Store!Contract(step.from, step.to, step.trigger, step.actor)
          \in Store!transitionContracts
    BY <1>3 DEF StopStep, Step, Store!transitionContracts
  <2>2. Store!missingRequiredRef(tr) = None
    BY <1>1, <1>3
       DEF StopStep, Step, Store!missingRequiredRef,
           Store!artifactRefStates, Store!proofRefStates,
           Store!approvalRefStates
  <2> QED
    BY <1>1, <2>1, <2>2, FollowsContract DEF tr
<1> QED
  BY <1>2, <1>3 DEF Steps

-----------------------------------------------------------------------------
(* No run is stopped by its own store.                                     *)

\* A command of the right state that was not answered yet is applied.
LEMMA FreshCommandApplies ==
  ASSUME NEW r \in Runs, NEW step \in Steps,
         tasks[r] # None, tasks[r].state = step.from,
         step.from \in Store!TaskStates \ Store!terminalStates,
         step.to \in Store!TaskStates, step.to # step.from,
         commandResults[CommandOf(r, step).command_id] = None,
         Store!AppendTransition(CommandOf(r, step))
  PROVE  Store!ApplyTransition(CommandOf(r, step))
<1> DEFINE cmd == CommandOf(r, step)
           tr == cmd.transition
<1>1. /\ cmd.task_id = r /\ cmd.expected_state = step.from
      /\ tr.task_id = r /\ tr.from = step.from /\ tr.to = step.to
  BY DEF CommandOf
<1>2. Store!ContractError(tr) = None
  BY StepsFollowContracts
<1>3. ~Store!IsDuplicateCommand(cmd)
  BY DEF Store!IsDuplicateCommand
<1> HIDE DEF cmd, tr
<1>4. Store!ScopeError(r, tasks[r], tr) = None
  BY <1>1 DEF Store!ScopeError
<1>5. Store!Verdict(cmd) = "applied"
  BY <1>1, <1>2, <1>4
     DEF Store!Verdict, Store!applyTaskTransition, tr
<1> QED
  BY <1>3, <1>5
     DEF Store!AppendTransition, Store!ReplayResult, Store!RejectTransition,
         Store!NoopTransition, cmd

\* What a run sees of its store when a command was applied; other runs see
\* nothing.
LEMMA AppliedEffect ==
  ASSUME Store!TypeOK, NEW r \in Runs, NEW step \in Steps,
         Store!ApplyTransition(CommandOf(r, step))
  PROVE  /\ tasks'[r].state = step.to
         /\ tasks'[r].current_transition_id = << step.from, step.to >>
         /\ tasks'[r] # None
         /\ FewRefs(tasks[r]) => FewRefs(tasks'[r])
         /\ Len(recordsByTask'[r]) = Len(recordsByTask[r]) + 1
         /\ \A i \in 1..Len(recordsByTask[r]) :
              recordsByTask'[r][i] = recordsByTask[r][i]
         /\ recordsByTask'[r][Len(recordsByTask[r]) + 1].transition
              = CommandOf(r, step).transition
         /\ commandResults'[CommandOf(r, step).command_id].ok
         /\ \A id : id # CommandOf(r, step).command_id =>
              commandResults'[id] = commandResults[id]
         /\ \A q \in Runs \ {r} : /\ tasks'[q] = tasks[q]
                                  /\ recordsByTask'[q] = recordsByTask[q]
<1> DEFINE cmd == CommandOf(r, step)
           record == Store!NewRecord(cmd)
<1>1. cmd \in RunCommands
  BY DEF RunCommands
<1>2. cmd.command_id \in {c.command_id : c \in RunCommands}
  BY <1>1
<1>3. /\ cmd.task_id = r
      /\ cmd.transition.to = step.to
      /\ cmd.transition.transition_id = << step.from, step.to >>
      /\ cmd.transition.artifact_ref = step.artifact_ref
      /\ cmd.transition.proof_ref = step.proof_ref
      /\ cmd.transition.approval_ref = step.approval_ref
  BY DEF CommandOf
<1> HIDE DEF cmd
<1>4. /\ tasks' = [tasks EXCEPT ![r] = record.task_snapshot]
      /\ recordsByTask' = [recordsByTask EXCEPT ![r] = Append(@, record)]
      /\ commandResults' = [commandResults EXCEPT ![cmd.command_id] =
           [ok |-> TRUE, code |-> "applied", task |-> record.task_snapshot,
            record |-> record]]
      /\ Store!Verdict(cmd) = "applied"
  BY <1>3 DEF Store!ApplyTransition, cmd
<1>5. /\ record.transition = cmd.transition
      /\ record.task_snapshot
           = Store!NextTask(tasks[r], cmd.transition, "applied")
  BY <1>3 DEF Store!NewRecord
<1>6. /\ record \in Store!TransitionRecord
      /\ record.task_snapshot \in Store!Snapshot
  BY <1>1, <1>4, StoreParameters, SameTypes, SameOperators,
     StoreProofs!NewRecordType
<1> HIDE DEF record
<1>7. /\ tasks'[r] = record.task_snapshot /\ tasks'[r] # None
      /\ commandResults'[cmd.command_id].ok
      /\ \A id : id # cmd.command_id => commandResults'[id] = commandResults[id]
      /\ \A q \in Runs \ {r} : /\ tasks'[q] = tasks[q]
                               /\ recordsByTask'[q] = recordsByTask[q]
  BY <1>2, <1>4, <1>6, NoneAssumption DEF NoneAssumption, Store!TypeOK
<1>8. /\ tasks'[r].state = step.to
      /\ tasks'[r].current_transition_id = << step.from, step.to >>
      /\ FewRefs(tasks[r]) => FewRefs(tasks'[r])
  BY <1>3, <1>5, <1>7, StepTypes
     DEF Store!NextTask, Store!appendRef, FewRefs
<1>9. /\ Len(recordsByTask'[r]) = Len(recordsByTask[r]) + 1
      /\ \A i \in 1..Len(recordsByTask[r]) :
           recordsByTask'[r][i] = recordsByTask[r][i]
      /\ recordsByTask'[r][Len(recordsByTask[r]) + 1] = record
  <2>1. /\ recordsByTask[r] \in Seq(Store!TransitionRecord)
        /\ recordsByTask'[r] = Append(recordsByTask[r], record)
    BY <1>4 DEF Store!TypeOK
  <2> QED
    BY <1>6, <2>1, AppendProperties
<1> QED
  BY <1>5, <1>7, <1>8, <1>9 DEF cmd

\* Commands of different runs have different ids.
LEMMA RunsHaveOwnCommands ==
  ASSUME NEW r, NEW q, q # r, NEW s1, NEW s2
  PROVE  CommandOf(q, s1).command_id # CommandOf(r, s2).command_id
BY DEF CommandOf

\* Nothing changes in the store of a run.
SameStore(q) ==
  /\ tasks'[q] = tasks[q] /\ recordsByTask'[q] = recordsByTask[q]
  /\ \A step \in Steps : commandResults'[CommandOf(q, step).command_id]
                           = commandResults[CommandOf(q, step).command_id]

\* A run that does not use its store stays on the script.
LEMMA OnScriptSame ==
  ASSUME InPlace, NEW q \in Runs, OnScript(q), SameStore(q),
         next'[q] = next[q],
         \/ stage'[q] = stage[q]
         \/ stage[q] = "idle" /\ stage'[q] = "rejected"
         \/ /\ stage[q] \notin {"idle", "rejected", "stopped"}
            /\ stage'[q] \notin {"idle", "rejected", "refused"}
  PROVE  OnScript(q)'
<1>1. \A s \in {"blocked", "failed"} : StopStep(s) \in Steps
  BY DEF Steps
<1>2. ASSUME NEW k \in 1..15, Unanswered(q, k)
      PROVE  /\ \A i \in k..14 :
                  commandResults'[CommandOf(q, Script[i]).command_id] = None
             /\ k <= 8 => \A s \in {"blocked", "failed"} :
                  commandResults'[CommandOf(q, StopStep(s)).command_id] = None
  <2>1. ASSUME NEW i \in k..14
        PROVE  commandResults'[CommandOf(q, Script[i]).command_id] = None
    <3>1. i \in 1..14
      OBVIOUS
    <3> QED
      BY <1>2, <3>1, ScriptWalksPath DEF Unanswered, SameStore
  <2> QED
    BY <1>1, <1>2, <2>1 DEF Unanswered, SameStore
<1>3. next[q] \in 1..15
  BY DEF InPlace
<1>4. ASSUME NEW k \in 1..15, Unanswered(q, k), k = 1 \/ k = next'[q]
      PROVE  Unanswered(q, k)'
  BY <1>2, <1>4 DEF Unanswered
<1>5. CASE stage'[q] \in {"idle", "rejected"}
  BY <1>4, <1>5 DEF OnScript, SameStore
<1>6. CASE stage'[q] \notin {"idle", "rejected", "stopped"}
  <2>1. Unanswered(q, next[q]) /\ Unanswered(q, next'[q])
    BY <1>6 DEF OnScript
  <2>2. /\ \A i \in next'[q]..14 :
             commandResults'[CommandOf(q, Script[i]).command_id] = None
        /\ next'[q] <= 8 => \A s \in {"blocked", "failed"} :
             commandResults'[CommandOf(q, StopStep(s)).command_id] = None
    BY <1>2, <1>3, <2>1
  <2>3. (Unanswered(q, next[q]))'
    BY <2>2 DEF Unanswered
  <2> QED
    BY <1>6, <2>3 DEF OnScript, SameStore, FewRefs
<1>7. CASE stage'[q] = "stopped"
  BY <1>7 DEF OnScript
<1> QED
  BY <1>5, <1>6, <1>7

\* The start of a run puts the task where the script begins.
LEMMA OnScriptStart ==
  ASSUME InPlace, Store!TypeOK, NEW r \in Runs, Start(r), OnScript(r)
  PROVE  OnScript(r)'
<1>1. /\ stage[r] = "idle" /\ stage'[r] = "stepping"
      /\ next[r] = 1 /\ next' = next
  BY DEF Start, Move, InPlace, Place
<1>2. /\ tasks'[r] = Store!NewSnapshot("created")
      /\ recordsByTask' = recordsByTask /\ commandResults' = commandResults
  BY DEF Start, Store!PutTaskSnapshot, Store!TypeOK
<1>3. recordsByTask[r] = << >> /\ Unanswered(r, 1)
  BY <1>1 DEF OnScript
<1>4. Store!NewSnapshot("created") \in Store!Snapshot
  BY PathStates DEF Store!NewSnapshot, Store!Snapshot, Store!HappyPath
<1>5. tasks'[r] # None
  BY <1>2, <1>4, NoneAssumption DEF NoneAssumption
<1>6. (Unanswered(r, next[r]))'
  BY <1>1, <1>2, <1>3 DEF Unanswered
<1>7. /\ tasks'[r].state = Store!HappyPath[1]
      /\ tasks'[r].current_transition_id = None
      /\ FewRefs(tasks'[r])
  BY <1>2 DEF Store!NewSnapshot, Store!HappyPath, FewRefs
<1>8. Len(recordsByTask'[r]) = 0
  BY <1>2, <1>3
<1> QED
  BY <1>1, <1>5, <1>6, <1>7, <1>8 DEF OnScript

\* The next transition of the script is one the store applies.
LEMMA ScriptIsApplied ==
  ASSUME InPlace, Store!TypeOK, NEW r \in Runs, MakeTransition(r), OnScript(r)
  PROVE  /\ next[r] \in 1..14 /\ Script[next[r]] \in Steps
         /\ Store!ApplyTransition(CommandOf(r, Script[next[r]]))
<1> DEFINE k == next[r]
<1>1. stage[r] = "stepping" /\ k \in 1..14
  BY DEF MakeTransition, InPlace, Place
<1>2. /\ Script[k] \in Steps /\ Script[k].from = Store!HappyPath[k]
      /\ Script[k].to = Store!HappyPath[k + 1]
  BY <1>1, ScriptWalksPath
<1>3. /\ tasks[r] # None /\ tasks[r].state = Script[k].from
      /\ commandResults[CommandOf(r, Script[k]).command_id] = None
  <2>1. tasks[r] # None /\ tasks[r].state = Script[k].from /\ Unanswered(r, k)
    BY <1>1, <1>2 DEF OnScript
  <2>2. k \in k..14
    BY <1>1
  <2> QED
    BY <2>1, <2>2 DEF Unanswered
<1>4. Script[k].from # Script[k].to
  BY <1>1, <1>2, PathIsSimple
<1>5. Store!HappyPath[k] \notin Store!terminalStates
  BY <1>1 DEF Store!HappyPath, Store!terminalStates
<1>6. /\ Store!HappyPath[k] \in Store!TaskStates
      /\ Store!HappyPath[k + 1] \in Store!TaskStates
  BY <1>1, PathStates
<1>7. Store!AppendTransition(CommandOf(r, Script[k]))
  BY DEF MakeTransition
<1> QED
  BY <1>1, <1>2, <1>3, <1>4, <1>5, <1>6, <1>7, FreshCommandApplies

\* It takes the run one step down the script.
LEMMA OnScriptMove ==
  ASSUME InPlace, Store!TypeOK, NEW r \in Runs, MakeTransition(r), OnScript(r)
  PROVE  OnScript(r)'
<1> DEFINE k == next[r]
           step == Script[k]
<1>1. stage[r] = "stepping" /\ k \in 1..14
  BY DEF MakeTransition, InPlace, Place
<1>2. step \in Steps /\ Store!ApplyTransition(CommandOf(r, step))
  BY ScriptIsApplied
<1>3. /\ step.from = Store!HappyPath[k] /\ step.to = Store!HappyPath[k + 1]
  BY <1>1, ScriptWalksPath
<1>4. /\ tasks'[r].state = step.to
      /\ tasks'[r].current_transition_id = << step.from, step.to >>
      /\ tasks'[r] # None
      /\ FewRefs(tasks[r]) => FewRefs(tasks'[r])
      /\ Len(recordsByTask'[r]) = Len(recordsByTask[r]) + 1
      /\ \A i \in 1..Len(recordsByTask[r]) :
           recordsByTask'[r][i] = recordsByTask[r][i]
      /\ recordsByTask'[r][Len(recordsByTask[r]) + 1].transition
           = CommandOf(r, step).transition
      /\ commandResults'[CommandOf(r, step).command_id].ok
      /\ \A id : id # CommandOf(r, step).command_id =>
           commandResults'[id] = commandResults[id]
  BY <1>2, AppliedEffect
<1>5. next'[r] = k + 1
  BY DEF MakeTransition, InPlace
<1>6. stage'[r] = StageAfter(step.to)
  BY <1>4 DEF MakeTransition, CommandOf, InPlace
<1>7. stage'[r] \notin {"idle", "rejected", "stopped", "refused"}
  BY <1>1, <1>6, ScriptStages
<1>8. /\ Unanswered(r, k) /\ FewRefs(tasks[r])
      /\ Len(recordsByTask[r]) = k - 1
      /\ \A i \in 1..k - 1 : recordsByTask[r][i].transition
                               = CommandOf(r, Script[i]).transition
  BY <1>1 DEF OnScript
<1>9. /\ \A i \in (k + 1)..14 :
           commandResults'[CommandOf(r, Script[i]).command_id] = None
      /\ k + 1 <= 8 => \A s \in {"blocked", "failed"} :
           commandResults'[CommandOf(r, StopStep(s)).command_id] = None
  <2>1. ASSUME NEW i \in (k + 1)..14
        PROVE  commandResults'[CommandOf(r, Script[i]).command_id] = None
    <3>1. i \in 1..14 /\ i \in k..14 /\ i # k
      BY <1>1
    <3>2. Script[i].from = Store!HappyPath[i]
      BY <3>1, ScriptWalksPath
    <3>3. Script[i].from # step.from
      BY <1>1, <1>3, <3>1, <3>2, PathIsSimple
    <3> HIDE DEF step
    <3>4. CommandOf(r, Script[i]).command_id # CommandOf(r, step).command_id
      BY <3>3 DEF CommandOf
    <3> QED
      BY <1>4, <1>8, <3>1, <3>4 DEF Unanswered
  <2>2. ASSUME k + 1 <= 8, NEW s \in {"blocked", "failed"}
        PROVE  commandResults'[CommandOf(r, StopStep(s)).command_id] = None
    <3>1. StopStep(s).to # step.to
      BY <1>1, <1>3 DEF StopStep, Step, Store!HappyPath
    <3> HIDE DEF step
    <3>2. CommandOf(r, StopStep(s)).command_id # CommandOf(r, step).command_id
      BY <3>1 DEF CommandOf
    <3> QED
      BY <1>1, <1>4, <1>8, <2>2, <3>2 DEF Unanswered
  <2> QED
    BY <2>1, <2>2
<1>10. (Unanswered(r, next[r]))'
  BY <1>5, <1>9 DEF Unanswered
<1>11. /\ Len(recordsByTask'[r]) = k
       /\ \A i \in 1..k : recordsByTask'[r][i].transition
                            = CommandOf(r, Script[i]).transition
  <2> HIDE DEF k
  <2>1. Len(recordsByTask[r]) = k - 1 /\ (k - 1) + 1 = k
    BY <1>1, <1>8
  <2>2. Len(recordsByTask'[r]) = k
    BY <1>4, <2>1
  <2>3. recordsByTask'[r][k].transition = CommandOf(r, step).transition
    BY <1>4, <2>1
  <2>4. ASSUME NEW i \in 1..k - 1
        PROVE  recordsByTask'[r][i].transition
                 = CommandOf(r, Script[i]).transition
    BY <1>4, <1>8, <2>1
  <2>5. \A i \in 1..k : i = k \/ i \in 1..k - 1
    BY <1>1
  <2> QED
    BY <2>2, <2>3, <2>4, <2>5
<1> HIDE DEF k, step
<1>12. /\ tasks'[r].state = Store!HappyPath[k + 1]
       /\ tasks'[r].current_transition_id
            = << Store!HappyPath[k], Store!HappyPath[k + 1] >>
  BY <1>3, <1>4
<1>13. (next'[r]) - 1 = k /\ next'[r] # 1
  BY <1>1, <1>5
<1> QED
  BY <1>1, <1>4, <1>5, <1>7, <1>8, <1>10, <1>11, <1>12, <1>13 DEF OnScript

\* A stop is applied, too: the run is over and its script is left.
LEMMA StopIsApplied ==
  ASSUME InPlace, Store!TypeOK, NEW r \in Runs,
         NEW status \in {"blocked", "failed"}, WorkerStops(r, status),
         OnScript(r)
  PROVE  /\ StopStep(status) \in Steps
         /\ Store!ApplyTransition(CommandOf(r, StopStep(status)))
         /\ stage'[r] = "stopped" /\ next'[r] = next[r]
<1> DEFINE step == StopStep(status)
<1>1. stage[r] = "working" /\ next[r] = 8
  BY DEF WorkerStops, Move, InPlace, Place
<1>2. step \in Steps
  BY DEF Steps
<1>3. /\ step.from = "running" /\ step.to \in {"needs_human_input",
                                               "worker_failed"}
      /\ Store!HappyPath[8] = "running"
  BY DEF StopStep, Step, Store!HappyPath
<1>4. /\ tasks[r] # None /\ tasks[r].state = step.from
      /\ commandResults[CommandOf(r, step).command_id] = None
  BY <1>1, <1>3 DEF OnScript, Unanswered
<1>5. /\ step.from \in Store!TaskStates \ Store!terminalStates
      /\ step.to \in Store!TaskStates /\ step.to # step.from
  BY <1>3 DEF Store!TaskStates, Store!terminalStates, Store!HappyPath
<1>6. Store!AppendTransition(CommandOf(r, step))
  BY DEF WorkerStops
<1> HIDE DEF step
<1>7. Store!ApplyTransition(CommandOf(r, step))
  BY <1>2, <1>4, <1>5, <1>6, FreshCommandApplies
<1>8. commandResults'[CommandOf(r, step).command_id].ok
  BY <1>2, <1>7, AppliedEffect
<1> QED
  BY <1>2, <1>7, <1>8 DEF WorkerStops, Move, InPlace, step

\* A command of one run leaves the stores of the others alone.
LEMMA OthersAreUntouched ==
  ASSUME Store!TypeOK, NEW r \in Runs, NEW step \in Steps,
         Store!ApplyTransition(CommandOf(r, step)), NEW q \in Runs \ {r}
  PROVE  SameStore(q)
BY AppliedEffect, RunsHaveOwnCommands DEF SameStore

\* Every step keeps every run on its script.
LEMMA OnScriptStep ==
  ASSUME InPlace, Store!TypeOK, NEW q \in Runs, \A r \in Runs : OnScript(r),
         Next
  PROVE  OnScript(q)'
<1>1. ASSUME NEW r \in Runs, Start(r)
      PROVE  OnScript(q)'
  <2>1. CASE q = r
    BY <1>1, <2>1, OnScriptStart
  <2>2. CASE q # r
    <3>1. SameStore(q) /\ next'[q] = next[q] /\ stage'[q] = stage[q]
      BY <1>1, <2>2 DEF Start, Move, Store!PutTaskSnapshot, SameStore,
                        Store!TypeOK, InPlace
    <3> QED
      BY <3>1, OnScriptSame
  <2> QED
    BY <2>1, <2>2
<1>2. ASSUME NEW r \in Runs, MakeTransition(r)
      PROVE  OnScript(q)'
  <2>1. CASE q = r
    BY <1>2, <2>1, OnScriptMove
  <2>2. CASE q # r
    <3>1. next'[q] = next[q] /\ stage'[q] = stage[q]
      BY <1>2, <2>2 DEF MakeTransition, InPlace
    <3>2. SameStore(q)
      BY <1>2, <2>2, ScriptIsApplied, OthersAreUntouched
    <3> QED
      BY <3>1, <3>2, OnScriptSame
  <2> QED
    BY <2>1, <2>2
<1>3. ASSUME NEW r \in Runs, NEW status \in {"blocked", "failed"},
             WorkerStops(r, status)
      PROVE  OnScript(q)'
  <2>1. CASE q = r
    <3>1. stage'[q] = "stopped"
      BY <1>3, <2>1, StopIsApplied
    <3> QED
      BY <3>1 DEF OnScript
  <2>2. CASE q # r
    <3>1. next'[q] = next[q] /\ stage'[q] = stage[q]
      BY <1>3, <2>2 DEF WorkerStops, Move, InPlace
    <3>2. SameStore(q)
      BY <1>3, <2>2, StopIsApplied, OthersAreUntouched
    <3> QED
      BY <3>1, <3>2, OnScriptSame
  <2> QED
    BY <2>1, <2>2
<1>4. ASSUME NEW r \in Runs, UNCHANGED storeVars, next' = next,
             NEW from \in Stages, NEW to \in Stages,
             \/ from = "idle" /\ to = "rejected"
             \/ /\ from \notin {"idle", "rejected", "stopped"}
                /\ to \notin {"idle", "rejected", "refused"},
             stage[r] = from, stage' = [stage EXCEPT ![r] = to]
      PROVE  OnScript(q)'
  <2>1. SameStore(q) /\ next'[q] = next[q]
    BY <1>4 DEF storeVars, SameStore
  <2>2. IF q = r THEN stage[q] = from /\ stage'[q] = to
        ELSE stage'[q] = stage[q]
    BY <1>4 DEF InPlace
  <2> QED
    BY <1>4, <2>1, <2>2, OnScriptSame
<1>5. ASSUME NEW r \in Runs,
             \/ RejectEvent(r) \/ WorkerSucceeds(r) \/ RecordProof(r)
             \/ AskAndGrant(r) \/ AskAgain(r) \/ GhReports(r)
             \/ OpenTemp(r) \/ WriteTemp(r) \/ Rename(r)
      PROVE  OnScript(q)'
  <2>1. CASE RejectEvent(r) \/ WorkerSucceeds(r) \/ RecordProof(r)
             \/ AskAndGrant(r)
    BY <2>1, <1>4 DEF RejectEvent, WorkerSucceeds, RecordProof, AskAndGrant,
                      Move, Stages, Ended
  <2>2. CASE AskAgain(r) \/ GhReports(r)
    BY <2>2, <1>4 DEF AskAgain, GhReports, Move, Stages, Ended
  <2>3. CASE OpenTemp(r) \/ WriteTemp(r) \/ Rename(r)
    BY <2>3, <1>4 DEF OpenTemp, WriteTemp, Rename, Move, Stages, Ended
  <2> QED
    BY <1>5, <2>1, <2>2, <2>3
<1>6. ASSUME NEW r \in Runs,
             \/ FailToWrite(r) \/ ReadBack(r) \/ ReadFails(r)
             \/ Throw(r) \/ Crash(r)
      PROVE  OnScript(q)'
  <2>1. stage[r] \in Stages
    BY DEF InPlace
  <2>2. CASE FailToWrite(r) \/ Throw(r) \/ Crash(r)
    BY <2>1, <2>2, <1>4 DEF FailToWrite, Throw, Crash, Live, Stages, Ended
  <2>3. CASE ReadBack(r) \/ ReadFails(r)
    BY <2>1, <2>3, <1>4 DEF ReadBack, ReadFails, Move, Stages, Ended
  <2> QED
    BY <1>6, <2>2, <2>3
<1>7. ASSUME NEW r \in Runs, GhCreates(r)
      PROVE  OnScript(q)'
  <2>1. SameStore(q) /\ next'[q] = next[q] /\ stage'[q] = stage[q]
    BY <1>7 DEF GhCreates, storeVars, SameStore
  <2> QED
    BY <2>1, OnScriptSame
<1> QED
  BY <1>1, <1>2, <1>3, <1>5, <1>6, <1>7 DEF Next

\* A run that does not make a transition keeps its records, if it recorded
\* what it goes on with.
LEMMA RecordsAreKept ==
  ASSUME InPlace, NEW q \in Runs, HasRecorded(q), next'[q] = next[q],
         granted \subseteq granted', remote \subseteq remote',
         \/ artifacts[q] \subseteq artifacts'[q]
         \/ /\ next[q] = 8 /\ stage[q] # "stepping"
            /\ "final_output" \in artifacts'[q],
         stage'[q] = "stepping" /\ stage[q] # "stepping" =>
           /\ next[q] = 8 => "final_output" \in artifacts'[q]
           /\ next[q] = 12 => q \in granted'
           /\ next[q] = 13 => /\ "pr" \in artifacts'[q]
                              /\ q \in GitHubRuns => q \in remote'
  PROVE  HasRecorded(q)'
<1>1. next[q] \in 1..15
  BY DEF InPlace
<1> QED
  BY <1>1 DEF HasRecorded

\* Every step keeps what the runs have recorded.
LEMMA HasRecordedStep ==
  ASSUME InPlace, NEW q \in Runs, ArtifactsTyped,
         HasRecorded(q), Next
  PROVE  HasRecorded(q)'
<1>1. ASSUME NEW r \in Runs, MakeTransition(r)
      PROVE  HasRecorded(q)'
  <2>1. UNCHANGED <<artifacts, granted, remote>>
    BY <1>1 DEF MakeTransition, prVars
  <2>2. CASE q # r
    <3>1. next'[q] = next[q] /\ stage'[q] = stage[q]
      BY <1>1, <2>2 DEF MakeTransition, InPlace
    <3> QED
      BY <2>1, <3>1 DEF HasRecorded
  <2>3. CASE q = r
    <3>1. stage[q] = "stepping" /\ next[q] \in 1..14 /\ next'[q] = next[q] + 1
      BY <1>1, <2>3 DEF MakeTransition, InPlace, Place
    <3>2. stage'[q] \in {StageAfter(Script[next[q]].to), "refused"}
      BY <1>1, <2>3 DEF MakeTransition, CommandOf, InPlace
    <3> QED
      BY <2>1, <3>1, <3>2, ScriptStages DEF HasRecorded
  <2> QED
    BY <2>2, <2>3
<1>2. ASSUME NEW r \in Runs, next' = next, artifacts' = artifacts,
             granted' = granted, remote' = remote,
             NEW to \in Stages \ {"stepping"},
             stage' = [stage EXCEPT ![r] = to]
      PROVE  HasRecorded(q)'
  <2>1. stage'[q] = "stepping" => stage[q] = "stepping"
    BY <1>2 DEF InPlace
  <2> QED
    BY <1>2, <2>1, RecordsAreKept
<1>3. ASSUME NEW r \in Runs,
             \/ RejectEvent(r) \/ Start(r)
             \/ \E status \in {"blocked", "failed"} : WorkerStops(r, status)
      PROVE  HasRecorded(q)'
  <2>1. CASE Start(r)
    <3>1. next' = next /\ UNCHANGED <<artifacts, granted, remote>>
      BY <2>1 DEF Start, prVars
    <3>2. stage'[q] = "stepping" /\ stage[q] # "stepping" => next[q] = 1
      BY <2>1 DEF Start, Move, InPlace, Place
    <3> QED
      BY <3>1, <3>2, RecordsAreKept
  <2>2. CASE RejectEvent(r)
             \/ \E status \in {"blocked", "failed"} : WorkerStops(r, status)
    BY <2>2, <1>2 DEF RejectEvent, WorkerStops, Move, prVars, Stages, Ended
  <2> QED
    BY <1>3, <2>1, <2>2
<1>4. ASSUME NEW r \in Runs, WorkerSucceeds(r) \/ RecordProof(r)
      PROVE  HasRecorded(q)'
  <2>1. next' = next /\ granted' = granted /\ remote' = remote
    BY <1>4 DEF WorkerSucceeds, RecordProof, prVars
  <2>2. \/ artifacts'[q] = artifacts[q]
        \/ /\ next[q] = 8 /\ stage[q] # "stepping"
           /\ "final_output" \in artifacts'[q]
    BY <1>4 DEF WorkerSucceeds, RecordProof, Move, ArtifactsTyped, InPlace,
                Place
  <2>3. stage'[q] = "stepping" /\ stage[q] # "stepping" =>
          \/ next[q] = 8 /\ "final_output" \in artifacts'[q]
          \/ next[q] = 11
    BY <1>4 DEF WorkerSucceeds, RecordProof, Move, ArtifactsTyped, InPlace,
                Place
  <2> QED
    BY <2>1, <2>2, <2>3, RecordsAreKept
<1>5. ASSUME NEW r \in Runs, AskAndGrant(r)
      PROVE  HasRecorded(q)'
  <2>1. /\ next' = next /\ artifacts' = artifacts /\ remote' = remote
        /\ granted \subseteq granted'
    BY <1>5 DEF AskAndGrant
  <2>2. stage'[q] = "stepping" /\ stage[q] # "stepping" =>
          next[q] = 12 /\ q \in granted'
    BY <1>5 DEF AskAndGrant, Move, InPlace, Place
  <2> QED
    BY <2>1, <2>2, RecordsAreKept
<1>6. ASSUME NEW r \in Runs, AskAgain(r) \/ GhReports(r)
      PROVE  HasRecorded(q)'
  <2>1. /\ next' = next /\ remote' = remote /\ granted' = granted
        /\ artifacts[q] \subseteq artifacts'[q]
    BY <1>6 DEF AskAgain, GhReports, ArtifactsTyped
  <2>2. stage'[q] = "stepping" /\ stage[q] # "stepping" =>
          /\ next[q] = 13 /\ "pr" \in artifacts'[q]
          /\ q \in GitHubRuns => q \in remote
    <3>1. CASE AskAgain(r)
      BY <3>1 DEF AskAgain, Move, InPlace, Place, ArtifactsTyped
    <3>2. CASE GhReports(r)
      BY <3>2 DEF GhReports, Move, InPlace, Place, ArtifactsTyped
    <3> QED
      BY <1>6, <3>1, <3>2
  <2> QED
    BY <2>1, <2>2, RecordsAreKept
<1>7. ASSUME NEW r \in Runs,
             \/ OpenTemp(r) \/ WriteTemp(r) \/ Rename(r) \/ FailToWrite(r)
             \/ ReadBack(r) \/ ReadFails(r) \/ Throw(r) \/ Crash(r)
      PROVE  HasRecorded(q)'
  <2>1. CASE OpenTemp(r) \/ WriteTemp(r) \/ Rename(r) \/ FailToWrite(r)
    BY <2>1, <1>2 DEF OpenTemp, WriteTemp, Rename, FailToWrite, Move, prVars,
                      Stages, Ended
  <2>2. CASE ReadBack(r) \/ ReadFails(r) \/ Throw(r) \/ Crash(r)
    BY <2>2, <1>2 DEF ReadBack, ReadFails, Throw, Crash, Move, prVars, Stages,
                      Ended
  <2> QED
    BY <1>7, <2>1, <2>2
<1>8. ASSUME NEW r \in Runs, GhCreates(r)
      PROVE  HasRecorded(q)'
  BY <1>8 DEF GhCreates, HasRecorded
<1> QED
  BY <1>1, <1>3, <1>4, <1>5, <1>6, <1>7, <1>8 DEF Next

\* No step records another kind of artifact.
LEMMA ArtifactsStep == ArtifactsTyped /\ [Next]_vars => ArtifactsTyped'
<1> SUFFICES ASSUME ArtifactsTyped, [Next]_vars PROVE ArtifactsTyped'
  OBVIOUS
<1>1. ASSUME NEW r \in Runs,
             WorkerSucceeds(r) \/ AskAgain(r) \/ GhReports(r)
      PROVE  ArtifactsTyped'
  BY <1>1 DEF WorkerSucceeds, AskAgain, GhReports, ArtifactsTyped
<1>2. CASE UNCHANGED artifacts
  BY <1>2 DEF ArtifactsTyped
<1>3. ASSUME NEW r \in Runs,
             \/ RejectEvent(r) \/ Start(r) \/ MakeTransition(r)
             \/ \E status \in {"blocked", "failed"} : WorkerStops(r, status)
             \/ RecordProof(r) \/ AskAndGrant(r) \/ GhCreates(r)
             \/ OpenTemp(r) \/ WriteTemp(r) \/ Rename(r) \/ FailToWrite(r)
             \/ ReadBack(r) \/ ReadFails(r) \/ Throw(r) \/ Crash(r)
      PROVE  UNCHANGED artifacts
  BY <1>3 DEF RejectEvent, Start, MakeTransition, WorkerStops, RecordProof,
              AskAndGrant, GhCreates, OpenTemp, WriteTemp, Rename,
              FailToWrite, ReadBack, ReadFails, Throw, Crash
<1> QED
  BY <1>1, <1>2, <1>3 DEF Next, vars

\* The stores and the recorders of the runs always hold what the script put
\* there.
LEMMA AlwaysOnScript == Spec => [](ArtifactsTyped /\ StoresOnScript)
<1>1. Init => ArtifactsTyped /\ StoresOnScript
  <2> SUFFICES ASSUME Init, NEW r \in Runs PROVE OnScript(r) /\ HasRecorded(r)
    BY DEF Init, ArtifactsTyped, StoresOnScript
  <2>1. /\ stage[r] = "idle" /\ next[r] = 1
        /\ tasks[r] = None /\ recordsByTask[r] = << >>
    BY DEF Init, Store!Init
  <2>2. \A step \in Steps :
          commandResults[CommandOf(r, step).command_id] = None
    BY DEF Init, Store!Init, RunCommands
  <2>3. Unanswered(r, 1)
    BY <2>2, ScriptWalksPath DEF Unanswered, Steps
  <2> QED
    BY <2>1, <2>3 DEF OnScript, HasRecorded
<1>2. InPlace /\ Store!TypeOK /\ ArtifactsTyped /\ StoresOnScript
        /\ [Next]_vars => (ArtifactsTyped /\ StoresOnScript)'
  <2> SUFFICES ASSUME InPlace, Store!TypeOK, ArtifactsTyped, StoresOnScript,
                      [Next]_vars
               PROVE  (ArtifactsTyped /\ StoresOnScript)'
    OBVIOUS
  <2>1. ASSUME Next, NEW q \in Runs
        PROVE  OnScript(q)' /\ HasRecorded(q)'
    <3> QED
      BY <2>1, OnScriptStep, HasRecordedStep DEF StoresOnScript
  <2>2. CASE UNCHANGED vars
    <3>1. ASSUME NEW q \in Runs
          PROVE  OnScript(q)' /\ HasRecorded(q)'
      <4>1. SameStore(q) /\ next'[q] = next[q] /\ stage'[q] = stage[q]
        BY <2>2 DEF vars, storeVars, SameStore
      <4>2. OnScript(q)'
        BY <4>1, OnScriptSame DEF StoresOnScript
      <4> QED
        BY <2>2, <4>2 DEF vars, prVars, StoresOnScript, HasRecorded
    <3> QED
      BY <3>1, ArtifactsStep DEF StoresOnScript
  <2> QED
    BY <2>1, <2>2, ArtifactsStep DEF StoresOnScript
<1> QED
  BY <1>1, <1>2, AlwaysInPlace, StoreTypeCorrect, PTL DEF Spec

\* The script of the orchestrator fits the contract table: whatever the runs
\* do, no call of transition() throws.
THEOREM NoRunIsRefused == Spec => []NoTransitionIsRefused
<1>1. StoresOnScript => NoTransitionIsRefused
  BY DEF StoresOnScript, OnScript, NoTransitionIsRefused
<1> QED
  BY <1>1, AlwaysOnScript, PTL

-----------------------------------------------------------------------------
(* What the runs leave on GitHub.                                          *)

\* Nothing is listed or created that was not granted, and a target is taken
\* once.
PrsInOrder ==
  /\ granted \subseteq Runs /\ prs \subseteq granted /\ remote \subseteq granted
  /\ \A r, q \in remote : r # q => eventOf[r] # eventOf[q]

\* Every step keeps that.
LEMMA PrsStep ==
  ASSUME InPlace, StoresOnScript, PrsInOrder, [Next]_vars
  PROVE  PrsInOrder'
<1>1. ASSUME NEW r \in Runs, GhCreates(r)
      PROVE  PrsInOrder'
  <2>1. r \in granted
    BY <1>1 DEF GhCreates, InPlace, Place, StoresOnScript, HasRecorded
  <2>2. \A q \in remote : eventOf[q] # eventOf[r]
    BY <1>1 DEF GhCreates, PullRequestTarget, contextRunId
  <2> QED
    BY <1>1, <2>1, <2>2 DEF GhCreates, PrsInOrder
<1>2. ASSUME NEW r \in Runs, AskAndGrant(r) \/ AskAgain(r) \/ GhReports(r)
      PROVE  PrsInOrder'
  BY <1>2 DEF AskAndGrant, AskAgain, GhReports, PrsInOrder
<1>3. CASE UNCHANGED prVars
  BY <1>3 DEF prVars, PrsInOrder
<1>4. ASSUME NEW r \in Runs,
             \/ RejectEvent(r) \/ Start(r) \/ MakeTransition(r)
             \/ \E status \in {"blocked", "failed"} : WorkerStops(r, status)
             \/ WorkerSucceeds(r) \/ RecordProof(r)
             \/ OpenTemp(r) \/ WriteTemp(r) \/ Rename(r) \/ FailToWrite(r)
             \/ ReadBack(r) \/ ReadFails(r) \/ Throw(r) \/ Crash(r)
      PROVE  UNCHANGED prVars
  BY <1>4 DEF RejectEvent, Start, MakeTransition, WorkerStops, WorkerSucceeds,
              RecordProof, OpenTemp, WriteTemp, Rename, FailToWrite, ReadBack,
              ReadFails, Throw, Crash
<1> QED
  BY <1>1, <1>2, <1>3, <1>4 DEF Next, vars

\* GitHub's pull requests are always in order.
LEMMA PrsAlwaysInOrder == Spec => []PrsInOrder
<1>1. Init => PrsInOrder
  BY DEF Init, PrsInOrder
<1>2. InPlace /\ StoresOnScript /\ PrsInOrder /\ [Next]_vars => PrsInOrder'
  BY PrsStep
<1> QED
  BY <1>1, <1>2, AlwaysInPlace, AlwaysOnScript, PTL DEF Spec

\* However often the runs for an event crash, throw and are repeated, the
\* event gets one pull request, and the run that returns is the one that made
\* it.
THEOREM EventHasOnePr == Spec => []OnePrPerEvent
<1>1. InPlace /\ StoresOnScript /\ PrsInOrder => OnePrPerEvent
  <2> SUFFICES ASSUME InPlace, StoresOnScript, PrsInOrder PROVE OnePrPerEvent
    OBVIOUS
  <2>1. ASSUME NEW r \in GitHubRuns, stage[r] = "done"
        PROVE  r \in remote
    <3>1. r \in Runs
      BY RunAssumption DEF RunAssumption
    <3>2. next[r] = 15
      BY <2>1, <3>1 DEF InPlace, Place
    <3> QED
      BY <3>1, <3>2 DEF StoresOnScript, HasRecorded
  <2> QED
    BY <2>1 DEF PrsInOrder, OnePrPerEvent
<1> QED
  BY <1>1, AlwaysInPlace, AlwaysOnScript, PrsAlwaysInOrder, PTL

-----------------------------------------------------------------------------
(* What a run exports.                                                     *)

\* The snapshot of a run that made all its transitions.
LEMMA ExportOfWholeRun ==
  ASSUME InPlace, Store!TypeOK, ArtifactsTyped, StoresOnScript,
         NEW q \in Runs, next[q] = 15
  PROVE  /\ Export(q) \in RuntimeStoreSnapshot /\ Export(q) # None
         /\ tasks[q].state = "completed" /\ FewRefs(tasks[q])
         /\ Export(q).transitions \in Seq(Store!Transition)
         /\ Len(Export(q).transitions) = 14
         /\ \A i \in 1..14 :
              Export(q).transitions[i] = CommandOf(q, Script[i]).transition
         /\ {"final_output", "pr"} \subseteq artifacts[q]
         /\ q \in GitHubRuns => q \in remote
<1>1. stage[q] \notin {"idle", "rejected", "stopped"}
  BY DEF InPlace, Place
<1>2. /\ tasks[q] # None /\ tasks[q].state = Store!HappyPath[15]
      /\ FewRefs(tasks[q]) /\ Len(recordsByTask[q]) = 14
      /\ \A i \in 1..14 : recordsByTask[q][i].transition
                            = CommandOf(q, Script[i]).transition
  <2>1. /\ tasks[q] # None /\ tasks[q].state = Store!HappyPath[next[q]]
        /\ FewRefs(tasks[q]) /\ Len(recordsByTask[q]) = next[q] - 1
        /\ \A i \in 1..next[q] - 1 : recordsByTask[q][i].transition
                                     = CommandOf(q, Script[i]).transition
    BY <1>1 DEF StoresOnScript, OnScript
  <2> QED
    BY <2>1
<1>3. tasks[q] \in Store!Snapshot /\ Store!HappyPath[15] = "completed"
  BY <1>2 DEF Store!TypeOK, Store!HappyPath
<1>4. recordsByTask[q] \in Seq(Store!TransitionRecord)
  BY DEF Store!TypeOK
<1>5. DOMAIN recordsByTask[q] = 1..14
  BY <1>2, <1>4, LenProperties
<1> DEFINE made == [i \in 1..14 |-> recordsByTask[q][i].transition]
<1>6. made \in Seq(Store!Transition) /\ Len(made) = 14
  <2>1. \A i \in 1..14 : recordsByTask[q][i] \in Store!TransitionRecord
    BY <1>4, <1>5
  <2>2. \A i \in 1..14 : recordsByTask[q][i].transition \in Store!Transition
    BY <2>1 DEF Store!TransitionRecord
  <2> QED
    BY <2>2
<1>7. \A i \in 1..14 : made[i] = CommandOf(q, Script[i]).transition
  BY <1>2
<1>8. Export(q) = [run |-> q, task |-> tasks[q], transitions |-> made,
                   proof_refs |-> {"proof"}, approval_refs |-> {"approval"},
                   artifact_refs |-> artifacts[q]]
  BY <1>5 DEF Export
<1> HIDE DEF made
<1>9. Export(q) \in RuntimeStoreSnapshot
  BY <1>3, <1>6, <1>8 DEF RuntimeStoreSnapshot, ArtifactsTyped
<1>10. Export(q) # None
  BY <1>9, NoneAssumption DEF NoneAssumption
<1>11. /\ {"final_output", "pr"} \subseteq artifacts[q]
       /\ q \in GitHubRuns => q \in remote
  BY DEF StoresOnScript, HasRecorded
<1> QED
  BY <1>2, <1>3, <1>6, <1>7, <1>8, <1>9, <1>10, <1>11

\* It does not change any more.
LEMMA ExportIsFinal ==
  ASSUME InPlace, Store!TypeOK, ArtifactsTyped, StoresOnScript, [Next]_vars,
         NEW q \in Runs, next[q] = 15
  PROVE  next'[q] = 15 /\ Export(q)' = Export(q)
<1>1. SUFFICES /\ next'[q] = 15 /\ tasks'[q] = tasks[q]
               /\ recordsByTask'[q] = recordsByTask[q]
               /\ artifacts'[q] = artifacts[q]
  BY DEF Export
<1>2. ASSUME NEW r \in Runs, MakeTransition(r)
      PROVE  /\ next'[q] = 15 /\ SameStore(q) /\ artifacts' = artifacts
  <2>1. r # q
    BY <1>2 DEF MakeTransition, InPlace, Place
  <2>2. SameStore(q)
    BY <1>2, <2>1, ScriptIsApplied, OthersAreUntouched DEF StoresOnScript
  <2> QED
    BY <1>2, <2>1, <2>2 DEF MakeTransition, InPlace
<1>3. ASSUME NEW r \in Runs, NEW status \in {"blocked", "failed"},
             WorkerStops(r, status)
      PROVE  /\ next'[q] = 15 /\ SameStore(q) /\ artifacts' = artifacts
  <2>1. r # q
    BY <1>3 DEF WorkerStops, Move, InPlace, Place
  <2>2. SameStore(q)
    BY <1>3, <2>1, StopIsApplied, OthersAreUntouched DEF StoresOnScript
  <2> QED
    BY <1>3, <2>2 DEF WorkerStops
<1>4. ASSUME NEW r \in Runs, Start(r)
      PROVE  /\ next'[q] = 15 /\ tasks'[q] = tasks[q]
             /\ recordsByTask' = recordsByTask /\ artifacts' = artifacts
  <2>1. r # q
    BY <1>4 DEF Start, Move, InPlace, Place
  <2> QED
    BY <1>4, <2>1 DEF Start, Store!PutTaskSnapshot, Store!TypeOK
<1>5. ASSUME NEW r \in Runs,
             WorkerSucceeds(r) \/ AskAgain(r) \/ GhReports(r)
      PROVE  /\ UNCHANGED storeVars /\ next' = next
             /\ artifacts'[q] = artifacts[q]
  <2>1. r # q
    BY <1>5 DEF WorkerSucceeds, AskAgain, GhReports, Move, InPlace, Place
  <2> QED
    BY <1>5, <2>1 DEF WorkerSucceeds, AskAgain, GhReports, ArtifactsTyped
<1>6. ASSUME NEW r \in Runs,
             \/ RejectEvent(r) \/ RecordProof(r) \/ AskAndGrant(r)
             \/ GhCreates(r)
             \/ OpenTemp(r) \/ WriteTemp(r) \/ Rename(r) \/ FailToWrite(r)
             \/ ReadBack(r) \/ ReadFails(r) \/ Throw(r) \/ Crash(r)
      PROVE  UNCHANGED <<storeVars, next, artifacts>>
  BY <1>6 DEF RejectEvent, RecordProof, AskAndGrant, GhCreates, OpenTemp,
              WriteTemp, Rename, FailToWrite, ReadBack, ReadFails, Throw,
              Crash
<1>7. CASE UNCHANGED vars
  BY <1>7 DEF vars, storeVars
<1> QED
  BY <1>2, <1>3, <1>4, <1>5, <1>6, <1>7 DEF Next, storeVars, SameStore

-----------------------------------------------------------------------------
(* What the files hold, whoever writes to them.                            *)

\* Names and descriptors are inodes, which are named after the runs that made
\* them.
FilesTyped ==
  /\ file \in [Paths -> Runs \cup {None}]
  /\ temp \in [Paths -> Runs \cup {None}]
  /\ fd \in [Runs -> Runs \cup {None}]
  /\ DOMAIN content = Runs /\ DOMAIN read = Runs
  /\ content = [r \in Runs |-> content[r]]
  /\ read = [r \in Runs |-> read[r]]

\* Every step keeps the kinds of what the files are made of.
LEMMA FilesTypedStep == FilesTyped /\ [Next]_vars => FilesTyped'
<1> SUFFICES ASSUME FilesTyped, [Next]_vars PROVE FilesTyped'
  OBVIOUS
<1>1. \A r \in Runs : Path(r) \in Paths
  BY RunAssumption DEF RunAssumption, Path
<1>2. ASSUME NEW r \in Runs, OpenTemp(r)
      PROVE  FilesTyped'
  BY <1>1, <1>2 DEF OpenTemp, FilesTyped
<1>3. ASSUME NEW r \in Runs, WriteTemp(r)
      PROVE  FilesTyped'
  BY <1>3 DEF WriteTemp, FilesTyped
<1>4. ASSUME NEW r \in Runs, Rename(r) \/ FailToWrite(r)
      PROVE  FilesTyped'
  BY <1>1, <1>4 DEF Rename, FailToWrite, FilesTyped
<1>5. ASSUME NEW r \in Runs, ReadBack(r)
      PROVE  FilesTyped'
  BY <1>5 DEF ReadBack, FilesTyped
<1>6. CASE UNCHANGED fileVars
  BY <1>6 DEF fileVars, FilesTyped
<1>7. ASSUME NEW r \in Runs,
             \/ RejectEvent(r) \/ Start(r) \/ MakeTransition(r)
             \/ \E status \in {"blocked", "failed"} : WorkerStops(r, status)
             \/ WorkerSucceeds(r) \/ RecordProof(r) \/ AskAndGrant(r)
             \/ AskAgain(r) \/ GhCreates(r) \/ GhReports(r)
             \/ ReadFails(r) \/ Throw(r) \/ Crash(r)
      PROVE  UNCHANGED fileVars
  BY <1>7 DEF RejectEvent, Start, MakeTransition, WorkerStops, WorkerSucceeds,
              RecordProof, AskAndGrant, AskAgain, GhCreates, GhReports,
              ReadFails, Throw, Crash
<1> QED
  BY <1>2, <1>3, <1>4, <1>5, <1>6, <1>7 DEF Next, vars

\* Bytes are those of a run that completed its script.
IsWhole(bytes) == \E q \in Runs : next[q] = 15 /\ bytes = Export(q)

\* What an inode or a run has got is one whole snapshot, or nothing.
WholeContent ==
  /\ \A r \in Runs : content[r] # None => IsWhole(content[r])
  /\ \A r \in Runs : read[r] # None => IsWhole(read[r])
  /\ \A r \in Runs : stage[r] = "done" => read[r] # None

\* Every step keeps that, because a snapshot is exported when the run has
\* made all of its transitions and does not change its store any more.
LEMMA WholeContentStep ==
  ASSUME InPlace, Store!TypeOK, ArtifactsTyped, StoresOnScript, FilesTyped,
         WholeContent, [Next]_vars
  PROVE  WholeContent'
<1>1. ASSUME NEW bytes, IsWhole(bytes)
      PROVE  \E q \in Runs : next'[q] = 15 /\ bytes = Export(q)'
  BY <1>1, ExportIsFinal DEF IsWhole
<1>2. ASSUME NEW x \in Runs, content'[x] # None,
             \/ IsWhole(content'[x])
             \/ content'[x] = content[x]
      PROVE  IsWhole(content[x])'
  <2>1. IsWhole(content'[x])
    BY <1>2 DEF WholeContent
  <2> QED
    BY <1>1, <2>1 DEF IsWhole
<1>3. ASSUME NEW x \in Runs, read'[x] # None,
             \/ IsWhole(read'[x])
             \/ read'[x] = read[x]
      PROVE  IsWhole(read[x])'
  <2>1. IsWhole(read'[x])
    BY <1>3 DEF WholeContent
  <2> QED
    BY <1>1, <2>1 DEF IsWhole
<1>4. ASSUME NEW r \in Runs, OpenTemp(r)
      PROVE  WholeContent'
  <2>1. \A x \in Runs : content'[x] \in {None, content[x]}
    BY <1>4 DEF OpenTemp, FilesTyped
  <2>2. \A x \in Runs : stage'[x] = "done" => stage[x] = "done"
    BY <1>4 DEF OpenTemp, Move, InPlace
  <2>3. read' = read
    BY <1>4 DEF OpenTemp
  <2> QED
    BY <1>2, <1>3, <2>1, <2>2, <2>3 DEF WholeContent
<1>5. ASSUME NEW r \in Runs, WriteTemp(r)
      PROVE  WholeContent'
  <2>1. IsWhole(Export(r))
    BY <1>5 DEF WriteTemp, Move, InPlace, Place, IsWhole
  <2>2. \A x \in Runs : content'[x] \in {None, content[x], Export(r)}
    BY <1>5 DEF WriteTemp, FilesTyped
  <2>3. \A x \in Runs : stage'[x] = "done" => stage[x] = "done"
    BY <1>5 DEF WriteTemp, Move, InPlace
  <2>4. read' = read
    BY <1>5 DEF WriteTemp
  <2> QED
    BY <1>2, <1>3, <2>1, <2>2, <2>3, <2>4 DEF WholeContent
<1>6. ASSUME NEW r \in Runs, ReadBack(r)
      PROVE  WholeContent'
  <2> DEFINE bytes == IF file[Path(r)] = None THEN None
                      ELSE content[file[Path(r)]]
  <2>1. Path(r) \in Paths
    BY RunAssumption DEF RunAssumption, Path
  <2>2. bytes = None \/ IsWhole(bytes)
    BY <2>1 DEF FilesTyped, WholeContent
  <2>3. /\ content' = content
        /\ \A x \in Runs : read'[x] = IF x = r THEN bytes ELSE read[x]
        /\ \A x \in Runs : stage'[x] = "done" =>
             IF x = r THEN bytes # None ELSE stage[x] = "done"
    BY <1>6 DEF ReadBack, Move, IsValid, FilesTyped, InPlace
  <2> HIDE DEF bytes
  <2> QED
    BY <1>2, <1>3, <2>2, <2>3 DEF WholeContent
<1>7. ASSUME content' = content, read' = read,
             \A x \in Runs : stage'[x] = "done" => stage[x] = "done"
      PROVE  WholeContent'
  BY <1>2, <1>3, <1>7 DEF WholeContent
<1>8. ASSUME NEW r \in Runs,
             \/ RejectEvent(r) \/ Start(r)
             \/ \E status \in {"blocked", "failed"} : WorkerStops(r, status)
             \/ WorkerSucceeds(r) \/ RecordProof(r) \/ AskAndGrant(r)
      PROVE  WholeContent'
  BY <1>7, <1>8 DEF RejectEvent, Start, WorkerStops, WorkerSucceeds,
                    RecordProof, AskAndGrant, Move, fileVars, InPlace
<1>9. ASSUME NEW r \in Runs,
             \/ AskAgain(r) \/ GhCreates(r) \/ GhReports(r) \/ Rename(r)
             \/ FailToWrite(r) \/ ReadFails(r) \/ Throw(r) \/ Crash(r)
      PROVE  WholeContent'
  BY <1>7, <1>9 DEF AskAgain, GhCreates, GhReports, Rename, FailToWrite,
                    ReadFails, Throw, Crash, Move, fileVars, InPlace
<1>10. ASSUME NEW r \in Runs, MakeTransition(r)
       PROVE  WholeContent'
  <2>1. /\ next[r] \in 1..14
        /\ stage'[r] \in {StageAfter(Script[next[r]].to), "refused"}
    BY <1>10 DEF MakeTransition, CommandOf, InPlace, Place
  <2>2. stage'[r] # "done"
    BY <2>1, ScriptStages
  <2> QED
    BY <1>7, <1>10, <2>2 DEF MakeTransition, fileVars, InPlace
<1>11. CASE UNCHANGED vars
  BY <1>7, <1>11 DEF vars, fileVars
<1> QED
  BY <1>4, <1>5, <1>6, <1>8, <1>9, <1>10, <1>11 DEF Next

\* The inodes, and what the runs have read, are always whole.
LEMMA AlwaysWhole == Spec => [](FilesTyped /\ WholeContent)
<1>1. Init => FilesTyped /\ WholeContent
  BY DEF Init, FilesTyped, WholeContent
<1>2. InPlace /\ Store!TypeOK /\ ArtifactsTyped /\ StoresOnScript
        /\ FilesTyped /\ WholeContent /\ [Next]_vars
        => (FilesTyped /\ WholeContent)'
  BY FilesTypedStep, WholeContentStep
<1> QED
  BY <1>1, <1>2, AlwaysInPlace, StoreTypeCorrect, AlwaysOnScript, PTL DEF Spec

\* The types of OrchestratorRun, and that nothing but exported snapshots ever
\* gets into a file or out of one.
THEOREM TypesAreCorrect == Spec => []TypeOK
<1>1. InPlace /\ Store!TypeOK /\ ArtifactsTyped /\ StoresOnScript /\ PrsInOrder
        /\ FilesTyped /\ WholeContent => TypeOK
  BY ScriptWalksPath
     DEF InPlace, Stages, ArtifactsTyped, PrsInOrder, FilesTyped,
         WholeContent, IsWhole, TypeOK
<1> QED
  BY <1>1, AlwaysInPlace, StoreTypeCorrect, AlwaysOnScript, PrsAlwaysInOrder,
     AlwaysWhole, PTL

\* Whatever the writers of one path do to one another, a run returns only
\* with a whole snapshot of a completed task.
THEOREM WholeSnapshotIsReturned == Spec => []ReturnsWholeSnapshot
<1>1. InPlace /\ Store!TypeOK /\ ArtifactsTyped /\ StoresOnScript
        /\ WholeContent => ReturnsWholeSnapshot
  <2> SUFFICES ASSUME InPlace, Store!TypeOK, ArtifactsTyped, StoresOnScript,
                      WholeContent, NEW r \in Runs, stage[r] = "done"
               PROVE  read[r] # None /\ read[r].task.state = "completed"
    BY DEF ReturnsWholeSnapshot
  <2>1. PICK q \in Runs : next[q] = 15 /\ read[r] = Export(q)
    BY DEF WholeContent, IsWhole
  <2>2. tasks[q].state = "completed" /\ Export(q) # None
    BY <2>1, ExportOfWholeRun
  <2>3. Export(q).task = tasks[q]
    BY DEF Export
  <2> QED
    BY <2>1, <2>2, <2>3
<1> QED
  BY <1>1, AlwaysInPlace, StoreTypeCorrect, AlwaysOnScript, AlwaysWhole, PTL

\* Every snapshot in a file holds the records its task and its transitions
\* refer to.
THEOREM SnapshotsAreClosed == Spec => []SnapshotIsClosed
<1>1. InPlace /\ Store!TypeOK /\ ArtifactsTyped /\ StoresOnScript
        /\ WholeContent => SnapshotIsClosed
  <2> SUFFICES ASSUME InPlace, Store!TypeOK, ArtifactsTyped, StoresOnScript,
                      WholeContent, NEW r \in Runs, content[r] # None
               PROVE  LET bytes == content[r]
                          Refs(field) == {bytes.transitions[i][field] :
                                            i \in DOMAIN bytes.transitions}
                                         \ {None}
                      IN  /\ bytes.task.artifact_refs \cup Refs("artifact_ref")
                               \subseteq bytes.artifact_refs
                          /\ bytes.task.proof_refs \cup Refs("proof_ref")
                               \subseteq bytes.proof_refs
                          /\ bytes.task.approval_refs \cup Refs("approval_ref")
                               \subseteq bytes.approval_refs
    BY DEF SnapshotIsClosed
  <2>1. PICK q \in Runs : next[q] = 15 /\ content[r] = Export(q)
    BY DEF WholeContent, IsWhole
  <2> DEFINE bytes == Export(q)
  <2>2. /\ bytes.task = tasks[q] /\ bytes.artifact_refs = artifacts[q]
        /\ bytes.proof_refs = {"proof"} /\ bytes.approval_refs = {"approval"}
    BY DEF Export
  <2>3. /\ FewRefs(tasks[q]) /\ {"final_output", "pr"} \subseteq artifacts[q]
        /\ bytes.transitions \in Seq(Store!Transition)
        /\ Len(bytes.transitions) = 14
        /\ \A i \in 1..14 : bytes.transitions[i]
                              = CommandOf(q, Script[i]).transition
    BY <2>1, ExportOfWholeRun
  <2> HIDE DEF bytes
  <2>4. DOMAIN bytes.transitions = 1..14
    BY <2>3, LenProperties
  <2>5. ASSUME NEW i \in 1..14
        PROVE  /\ bytes.transitions[i]["artifact_ref"]
                    \in {"final_output", "pr", None}
               /\ bytes.transitions[i]["proof_ref"] \in {"proof", None}
               /\ bytes.transitions[i]["approval_ref"] \in {"approval", None}
    <3> DEFINE tr == CommandOf(q, Script[i]).transition
    <3>1. /\ tr["artifact_ref"] = Script[i].artifact_ref
          /\ tr["proof_ref"] = Script[i].proof_ref
          /\ tr["approval_ref"] = Script[i].approval_ref
      BY DEF CommandOf
    <3> HIDE DEF tr
    <3>2. bytes.transitions[i] = tr
      BY <2>3 DEF tr
    <3> QED
      BY <3>1, <3>2, ScriptTypes
  <2>6. /\ {bytes.transitions[i]["artifact_ref"] :
                i \in DOMAIN bytes.transitions} \ {None}
               \subseteq {"final_output", "pr"}
        /\ {bytes.transitions[i]["proof_ref"] :
                i \in DOMAIN bytes.transitions} \ {None} \subseteq {"proof"}
        /\ {bytes.transitions[i]["approval_ref"] :
                i \in DOMAIN bytes.transitions} \ {None}
               \subseteq {"approval"}
    BY <2>4, <2>5
  <2>7. /\ bytes.task.artifact_refs \subseteq {"final_output", "pr"}
        /\ bytes.task.proof_refs \subseteq {"proof"}
        /\ bytes.task.approval_refs \subseteq {"approval"}
    BY <2>2, <2>3 DEF FewRefs
  <2>8. /\ {"final_output", "pr"} \subseteq bytes.artifact_refs
        /\ {"proof"} \subseteq bytes.proof_refs
        /\ {"approval"} \subseteq bytes.approval_refs
    BY <2>2, <2>3
  <2>9. content[r] = bytes
    BY <2>1 DEF bytes
  <2> DEFINE Refs(field) == {bytes.transitions[i][field] :
                               i \in DOMAIN bytes.transitions} \ {None}
  <2>10. /\ Refs("artifact_ref") \subseteq {"final_output", "pr"}
         /\ Refs("proof_ref") \subseteq {"proof"}
         /\ Refs("approval_ref") \subseteq {"approval"}
    BY <2>6
  <2>11. /\ bytes.task.artifact_refs \cup Refs("artifact_ref")
              \subseteq bytes.artifact_refs
         /\ bytes.task.proof_refs \cup Refs("proof_ref")
              \subseteq bytes.proof_refs
         /\ bytes.task.approval_refs \cup Refs("approval_ref")
              \subseteq bytes.approval_refs
    <3> HIDE DEF Refs
    <3> QED
      BY <2>7, <2>8, <2>10
  <2> QED
    BY <2>9, <2>11, Zenon
<1> QED
  BY <1>1, AlwaysInPlace, StoreTypeCorrect, AlwaysOnScript, AlwaysWhole, PTL

-----------------------------------------------------------------------------
(* One writer at a time: the file at a path tells the truth.               *)

\* The stages of a run that may have created an inode
Opened == {"writing", "renaming", "reading", "done", "threw", "crashed"}

\* With one writer at a time, an inode has one name, and the writer of a path
\* is at the inode it opened.
InodesAreOwn ==
  /\ \A r, q \in Runs : Live(r) /\ Live(q) /\ Path(r) = Path(q) => r = q
  /\ \A p \in Paths, x \in Runs : x \in {file[p], temp[p]} =>
       Path(x) = p /\ stage[x] \in Opened
  /\ \A p \in Paths : file[p] # None => file[p] # temp[p]

\* A writer is at its own, still empty, inode; from its rename on the file at
\* its path holds its export, and that is what it reads back.
WriterAtWork(r) ==
  /\ stage[r] \in {"writing", "renaming"} =>
       fd[r] # None /\ fd[r] = temp[Path(r)]
  /\ stage[r] = "writing" => content[fd[r]] = None
  /\ stage[r] = "renaming" => content[fd[r]] = Export(r)
  /\ stage[r] = "reading" =>
       file[Path(r)] # None /\ content[file[Path(r)]] = Export(r)
  /\ stage[r] = "done" => read[r] = Export(r)

\* With one writer at a time: the above, and a file is never empty.
FilesInOrder ==
  SingleWriter =>
    /\ InodesAreOwn
    /\ \A r \in Runs : WriterAtWork(r)
    /\ \A p \in Paths : file[p] # None => content[file[p]] # None

\* What the step lemmas start from
Ready ==
  /\ InPlace /\ Store!TypeOK /\ ArtifactsTyped /\ StoresOnScript
  /\ FilesTyped /\ FilesInOrder /\ SingleWriter

\* Two names of one inode are the same name.
LEMMA NamesAreApart ==
  ASSUME FilesTyped, InodesAreOwn, NEW p1 \in Paths, NEW p2 \in Paths,
         temp[p1] # None
  PROVE  /\ temp[p1] \in Runs /\ Path(temp[p1]) = p1
         /\ file[p2] # temp[p1]
         /\ temp[p2] = temp[p1] => p2 = p1
BY DEF FilesTyped, InodesAreOwn

\* What a step leaves alone of the run and of the path of another run
Apart(q) ==
  /\ stage'[q] = stage[q] /\ fd'[q] = fd[q] /\ read'[q] = read[q]
  /\ file'[Path(q)] = file[Path(q)] /\ temp'[Path(q)] = temp[Path(q)]
  /\ stage[q] \in {"writing", "renaming"} => content'[fd[q]] = content[fd[q]]
  /\ stage[q] = "reading" /\ file[Path(q)] # None =>
       content'[file[Path(q)]] = content[file[Path(q)]]

\* A run that is left alone goes on being at work where it was.
LEMMA ApartStaysAtWork ==
  ASSUME InPlace, Store!TypeOK, ArtifactsTyped, StoresOnScript, [Next]_vars,
         NEW q \in Runs, Apart(q), WriterAtWork(q)
  PROVE  WriterAtWork(q)'
<1>1. stage[q] \in {"renaming", "reading", "done"} => Export(q)' = Export(q)
  BY ExportIsFinal DEF InPlace, Place
<1> QED
  BY <1>1 DEF Apart, WriterAtWork

\* One run at a time is live at a path, if no run wakes up.
LEMMA WritersStaySingle ==
  ASSUME InodesAreOwn, \A q \in Runs : Live(q)' => Live(q)
  PROVE  \A x, q \in Runs : Live(x)' /\ Live(q)' /\ Path(x) = Path(q) => x = q
BY DEF InodesAreOwn

\* A step that leaves the files alone and moves one run between stages at
\* which it has nothing to do with them.
LEMMA FilesStayInOrder ==
  ASSUME Ready, [Next]_vars, NEW r \in Runs, NEW to,
         UNCHANGED fileVars, stage' = [stage EXCEPT ![r] = to],
         to \notin {"writing", "renaming", "reading", "done"},
         stage[r] \in Opened => to \in Opened,
         \/ to \in Ended \cup {"idle"}
         \/ Live(r)
         \/ \A q \in Runs : Path(q) = Path(r) => ~Live(q)
  PROVE  FilesInOrder'
<1>1. /\ InPlace /\ InodesAreOwn /\ \A q \in Runs : WriterAtWork(q)
      /\ \A p \in Paths : file[p] # None => content[file[p]] # None
  BY DEF Ready, FilesInOrder
<1>2. /\ stage'[r] = to
      /\ \A q \in Runs \ {r} : stage'[q] = stage[q]
  BY <1>1 DEF InPlace
<1>3. UNCHANGED <<file, temp, content, fd, read>>
  BY DEF fileVars
<1>4. InodesAreOwn'
  <2>1. \A x, q \in Runs : Live(x)' /\ Live(q)' /\ Path(x) = Path(q) => x = q
    BY <1>1, <1>2 DEF InodesAreOwn, Live
  <2>2. \A x \in Runs : stage[x] \in Opened => stage'[x] \in Opened
    BY <1>2
  <2> QED
    BY <1>1, <1>3, <2>1, <2>2 DEF InodesAreOwn, Path
<1>5. ASSUME NEW q \in Runs PROVE WriterAtWork(q)'
  <2>1. CASE q = r
    BY <1>2, <2>1 DEF WriterAtWork
  <2>2. CASE q # r
    <3>1. Apart(q)
      BY <1>2, <1>3, <2>2 DEF Apart
    <3> QED
      BY <1>1, <3>1, ApartStaysAtWork DEF Ready
  <2> QED
    BY <2>1, <2>2
<1> QED
  BY <1>1, <1>3, <1>4, <1>5 DEF FilesInOrder

\* What one run does to its own path and to one inode of it leaves the other
\* runs at their work.
LEMMA OthersStayAtWork ==
  ASSUME Ready, [Next]_vars, NEW r \in Runs, Live(r), NEW q \in Runs \ {r},
         stage'[q] = stage[q], fd'[q] = fd[q], read'[q] = read[q],
         NEW inode,
         \A p \in Paths \ {Path(r)} :
           /\ file'[p] = file[p] /\ temp'[p] = temp[p]
           /\ file[p] # inode /\ temp[p] # inode,
         \A x \in Runs \ {inode} : content'[x] = content[x]
  PROVE  WriterAtWork(q)'
<1>1. /\ InPlace /\ FilesTyped /\ InodesAreOwn /\ WriterAtWork(q)
  BY DEF Ready, FilesInOrder
<1>2. Path(q) \in Paths
  BY RunAssumption DEF RunAssumption, Path
<1>3. CASE ~Live(q)
  <2>1. stage[q] \notin {"writing", "renaming", "reading"}
    BY <1>3 DEF Live, Ended
  <2>2. stage[q] = "done" => Export(q)' = Export(q)
    BY <1>1, ExportIsFinal DEF Ready, InPlace, Place
  <2> QED
    BY <1>1, <2>1, <2>2 DEF WriterAtWork
<1>4. CASE Live(q)
  <2>1. Path(q) # Path(r)
    BY <1>1, <1>4 DEF InodesAreOwn
  <2>2. stage[q] \in {"writing", "renaming"} => fd[q] \in Runs \ {inode}
    BY <1>1, <1>2, <2>1 DEF WriterAtWork, FilesTyped
  <2>3. file[Path(q)] # None => file[Path(q)] \in Runs \ {inode}
    BY <1>1, <1>2, <2>1 DEF FilesTyped
  <2>4. Apart(q)
    BY <1>2, <2>1, <2>2, <2>3 DEF Apart
  <2> QED
    BY <1>1, <2>4, ApartStaysAtWork DEF Ready
<1> QED
  BY <1>3, <1>4

\* The writer opens the temporary file.
LEMMA OpenTempKeepsOrder ==
  ASSUME Ready, NEW r \in Runs, OpenTemp(r), [Next]_vars
  PROVE  /\ FilesInOrder'
         /\ \A p \in Paths : /\ file'[p] = file[p]
                             /\ file[p] # None =>
                                  content'[file[p]] = content[file[p]]
<1> DEFINE pr == Path(r)
           inode == IF temp[pr] = None THEN r ELSE temp[pr]
<1>1. /\ InPlace /\ FilesTyped /\ InodesAreOwn
      /\ \A q \in Runs : WriterAtWork(q)
      /\ \A p \in Paths : file[p] # None => content[file[p]] # None
  BY DEF Ready, FilesInOrder
<1>2. pr \in Paths /\ \A q \in Runs : Path(q) \in Paths
  BY RunAssumption DEF RunAssumption, Path
<1>3. stage[r] = "exporting" /\ stage[r] \notin Opened /\ Live(r)
  BY DEF OpenTemp, Move, Opened, Live, Ended
<1>4. \A p \in Paths : file[p] # r /\ temp[p] # r
  BY <1>1, <1>3 DEF InodesAreOwn
<1>5. /\ inode \in Runs /\ Path(inode) = pr
      /\ \A p \in Paths : file[p] # inode
      /\ \A p \in Paths : temp[p] = inode => p = pr
  <2>1. CASE temp[pr] = None
    BY <1>4, <2>1
  <2>2. CASE temp[pr] # None
    BY <1>1, <1>2, <2>2, NamesAreApart
  <2> QED
    BY <2>1, <2>2
<1>6. /\ file' = file /\ read' = read
      /\ temp'[pr] = inode
      /\ \A p \in Paths \ {pr} : temp'[p] = temp[p]
      /\ content'[inode] = None
      /\ \A x \in Runs \ {inode} : content'[x] = content[x]
      /\ fd'[r] = inode
      /\ \A q \in Runs \ {r} : fd'[q] = fd[q] /\ stage'[q] = stage[q]
      /\ stage'[r] = "writing"
  BY <1>1, <1>2, <1>5 DEF OpenTemp, Move, FilesTyped, InPlace
<1> HIDE DEF inode
<1>7. inode # None
  BY <1>5, RunAssumption DEF RunAssumption
<1>8. inode = r \/ stage[inode] \in Opened
  BY <1>1, <1>2 DEF inode, InodesAreOwn, FilesTyped
<1>9. \A p \in Paths : file[p] # None => content'[file[p]] = content[file[p]]
  BY <1>1, <1>5, <1>6 DEF FilesTyped
<1>10. InodesAreOwn'
  <2>1. \A x, q \in Runs : Live(x)' /\ Live(q)' /\ Path(x) = Path(q) => x = q
    BY <1>1, <1>3, <1>6 DEF InodesAreOwn, Live
  <2>2. \A x \in Runs : stage[x] \in Opened => stage'[x] \in Opened
    BY <1>3, <1>6
  <2>3. stage'[inode] \in Opened
    BY <1>5, <1>6, <1>8, <2>2 DEF Opened
  <2>4. ASSUME NEW p \in Paths, NEW x \in Runs, x \in {file'[p], temp'[p]}
        PROVE  Path(x) = p /\ stage'[x] \in Opened
    BY <1>1, <1>5, <1>6, <2>2, <2>3, <2>4 DEF InodesAreOwn
  <2>5. \A p \in Paths : file'[p] # None => file'[p] # temp'[p]
    BY <1>1, <1>5, <1>6 DEF InodesAreOwn
  <2> QED
    BY <2>1, <2>4, <2>5 DEF InodesAreOwn, Path
<1>11. ASSUME NEW q \in Runs PROVE WriterAtWork(q)'
  <2>1. CASE q = r
    BY <1>6, <1>7, <2>1 DEF WriterAtWork, Path
  <2>2. CASE q # r
    BY <1>3, <1>5, <1>6, <2>2, OthersStayAtWork
  <2> QED
    BY <2>1, <2>2
<1> QED
  BY <1>1, <1>6, <1>9, <1>10, <1>11 DEF FilesInOrder

\* The writer writes all of its snapshot: nobody else writes to its inode.
LEMMA WriteTempKeepsOrder ==
  ASSUME Ready, NEW r \in Runs, WriteTemp(r), [Next]_vars
  PROVE  /\ FilesInOrder'
         /\ \A p \in Paths : /\ file'[p] = file[p]
                             /\ file[p] # None =>
                                  content'[file[p]] = content[file[p]]
<1> DEFINE pr == Path(r)
           inode == temp[pr]
<1>1. /\ InPlace /\ FilesTyped /\ InodesAreOwn
      /\ \A q \in Runs : WriterAtWork(q)
      /\ \A p \in Paths : file[p] # None => content[file[p]] # None
  BY DEF Ready, FilesInOrder
<1>2. pr \in Paths /\ \A q \in Runs : Path(q) \in Paths
  BY RunAssumption DEF RunAssumption, Path
<1>3. stage[r] = "writing" /\ Live(r) /\ next[r] = 15
  BY <1>1 DEF WriteTemp, Move, Live, Ended, InPlace, Place
<1>4. fd[r] = inode /\ inode # None /\ content[inode] = None
  BY <1>1, <1>3 DEF WriterAtWork
<1>5. /\ inode \in Runs /\ Path(inode) = pr
      /\ \A p \in Paths : file[p] # inode
      /\ \A p \in Paths : temp[p] = inode => p = pr
  BY <1>1, <1>2, <1>4, NamesAreApart
<1>6. ~IsShared(r)
  <2> SUFFICES ASSUME NEW q \in Runs \ {r}, stage[q] = "writing",
                      fd[q] = fd[r]
               PROVE  FALSE
    BY <1>4 DEF IsShared
  <2>1. temp[Path(q)] = inode /\ Live(q)
    BY <1>1, <1>4 DEF WriterAtWork, Live, Ended
  <2> QED
    BY <1>1, <1>2, <1>3, <1>5, <2>1 DEF InodesAreOwn
<1>7. /\ file' = file /\ temp' = temp /\ fd' = fd /\ read' = read
      /\ content'[inode] = Export(r)
      /\ \A x \in Runs \ {inode} : content'[x] = content[x]
      /\ stage'[r] = "renaming"
      /\ \A q \in Runs \ {r} : stage'[q] = stage[q]
  BY <1>1, <1>4, <1>5, <1>6 DEF WriteTemp, Move, FilesTyped, InPlace
<1> HIDE DEF inode
<1>8. \A p \in Paths : file[p] # None => content'[file[p]] = content[file[p]]
  BY <1>1, <1>5, <1>7 DEF FilesTyped
<1>9. InodesAreOwn'
  <2>1. \A x \in Runs : Live(x)' => Live(x)
    BY <1>3, <1>7 DEF Live
  <2>2. \A x \in Runs : stage[x] \in Opened => stage'[x] \in Opened
    BY <1>7 DEF Opened
  <2> QED
    BY <1>1, <1>7, <2>1, <2>2, WritersStaySingle DEF InodesAreOwn, Path
<1>10. ASSUME NEW q \in Runs PROVE WriterAtWork(q)'
  <2>1. CASE q = r
    <3>1. Export(r)' = Export(r)
      BY <1>3, ExportIsFinal DEF Ready
    <3> QED
      BY <1>4, <1>7, <2>1, <3>1 DEF WriterAtWork, Path, inode
  <2>2. CASE q # r
    BY <1>3, <1>5, <1>7, <2>2, OthersStayAtWork
  <2> QED
    BY <2>1, <2>2
<1> QED
  BY <1>1, <1>7, <1>8, <1>9, <1>10 DEF FilesInOrder

\* The writer's snapshot becomes the file.
LEMMA RenameKeepsOrder ==
  ASSUME Ready, NEW r \in Runs, Rename(r), [Next]_vars
  PROVE  /\ FilesInOrder'
         /\ stage[r] = "renaming" /\ file'[Path(r)] # None
         /\ content'[file'[Path(r)]] = Export(r)
         /\ \A p \in Paths \ {Path(r)} : file'[p] = file[p]
         /\ content' = content
<1> DEFINE pr == Path(r)
           inode == temp[pr]
<1>1. /\ InPlace /\ FilesTyped /\ InodesAreOwn
      /\ \A q \in Runs : WriterAtWork(q)
      /\ \A p \in Paths : file[p] # None => content[file[p]] # None
  BY DEF Ready, FilesInOrder
<1>2. pr \in Paths /\ \A q \in Runs : Path(q) \in Paths
  BY RunAssumption DEF RunAssumption, Path
<1>3. stage[r] = "renaming" /\ Live(r) /\ next[r] = 15
  BY <1>1 DEF Rename, Move, Live, Ended, InPlace, Place
<1>4. inode # None /\ content[inode] = Export(r)
  BY <1>1, <1>3 DEF WriterAtWork
<1>5. /\ inode \in Runs /\ Path(inode) = pr
      /\ \A p \in Paths : file[p] # inode
      /\ \A p \in Paths : temp[p] = inode => p = pr
  BY <1>1, <1>2, <1>4, NamesAreApart
<1>6. /\ file'[pr] = inode /\ temp'[pr] = None
      /\ \A p \in Paths \ {pr} : file'[p] = file[p] /\ temp'[p] = temp[p]
      /\ content' = content /\ fd' = fd /\ read' = read
      /\ stage'[r] = "reading"
      /\ \A q \in Runs \ {r} : stage'[q] = stage[q]
  BY <1>1, <1>2 DEF Rename, Move, FilesTyped, InPlace
<1> HIDE DEF inode
<1>7. Export(r)' = Export(r) /\ Export(r) # None
  BY <1>3, ExportIsFinal, ExportOfWholeRun DEF Ready
<1>8. InodesAreOwn'
  <2>1. \A x \in Runs : Live(x)' => Live(x)
    BY <1>3, <1>6 DEF Live
  <2>2. \A x \in Runs : stage[x] \in Opened => stage'[x] \in Opened
    BY <1>6 DEF Opened
  <2>3. ASSUME NEW p \in Paths, NEW x \in Runs, x \in {file'[p], temp'[p]}
        PROVE  Path(x) = p /\ stage'[x] \in Opened
    BY <1>1, <1>2, <1>6, <2>2, <2>3, RunAssumption
       DEF RunAssumption, InodesAreOwn, inode
  <2>4. \A p \in Paths : file'[p] # None => file'[p] # temp'[p]
    BY <1>1, <1>6 DEF InodesAreOwn
  <2>5. \A x, q \in Runs : Live(x)' /\ Live(q)' /\ Path(x) = Path(q) => x = q
    BY <1>1, <2>1, WritersStaySingle
  <2> QED
    BY <2>3, <2>4, <2>5 DEF InodesAreOwn, Path
<1>9. ASSUME NEW q \in Runs PROVE WriterAtWork(q)'
  <2>1. CASE q = r
    BY <1>4, <1>6, <1>7, <2>1 DEF WriterAtWork, Path
  <2>2. CASE q # r
    BY <1>3, <1>5, <1>6, <2>2, OthersStayAtWork
  <2> QED
    BY <2>1, <2>2
<1>10. \A p \in Paths : file'[p] # None => content'[file'[p]] # None
  BY <1>1, <1>4, <1>6, <1>7
<1> QED
  BY <1>3, <1>4, <1>6, <1>8, <1>9, <1>10 DEF FilesInOrder

\* The writer gives up, and removes the temporary file if it can.
LEMMA FailToWriteKeepsOrder ==
  ASSUME Ready, NEW r \in Runs, FailToWrite(r), [Next]_vars
  PROVE  FilesInOrder'
<1> DEFINE pr == Path(r)
<1>1. /\ InPlace /\ FilesTyped /\ InodesAreOwn
      /\ \A q \in Runs : WriterAtWork(q)
      /\ \A p \in Paths : file[p] # None => content[file[p]] # None
  BY DEF Ready, FilesInOrder
<1>2. pr \in Paths /\ \A q \in Runs : Path(q) \in Paths
  BY RunAssumption DEF RunAssumption, Path
<1>3. stage[r] \in {"writing", "renaming"} /\ Live(r)
  BY DEF FailToWrite, Live, Ended
<1>4. temp[pr] # None
  BY <1>1, <1>3 DEF WriterAtWork
<1>5. \A p \in Paths \ {pr} : file[p] # temp[pr] /\ temp[p] # temp[pr]
  BY <1>1, <1>2, <1>4, NamesAreApart
<1>6. /\ temp'[pr] \in {None, temp[pr]}
      /\ \A p \in Paths \ {pr} : temp'[p] = temp[p]
      /\ file' = file /\ content' = content /\ fd' = fd /\ read' = read
      /\ stage'[r] = "threw"
      /\ \A q \in Runs \ {r} : stage'[q] = stage[q]
  BY <1>1, <1>2 DEF FailToWrite, FilesTyped, InPlace
<1>7. InodesAreOwn'
  <2>1. \A x \in Runs : Live(x)' => Live(x)
    BY <1>3, <1>6 DEF Live
  <2>2. \A x \in Runs : stage[x] \in Opened => stage'[x] \in Opened
    BY <1>6 DEF Opened
  <2>3. ASSUME NEW p \in Paths, NEW x \in Runs, x \in {file'[p], temp'[p]}
        PROVE  Path(x) = p /\ stage'[x] \in Opened
    BY <1>1, <1>6, <2>2, <2>3, RunAssumption DEF RunAssumption, InodesAreOwn
  <2>4. \A p \in Paths : file'[p] # None => file'[p] # temp'[p]
    BY <1>1, <1>6 DEF InodesAreOwn
  <2>5. \A x, q \in Runs : Live(x)' /\ Live(q)' /\ Path(x) = Path(q) => x = q
    BY <1>1, <2>1, WritersStaySingle
  <2> QED
    BY <2>3, <2>4, <2>5 DEF InodesAreOwn, Path
<1>8. ASSUME NEW q \in Runs PROVE WriterAtWork(q)'
  <2>1. CASE q = r
    BY <1>6, <2>1 DEF WriterAtWork
  <2>2. CASE q # r
    BY <1>3, <1>5, <1>6, <2>2, OthersStayAtWork
  <2> QED
    BY <2>1, <2>2
<1> QED
  BY <1>1, <1>6, <1>7, <1>8 DEF FilesInOrder

\* The reader finds its own snapshot.
LEMMA ReadBackKeepsOrder ==
  ASSUME Ready, NEW r \in Runs, ReadBack(r), [Next]_vars
  PROVE  FilesInOrder'
<1>1. /\ InPlace /\ FilesTyped /\ InodesAreOwn
      /\ \A q \in Runs : WriterAtWork(q)
      /\ \A p \in Paths : file[p] # None => content[file[p]] # None
  BY DEF Ready, FilesInOrder
<1>2. Path(r) \in Paths
  BY RunAssumption DEF RunAssumption, Path
<1>3. stage[r] = "reading" /\ Live(r) /\ next[r] = 15
  BY <1>1 DEF ReadBack, Move, Live, Ended, InPlace, Place
<1>4. file[Path(r)] # None /\ content[file[Path(r)]] = Export(r)
  BY <1>1, <1>3 DEF WriterAtWork
<1>5. Export(r)' = Export(r) /\ Export(r) # None
  BY <1>3, ExportIsFinal, ExportOfWholeRun DEF Ready
<1>6. /\ file' = file /\ temp' = temp /\ content' = content /\ fd' = fd
      /\ read'[r] = Export(r) /\ stage'[r] = "done"
      /\ \A q \in Runs \ {r} : stage'[q] = stage[q] /\ read'[q] = read[q]
  BY <1>1, <1>4, <1>5 DEF ReadBack, Move, IsValid, FilesTyped, InPlace
<1>7. InodesAreOwn'
  <2>1. \A x \in Runs : Live(x)' => Live(x)
    BY <1>3, <1>6 DEF Live
  <2>2. \A x \in Runs : stage[x] \in Opened => stage'[x] \in Opened
    BY <1>6 DEF Opened
  <2> QED
    BY <1>1, <1>6, <2>1, <2>2, WritersStaySingle DEF InodesAreOwn, Path
<1>8. ASSUME NEW q \in Runs PROVE WriterAtWork(q)'
  <2>1. CASE q = r
    BY <1>5, <1>6, <2>1 DEF WriterAtWork
  <2>2. CASE q # r
    <3>1. Apart(q)
      BY <1>6, <2>2 DEF Apart
    <3> QED
      BY <1>1, <3>1, ApartStaysAtWork DEF Ready
  <2> QED
    BY <2>1, <2>2
<1> QED
  BY <1>1, <1>6, <1>7, <1>8 DEF FilesInOrder

\* What a step does to the file at a path: nothing, or a writer's rename.
SameFile(p) ==
  /\ file'[p] = file[p]
  /\ file[p] # None => content'[file[p]] = content[file[p]]

RenamedBy(r) ==
  /\ stage[r] = "renaming" /\ file'[Path(r)] # None
  /\ content'[file'[Path(r)]] = Export(r)

FileChanges ==
  \A p \in Paths : SameFile(p) \/ \E r \in Runs : Path(r) = p /\ RenamedBy(r)

\* Every step keeps the files in order, and only a rename changes one.
LEMMA FilesInOrderStep ==
  ASSUME Ready, [Next]_vars
  PROVE  FilesInOrder' /\ FileChanges
<1>1. InPlace /\ FilesTyped
  BY DEF Ready
<1>2. ASSUME UNCHANGED fileVars
      PROVE  FileChanges
  BY <1>2 DEF fileVars, FileChanges, SameFile
<1>3. ASSUME NEW r \in Runs, MakeTransition(r)
      PROVE  FilesInOrder' /\ FileChanges
  <2>1. PICK to : /\ stage' = [stage EXCEPT ![r] = to]
                  /\ to \in {StageAfter(Script[next[r]].to), "refused"}
    BY <1>3 DEF MakeTransition, CommandOf
  <2>2. stage[r] = "stepping" /\ next[r] \in 1..14 /\ UNCHANGED fileVars
    BY <1>1, <1>3 DEF MakeTransition, InPlace, Place
  <2>3. to \notin {"writing", "renaming", "reading", "done"}
    BY <2>1, <2>2, ScriptStages
  <2>4. stage[r] \notin Opened /\ Live(r)
    BY <2>2 DEF Opened, Live, Ended
  <2> QED
    BY <1>2, <2>1, <2>2, <2>3, <2>4, FilesStayInOrder
<1>4. ASSUME NEW r \in Runs, Start(r)
      PROVE  FilesInOrder' /\ FileChanges
  <2>1. \A q \in Runs : Path(q) = Path(r) => ~Live(q)
    BY <1>4 DEF Start, Ready, Path
  <2>2. /\ stage[r] = "idle" /\ stage' = [stage EXCEPT ![r] = "stepping"]
        /\ UNCHANGED fileVars
    BY <1>4 DEF Start, Move
  <2> QED
    BY <1>2, <2>1, <2>2, FilesStayInOrder DEF Opened
<1>5. ASSUME NEW r \in Runs,
             \/ RejectEvent(r)
             \/ \E status \in {"blocked", "failed"} : WorkerStops(r, status)
             \/ ReadFails(r) \/ Throw(r) \/ Crash(r)
      PROVE  FilesInOrder' /\ FileChanges
  <2>1. PICK to : stage' = [stage EXCEPT ![r] = to] /\ to \in Ended \ {"done"}
    BY <1>5 DEF RejectEvent, WorkerStops, ReadFails, Throw, Crash, Move, Ended
  <2>2. UNCHANGED fileVars
    BY <1>5 DEF RejectEvent, WorkerStops, ReadFails, Throw, Crash
  <2>3. stage[r] \in Opened => to \in Opened
    <3>1. CASE RejectEvent(r)
               \/ \E status \in {"blocked", "failed"} : WorkerStops(r, status)
      BY <3>1 DEF RejectEvent, WorkerStops, Move, Opened
    <3>2. CASE ReadFails(r) \/ Throw(r) \/ Crash(r)
      <4>1. stage'[r] \in {"threw", "crashed"}
        BY <1>1, <3>2 DEF ReadFails, Throw, Crash, Move, InPlace
      <4>2. stage'[r] = to
        BY <1>1, <2>1 DEF InPlace
      <4> QED
        BY <4>1, <4>2 DEF Opened
    <3> QED
      BY <1>5, <3>1, <3>2
  <2> QED
    BY <1>2, <2>1, <2>2, <2>3, FilesStayInOrder DEF Ended
<1>6. ASSUME NEW r \in Runs,
             \/ WorkerSucceeds(r) \/ RecordProof(r) \/ AskAndGrant(r)
             \/ AskAgain(r) \/ GhReports(r)
      PROVE  FilesInOrder' /\ FileChanges
  <2>1. PICK to : /\ stage' = [stage EXCEPT ![r] = to]
                  /\ to \in {"stepping", "running_gh"}
    BY <1>6 DEF WorkerSucceeds, RecordProof, AskAndGrant, AskAgain, GhReports,
                Move
  <2>2. UNCHANGED fileVars
    BY <1>6 DEF WorkerSucceeds, RecordProof, AskAndGrant, AskAgain, GhReports
  <2>3. stage[r] \in {"working", "recording", "asking", "asking_again",
                      "running_gh"}
    BY <1>6 DEF WorkerSucceeds, RecordProof, AskAndGrant, AskAgain, GhReports,
                Move
  <2>4. stage[r] \notin Opened /\ Live(r)
    BY <2>3 DEF Opened, Live, Ended
  <2> QED
    BY <1>2, <2>1, <2>2, <2>4, FilesStayInOrder
<1>7. ASSUME UNCHANGED <<stage, fileVars>>
      PROVE  FilesInOrder' /\ FileChanges
  <2>1. ASSUME NEW q \in Runs, WriterAtWork(q)
        PROVE  WriterAtWork(q)'
    <3>1. Apart(q)
      BY <1>7 DEF fileVars, Apart
    <3> QED
      BY <2>1, <3>1, ApartStaysAtWork DEF Ready
  <2>2. UNCHANGED <<file, temp, content, stage>>
    BY <1>7 DEF fileVars
  <2>3. InodesAreOwn => InodesAreOwn'
    BY <2>2 DEF InodesAreOwn, Live, Path
  <2> QED
    BY <1>2, <1>7, <2>1, <2>2, <2>3 DEF Ready, FilesInOrder
<1>8. ASSUME NEW r \in Runs, OpenTemp(r) \/ WriteTemp(r)
      PROVE  FilesInOrder' /\ FileChanges
  BY <1>8, OpenTempKeepsOrder, WriteTempKeepsOrder DEF FileChanges, SameFile
<1>9. ASSUME NEW r \in Runs, Rename(r)
      PROVE  FilesInOrder' /\ FileChanges
  BY <1>9, RenameKeepsOrder DEF FileChanges, SameFile, RenamedBy
<1>10. ASSUME NEW r \in Runs, FailToWrite(r) \/ ReadBack(r)
       PROVE  FilesInOrder' /\ FileChanges
  <2>1. FilesInOrder'
    BY <1>10, FailToWriteKeepsOrder, ReadBackKeepsOrder
  <2>2. file' = file /\ content' = content
    BY <1>10 DEF FailToWrite, ReadBack
  <2> QED
    BY <2>1, <2>2 DEF FileChanges, SameFile
<1>11. \A r \in Runs : GhCreates(r) => UNCHANGED <<stage, fileVars>>
  BY DEF GhCreates
<1>12. UNCHANGED vars => UNCHANGED <<stage, fileVars>>
  BY DEF vars, fileVars
<1> QED
  BY <1>3, <1>4, <1>5, <1>6, <1>7, <1>8, <1>9, <1>10, <1>11, <1>12 DEF Next

\* What every step starts from, whoever writes to the files
Settled ==
  /\ InPlace /\ Store!TypeOK /\ ArtifactsTyped /\ StoresOnScript
  /\ PrsInOrder /\ FilesTyped /\ WholeContent

\* With one writer at a time the files are always in order.
LEMMA FilesAlwaysInOrder == Spec => [](Settled /\ FilesInOrder)
<1>1. Init => FilesInOrder
  <2> SUFFICES ASSUME Init PROVE FilesInOrder
    OBVIOUS
  <2>1. \A r \in Runs : stage[r] = "idle" /\ ~Live(r)
    BY DEF Init, Live
  <2>2. \A p \in Paths : file[p] = None /\ temp[p] = None
    BY DEF Init
  <2> QED
    BY <2>1, <2>2, RunAssumption
       DEF RunAssumption, FilesInOrder, InodesAreOwn, WriterAtWork
<1>2. Spec => []Settled
  BY AlwaysInPlace, StoreTypeCorrect, AlwaysOnScript, PrsAlwaysInOrder,
     AlwaysWhole, PTL DEF Settled
<1>3. Settled /\ FilesInOrder /\ [Next]_vars => FilesInOrder'
  <2>1. ASSUME Settled, FilesInOrder, [Next]_vars, SingleWriter
        PROVE  FilesInOrder'
    BY <2>1, FilesInOrderStep DEF Settled, Ready
  <2>2. ASSUME ~SingleWriter
        PROVE  FilesInOrder'
    BY <2>2 DEF FilesInOrder
  <2> QED
    BY <2>1, <2>2
<1> QED
  BY <1>1, <1>2, <1>3, PTL DEF Spec

\* Whatever crashed before, the file at a path is one whole snapshot of a run
\* that completed, with its pull request on GitHub.
THEOREM FilesTellTheTruth == Spec => []FileTellsTheTruth
<1>1. Settled /\ FilesInOrder => FileTellsTheTruth
  <2> SUFFICES ASSUME Settled, FilesInOrder, SingleWriter, NEW p \in Paths,
                      file[p] # None
               PROVE  LET bytes == content[file[p]]
                      IN  /\ bytes # None
                          /\ bytes.task.state = "completed"
                          /\ stage[bytes.run] # "stopped"
                          /\ Len(bytes.transitions) = Len(Script)
                          /\ bytes.run \in GitHubRuns => bytes.run \in remote
    BY DEF FileTellsTheTruth
  <2>1. content[file[p]] # None /\ file[p] \in Runs
    BY DEF FilesInOrder, Settled, FilesTyped
  <2>2. PICK q \in Runs : next[q] = 15 /\ content[file[p]] = Export(q)
    BY <2>1 DEF Settled, WholeContent, IsWhole
  <2>3. /\ tasks[q].state = "completed" /\ Len(Export(q).transitions) = 14
        /\ q \in GitHubRuns => q \in remote
    BY <2>2, ExportOfWholeRun DEF Settled
  <2>4. Export(q).task = tasks[q] /\ Export(q).run = q
    BY DEF Export
  <2>5. stage[q] # "stopped"
    BY <2>2 DEF Settled, InPlace, Place
  <2> QED
    BY <2>1, <2>2, <2>3, <2>4, <2>5, ScriptWalksPath
<1> QED
  BY <1>1, FilesAlwaysInOrder, PTL

\* A run that returns has its own snapshot in hand.
THEOREM RunReadsItsOwn == Spec => []ReadsBackItsOwn
<1>1. FilesInOrder => ReadsBackItsOwn
  BY DEF FilesInOrder, WriterAtWork, ReadsBackItsOwn
<1> QED
  BY <1>1, FilesAlwaysInOrder, PTL

\* A failed or killed write changes nothing a reader sees: only the rename of
\* a whole snapshot does.
THEOREM FilesChangeByRename == Spec => FileChangesByRename
<1> DEFINE A == SingleWriter =>
     \A p \in Paths :
       LET bytes(f, c) == IF f = None THEN None ELSE c[f]
       IN  bytes(file'[p], content') # bytes(file[p], content) =>
             \E r \in Runs : /\ Path(r) = p
                             /\ stage[r] = "renaming"
                             /\ bytes(file'[p], content') = Export(r)
<1>1. Settled /\ FilesInOrder /\ [Next]_vars => A
  <2> SUFFICES ASSUME Settled, FilesInOrder, [Next]_vars, SingleWriter
               PROVE  A
    OBVIOUS
  <2>1. FileChanges
    BY FilesInOrderStep DEF Settled, Ready
  <2> QED
    BY <2>1 DEF FileChanges, SameFile, RenamedBy
<1>2. Settled /\ FilesInOrder /\ [Next]_vars => [A]_vars
  BY <1>1
<1> HIDE DEF A
<1>3. Spec => [][A]_vars
  BY <1>2, FilesAlwaysInOrder, PTL DEF Spec
<1> QED
  BY <1>3 DEF FileChangesByRename, A
=============================================================================
