----------------------------- MODULE TaskStore -----------------------------
(***************************************************************************)
(* createInMemoryTaskStore of packages/runtime-store: task snapshots, the  *)
(* append-only transition log of each task, the result remembered for each *)
(* command id, and the idempotency ledger.                                 *)
(*                                                                         *)
(* Every method of the store is synchronous, so one call is one step; the  *)
(* callers are any number of clients that send the commands of Commands in *)
(* any order and as often as they like (a retry after a lost answer is a   *)
(* second send of the same command).  Time stamps, risk, workspace and     *)
(* trace ids are left out; reference lists are sets, since appendRef never *)
(* stores a reference twice.                                               *)
(***************************************************************************)
EXTENDS TaskLifecycle, Naturals, Sequences

CONSTANTS
  TaskIds,        \* task ids a caller may name
  CommandIds,     \* command_id values
  TransitionIds,  \* transition_id values
  Refs,           \* artifact, proof and approval reference ids
  StartStates,    \* states in which a caller first stores a task
  Commands,       \* the commands the clients may send
  Reput           \* the stored tasks a caller may overwrite by a snapshot

Actors == {"human", "runtime", "worker", "verifier"}

\* A transition as sanitizeTransition keeps it: known fields only. `from`,
\* `to`, `trigger` and `audit` are whatever strings the caller sends.
Transition ==
  [transition_id : TransitionIds, task_id : TaskIds,
   from : STRING, to : STRING, trigger : STRING, actor : Actors,
   audit : STRING, artifact_ref : Refs \cup {None},
   proof_ref : Refs \cup {None}, approval_ref : Refs \cup {None}]

Command ==
  [command_id : CommandIds, task_id : TaskIds, expected_state : TaskStates,
   transition : Transition]

Snapshot ==
  [state : TaskStates, current_transition_id : TransitionIds \cup {None},
   artifact_refs : SUBSET Refs, proof_refs : SUBSET Refs,
   approval_refs : SUBSET Refs]

TransitionRecord ==
  [sequence : Nat, command_id : CommandIds, task_id : TaskIds,
   transition : Transition, task_snapshot : Snapshot]

AppendResult ==
  [ok : BOOLEAN,
   code : TransitionErrors \cup
          {"applied", "noop", "task_not_found", "stale_expected_state"},
   task : Snapshot \cup {None},
   record : TransitionRecord \cup {None}]

IdempotencyRecord ==
  [request : Command, status : {"applied", "duplicate", "rejected"},
   result_ref : TransitionIds \cup CommandIds \cup {None}]

ASSUME StoreAssumption ==
  /\ Commands \subseteq Command
  /\ StartStates \subseteq TaskStates
  /\ Reput \subseteq TaskIds
  /\ None \notin TransitionIds /\ None \notin Refs /\ None \notin CommandIds
  /\ None \notin Snapshot
  /\ None \notin TransitionRecord
  /\ None \notin AppendResult
  /\ None \notin Transition
  /\ None \notin IdempotencyRecord
  /\ None \notin TransitionErrors

VARIABLES
  tasks,          \* tasks: the snapshot of each stored task
  recordsByTask,  \* recordsByTask: the log of each task
  commandResults, \* commandResults: what each command id was answered
  idempotency     \* idempotencyRecords

vars == <<tasks, recordsByTask, commandResults, idempotency>>

Init ==
  /\ tasks = [t \in TaskIds |-> None]
  /\ recordsByTask = [t \in TaskIds |-> << >>]
  /\ commandResults = [c \in CommandIds |-> None]
  /\ idempotency = [c \in CommandIds |-> None]

-----------------------------------------------------------------------------
(***************************************************************************)
(* putTaskSnapshot.  The store overwrites whatever it holds and keeps the  *)
(* log; that a task is put once, when its run starts, is the discipline of *)
(* the only caller, runRuntimeOrchestrator, and is what Reput = {} says.   *)
(***************************************************************************)
NewSnapshot(s) ==
  [state |-> s, current_transition_id |-> None,
   artifact_refs |-> {}, proof_refs |-> {}, approval_refs |-> {}]

\* Mutant: storing a snapshot starts a new log.
PutWithFreshLog(t, s) ==
  /\ t \in Reput \/ tasks[t] = None
  /\ tasks' = [tasks EXCEPT ![t] = NewSnapshot(s)]
  /\ recordsByTask' = [recordsByTask EXCEPT ![t] = << >>]
  /\ UNCHANGED <<commandResults, idempotency>>

PutTaskSnapshot(t, s) ==
  /\ t \in Reput \/ tasks[t] = None
  /\ tasks' = [tasks EXCEPT ![t] = NewSnapshot(s)]
  /\ UNCHANGED <<recordsByTask, commandResults, idempotency>>

-----------------------------------------------------------------------------
(* appendTransition, by the way it ends.                                   *)

\* The log entry that `records.find` takes for the task's current transition:
\* the first one with that id.
CurrentTransition(log, id) ==
  LET hits == {i \in DOMAIN log : log[i].transition.transition_id = id}
  IN  IF hits = {} THEN None
      ELSE log[CHOOSE i \in hits : \A j \in hits : i <= j].transition

\* Mutant: the null check is dropped.
appendRefUnchecked(refs, ref) == refs \cup {ref}

appendRef(refs, ref) == IF ref = None THEN refs ELSE refs \cup {ref}

\* Mutant: the references of the transition replace those of the task.
NextTaskReplacingRefs(task, tr, verdict) ==
  [state |-> IF verdict = "applied" THEN tr.to ELSE task.state,
   current_transition_id |-> IF verdict = "applied" THEN tr.transition_id
                             ELSE task.current_transition_id,
   artifact_refs |-> {tr.artifact_ref} \ {None},
   proof_refs    |-> {tr.proof_ref} \ {None},
   approval_refs |-> {tr.approval_ref} \ {None}]

\* withRefs over the state and transition id that applyTaskTransition returns
NextTask(task, tr, verdict) ==
  [state |-> IF verdict = "applied" THEN tr.to ELSE task.state,
   current_transition_id |-> IF verdict = "applied" THEN tr.transition_id
                             ELSE task.current_transition_id,
   artifact_refs |-> appendRef(task.artifact_refs, tr.artifact_ref),
   proof_refs    |-> appendRef(task.proof_refs, tr.proof_ref),
   approval_refs |-> appendRef(task.approval_refs, tr.approval_ref)]

\* What the store makes of a command whose id it has not seen: the two checks
\* of the store itself, then the verdict of the state machine.
Verdict(cmd) ==
  LET task == tasks[cmd.task_id]
  IN  IF task = None THEN "task_not_found"
      ELSE IF task.state # cmd.expected_state THEN "stale_expected_state"
      ELSE applyTaskTransition(cmd.task_id, task, cmd.transition,
             CurrentTransition(recordsByTask[cmd.task_id],
                               task.current_transition_id))

\* Mutant: only successes are remembered, a refused command is tried again.
IsAnsweredWithSuccess(cmd) ==
  /\ commandResults[cmd.command_id] # None
  /\ commandResults[cmd.command_id].ok

\* Mutant: a command is a repetition only if its content is the same, too.
IsSameRequestAgain(cmd) ==
  /\ idempotency[cmd.command_id] # None
  /\ idempotency[cmd.command_id].request = cmd

\* commandResults.get(command.command_id): the prior answer is repeated,
\* whatever the command now asks for.
IsDuplicateCommand(cmd) == commandResults[cmd.command_id] # None

ReplayResult(cmd) ==
  /\ IsDuplicateCommand(cmd)
  /\ UNCHANGED vars

\* A refusal is remembered like an answer.
RejectTransition(cmd) ==
  LET verdict == Verdict(cmd)
  IN  /\ ~IsDuplicateCommand(cmd)
      /\ verdict \notin {"applied", "noop"}
      /\ commandResults' = [commandResults EXCEPT ![cmd.command_id] =
           [ok |-> FALSE, code |-> verdict, task |-> tasks[cmd.task_id],
            record |-> None]]
      /\ idempotency' = [idempotency EXCEPT ![cmd.command_id] =
           [request |-> cmd, status |-> "rejected",
            result_ref |-> cmd.command_id]]
      /\ UNCHANGED <<tasks, recordsByTask>>

\* The task already made this transition: no record, answered as a duplicate.
NoopTransition(cmd) ==
  LET task == tasks[cmd.task_id]
      next == NextTask(task, cmd.transition, "noop")
  IN  /\ ~IsDuplicateCommand(cmd)
      /\ Verdict(cmd) = "noop"
      /\ tasks' = [tasks EXCEPT ![cmd.task_id] = next]
      /\ commandResults' = [commandResults EXCEPT ![cmd.command_id] =
           [ok |-> TRUE, code |-> "noop", task |-> next, record |-> None]]
      /\ idempotency' = [idempotency EXCEPT ![cmd.command_id] =
           [request |-> cmd, status |-> "duplicate",
            result_ref |-> task.current_transition_id]]
      /\ UNCHANGED recordsByTask

\* Mutant: sequence numbers start with 0.
NewRecordNumberedFromZero(cmd) ==
  [sequence |-> Len(recordsByTask[cmd.task_id]),
   command_id |-> cmd.command_id, task_id |-> cmd.task_id,
   transition |-> cmd.transition,
   task_snapshot |-> NextTask(tasks[cmd.task_id], cmd.transition, "applied")]

\* The record a transition leaves in the log of its task.
NewRecord(cmd) ==
  [sequence |-> Len(recordsByTask[cmd.task_id]) + 1,
   command_id |-> cmd.command_id, task_id |-> cmd.task_id,
   transition |-> cmd.transition,
   task_snapshot |-> NextTask(tasks[cmd.task_id], cmd.transition, "applied")]

ApplyTransition(cmd) ==
  LET record == NewRecord(cmd)
  IN  /\ ~IsDuplicateCommand(cmd)
      /\ Verdict(cmd) = "applied"
      /\ tasks' = [tasks EXCEPT ![cmd.task_id] = record.task_snapshot]
      /\ recordsByTask' = [recordsByTask EXCEPT ![cmd.task_id] =
                             Append(@, record)]
      /\ commandResults' = [commandResults EXCEPT ![cmd.command_id] =
           [ok |-> TRUE, code |-> "applied", task |-> record.task_snapshot,
            record |-> record]]
      /\ idempotency' = [idempotency EXCEPT ![cmd.command_id] =
           [request |-> cmd, status |-> "applied",
            result_ref |-> cmd.transition.transition_id]]

AppendTransition(cmd) ==
  \/ ReplayResult(cmd)
  \/ RejectTransition(cmd)
  \/ NoopTransition(cmd)
  \/ ApplyTransition(cmd)

\* reset: the tests' way back to an empty store.
Reset ==
  /\ tasks' = [t \in TaskIds |-> None]
  /\ recordsByTask' = [t \in TaskIds |-> << >>]
  /\ commandResults' = [c \in CommandIds |-> None]
  /\ idempotency' = [c \in CommandIds |-> None]

Next ==
  \/ \E t \in TaskIds, s \in StartStates : PutTaskSnapshot(t, s)
  \/ \E cmd \in Commands : AppendTransition(cmd)
  \/ Reset

Spec == Init /\ [][Next]_vars

-----------------------------------------------------------------------------
(* Properties.                                                             *)

Log(t) == recordsByTask[t]
Emptied == /\ \A t \in TaskIds : tasks'[t] = None /\ recordsByTask'[t] = << >>
           /\ \A c \in CommandIds : commandResults'[c] = None

\* Type invariant of the four maps of createInMemoryTaskStore.
TypeOK ==
  /\ tasks \in [TaskIds -> Snapshot \cup {None}]
  /\ recordsByTask \in [TaskIds -> Seq(TransitionRecord)]
  /\ commandResults \in [CommandIds -> AppendResult \cup {None}]
  /\ idempotency \in [CommandIds -> IdempotencyRecord \cup {None}]

\* The log of a task is the way it got where it is: numbered 1, 2, ..., each
\* transition starting in the state the one before it ended in, the last one
\* ending in the stored state under the stored transition id.  It speaks of
\* appendTransition's two writes (snapshot and log) staying together, whatever
\* the order and the repetitions of the commands.
IsNumbered(t) ==
  \A i \in DOMAIN Log(t) : Log(t)[i].sequence = i /\ Log(t)[i].task_id = t

IsConnected(t) ==
  \A i \in DOMAIN Log(t) : i + 1 \in DOMAIN Log(t) =>
    Log(t)[i].transition.to = Log(t)[i + 1].transition.from

EndsInStoredState(t) ==
  Log(t) # << >> =>
    LET last == Log(t)[Len(Log(t))].transition
    IN  /\ tasks[t] # None
        /\ tasks[t].state = last.to
        /\ tasks[t].current_transition_id = last.transition_id

StartsAsPut(t) ==
  tasks[t] # None /\ Log(t) = << >> => tasks[t].state \in StartStates

LogIsChain ==
  \A t \in TaskIds \ Reput : /\ IsNumbered(t)
                             /\ IsConnected(t)
                             /\ EndsInStoredState(t)
                             /\ StartsAsPut(t)

\* A command takes effect at most once over all tasks, and the client was told
\* so: every log entry is the one its command's stored answer carries, every
\* "applied" answer points at an entry, and the idempotency ledger agrees.
EntryIsAnswered(record) ==
  LET c == record.command_id
  IN  /\ commandResults[c] # None
      /\ commandResults[c].record = record
      /\ idempotency[c].status = "applied"
      /\ idempotency[c].result_ref = record.transition.transition_id

AnswerIsInLog(c) ==
  commandResults[c] # None =>
    LET r == commandResults[c].record
    IN  /\ commandResults[c].code = "applied" <=> r # None
        /\ r # None => /\ r.sequence \in DOMAIN Log(r.task_id)
                       /\ Log(r.task_id)[r.sequence] = r

AnswersMatchLog ==
  /\ \A t \in TaskIds : \A i \in DOMAIN Log(t) : EntryIsAnswered(Log(t)[i])
  /\ \A c \in CommandIds : AnswerIsInLog(c)

\* A reference a transition brought stays with the task: the references of
\* every snapshot in the log, and of the log's transitions, are still held.
Given(ref) == {ref} \ {None}

HoldsRefsOf(t, record) ==
  LET snap == record.task_snapshot
      tr   == record.transition
  IN  /\ snap.artifact_refs \cup Given(tr.artifact_ref)
           \subseteq tasks[t].artifact_refs
      /\ snap.proof_refs \cup Given(tr.proof_ref) \subseteq tasks[t].proof_refs
      /\ snap.approval_refs \cup Given(tr.approval_ref)
           \subseteq tasks[t].approval_refs

RefsNeverLost ==
  \A t \in TaskIds \ Reput : \A i \in DOMAIN Log(t) : HoldsRefsOf(t, Log(t)[i])

\* The log entry of a PR creation directly follows that of a human approval,
\* and both carry a proof and an approval reference (the gate before the
\* irreversible action of the lifecycle).
PrNeedsHumanApproval ==
  "approved" \notin StartStates =>
  \A t \in TaskIds \ Reput : \A i \in DOMAIN Log(t) :
    Log(t)[i].transition.to = "pr_created" =>
      /\ i > 1
      /\ Log(t)[i - 1].transition.to = "approved"
      /\ Log(t)[i - 1].transition.actor = "human"
      /\ \A j \in {i - 1, i} : /\ Log(t)[j].transition.proof_ref # None
                               /\ Log(t)[j].transition.approval_ref # None

\* A task that starts as the orchestrator starts it reaches pr_created only by
\* every stage of the happy path in order, none skipped and none repeated.
PrFollowsHappyPath ==
  StartStates = {"created"} =>
  \A t \in TaskIds \ Reput : \A i \in DOMAIN Log(t) :
    Log(t)[i].transition.to = "pr_created" =>
      \A k \in 1..i : /\ Log(t)[k].transition.from = HappyPath[k]
                      /\ Log(t)[k].transition.to   = HappyPath[k + 1]

\* The answer to a command never changes: a refusal does not turn into an
\* effect when the client tries again later, nor an effect into a refusal.
AnswerIsFinal ==
  [][\/ Emptied
     \/ \A c \in CommandIds :
          commandResults[c] # None => commandResults'[c] = commandResults[c]
    ]_vars

\* The log only grows, at its end, by at most one entry of one task a step;
\* storing a snapshot over an existing task (Reput) does not erase its log.
LogIsAppendOnly ==
  [][\/ Emptied
     \/ \A t \in TaskIds :
          /\ Len(Log(t)') \in {Len(Log(t)), Len(Log(t)) + 1}
          /\ SubSeq(Log(t)', 1, Len(Log(t))) = Log(t)
    ]_vars

\* A stored task changes only together with a new log entry: an identical
\* transition sent again under a new command id (a noop) changes nothing.
TaskMovesOnlyWithLog ==
  [][\/ Emptied
     \/ \A t \in TaskIds \ Reput :
          tasks[t] # None /\ tasks'[t] # tasks[t] =>
            Len(Log(t)') = Len(Log(t)) + 1
    ]_vars

\* docs/analysis/task-state-machine.md says that pr_created means "Runtime
\* created a PR using the approved proof reference".
PrUsesApprovedProof ==
  \A t \in TaskIds : \A i \in DOMAIN Log(t) :
    i > 1 /\ Log(t)[i].transition.to = "pr_created" =>
      Log(t)[i].transition.proof_ref = Log(t)[i - 1].transition.proof_ref

-----------------------------------------------------------------------------
(***************************************************************************)
(* The store implements TaskJournal when tasks are put once: a journal is  *)
(* the state the task was put in followed by the targets of its log.       *)
(***************************************************************************)
Edges == {<< c.from, c.to >> : c \in transitionContracts}

JournalOf(t) ==
  IF tasks[t] = None THEN << >>
  ELSE IF Log(t) = << >> THEN << tasks[t].state >>
  ELSE [i \in 1..(Len(Log(t)) + 1) |->
          IF i = 1 THEN Log(t)[1].transition.from
          ELSE Log(t)[i - 1].transition.to]

Journal == INSTANCE TaskJournal
             WITH journal <- [t \in TaskIds |-> JournalOf(t)]

\* Every step of the store opens a journal, moves one along a legal edge,
\* forgets them all, or leaves them alone.
RefinesJournal == Journal!JournalSpec
=============================================================================
