-------------------------- MODULE TaskStoreProofs --------------------------
(***************************************************************************)
(* Theorems about TaskStore for every set of tasks, commands, references   *)
(* and clients.                                                            *)
(***************************************************************************)
EXTENDS TaskStore, LeastIndex, SequenceTheorems, TLAPS

-----------------------------------------------------------------------------
(* Lemmas about the operators of the state machine.                        *)

\* applyTaskTransition answers "applied", "noop" or one of the error codes.
LEMMA VerdictRange ==
  ASSUME NEW id, NEW task, NEW tr, NEW current
  PROVE  applyTaskTransition(id, task, tr, current)
           \in TransitionErrors \cup {"applied", "noop"}
<1>1. missingRequiredRef(tr) \in TransitionErrors \cup {None}
  BY DEF missingRequiredRef, TransitionErrors
<1>2. ContractError(tr) \in TransitionErrors \cup {None}
  BY <1>1 DEF ContractError, TransitionErrors
<1>3. ScopeError(id, task, tr) \in TransitionErrors \cup {None}
  BY DEF ScopeError, TransitionErrors
<1> QED
  BY <1>2, <1>3 DEF applyTaskTransition, TransitionErrors

\* A transition is applied only to the task and in the state it names, along
\* a row of the contract table.
LEMMA AppliedIsLegal ==
  ASSUME NEW id, NEW task, NEW tr, NEW current,
         applyTaskTransition(id, task, tr, current) = "applied"
  PROVE  /\ task.state \in TaskStates /\ tr.from \in TaskStates
         /\ tr.to \in TaskStates
         /\ task.state = tr.from
         /\ ContractError(tr) = None
<1>1. None \notin TransitionErrors
  BY StoreAssumption DEF StoreAssumption
<1>2. ScopeError(id, task, tr) = None /\ ContractError(tr) = None
  <2>1. "applied" \notin TransitionErrors \cup {"noop"}
    BY DEF TransitionErrors
  <2>2. missingRequiredRef(tr) \in TransitionErrors \cup {None}
    BY DEF missingRequiredRef, TransitionErrors
  <2>3. ContractError(tr) \in TransitionErrors \cup {None}
    BY <2>2 DEF ContractError, TransitionErrors
  <2>4. ScopeError(id, task, tr) \in TransitionErrors \cup {None}
    BY DEF ScopeError, TransitionErrors
  <2> QED
    BY <2>1, <2>3, <2>4 DEF applyTaskTransition, TransitionErrors
<1>3. task.state = tr.from
  BY <1>1, <1>2 DEF ScopeError, TransitionErrors
<1>4. {task.state, tr.from, tr.to} \ TaskStates = {}
  BY DEF applyTaskTransition
<1> QED
  BY <1>2, <1>3, <1>4

\* A verdict of the store other than its two own refusals comes from the state
\* machine, for a task that is stored in the state the command expects.
LEMMA VerdictOfStoredTask ==
  ASSUME NEW cmd, Verdict(cmd) \in {"applied", "noop"}
  PROVE  /\ tasks[cmd.task_id] # None
         /\ Verdict(cmd) =
              applyTaskTransition(cmd.task_id, tasks[cmd.task_id],
                cmd.transition,
                CurrentTransition(recordsByTask[cmd.task_id],
                  tasks[cmd.task_id].current_transition_id))
BY DEF Verdict

-----------------------------------------------------------------------------
(* Type correctness.                                                       *)

\* What a command writes has the right type.
LEMMA NextTaskType ==
  ASSUME NEW task \in Snapshot, NEW tr \in Transition, NEW verdict,
         verdict = "applied" => tr.to \in TaskStates
  PROVE  NextTask(task, tr, verdict) \in Snapshot
<1>1. \A refs \in SUBSET Refs, ref \in Refs \cup {None} :
        appendRef(refs, ref) \in SUBSET Refs
  BY DEF appendRef
<1> QED
  BY <1>1 DEF NextTask, Snapshot, Transition

\* The task an applied command finds, and the log entry it makes.
LEMMA NewRecordType ==
  ASSUME TypeOK, NEW cmd \in Commands, Verdict(cmd) = "applied"
  PROVE  /\ tasks[cmd.task_id] \in Snapshot
         /\ NewRecord(cmd) \in TransitionRecord
         /\ NewRecord(cmd).task_snapshot \in Snapshot
<1>1. cmd \in Command /\ cmd.transition \in Transition
  BY StoreAssumption DEF StoreAssumption, Command
<1>2. tasks[cmd.task_id] \in Snapshot
  BY <1>1, VerdictOfStoredTask DEF TypeOK, Command
<1>3. cmd.transition.to \in TaskStates
  BY VerdictOfStoredTask, AppliedIsLegal
<1>4. NextTask(tasks[cmd.task_id], cmd.transition, "applied") \in Snapshot
  BY <1>1, <1>2, <1>3, NextTaskType
<1>5. Len(recordsByTask[cmd.task_id]) \in Nat
  BY <1>1, LenProperties DEF TypeOK, Command
<1> QED
  BY <1>1, <1>2, <1>4, <1>5 DEF NewRecord, TransitionRecord, Command

\* A new store is empty.
LEMMA TypeInit == Init => TypeOK
BY DEF Init, TypeOK

\* Every call of the store keeps the types of its maps.
LEMMA TypeStep == TypeOK /\ [Next]_vars => TypeOK'
<1> SUFFICES ASSUME TypeOK, [Next]_vars PROVE TypeOK'
  OBVIOUS
<1>1. ASSUME NEW t \in TaskIds, NEW s \in StartStates, PutTaskSnapshot(t, s)
      PROVE  TypeOK'
  <2>1. NewSnapshot(s) \in Snapshot
    BY StoreAssumption DEF StoreAssumption, NewSnapshot, Snapshot
  <2> QED
    BY <1>1, <2>1 DEF PutTaskSnapshot, TypeOK
<1>2. ASSUME NEW cmd \in Commands, AppendTransition(cmd)
      PROVE  TypeOK'
  <2>0. /\ cmd \in Command /\ cmd.task_id \in TaskIds
        /\ cmd.command_id \in CommandIds /\ cmd.transition \in Transition
    BY StoreAssumption DEF StoreAssumption, Command
  <2>1. CASE ReplayResult(cmd)
    BY <2>1 DEF ReplayResult, vars, TypeOK
  <2>2. CASE RejectTransition(cmd)
    <3>1. Verdict(cmd) \in TransitionErrors \cup
            {"applied", "noop", "task_not_found", "stale_expected_state"}
      BY VerdictRange DEF Verdict
    <3>2. [ok |-> FALSE, code |-> Verdict(cmd), task |-> tasks[cmd.task_id],
           record |-> None] \in AppendResult
      BY <2>0, <3>1 DEF AppendResult, TypeOK
    <3>3. [request |-> cmd, status |-> "rejected",
           result_ref |-> cmd.command_id] \in IdempotencyRecord
      BY <2>0 DEF IdempotencyRecord
    <3> QED
      BY <2>0, <2>2, <3>2, <3>3 DEF RejectTransition, TypeOK
  <2>3. CASE NoopTransition(cmd)
    <3>1. tasks[cmd.task_id] \in Snapshot
      BY <2>0, <2>3, VerdictOfStoredTask DEF NoopTransition, TypeOK
    <3> DEFINE next == NextTask(tasks[cmd.task_id], cmd.transition, "noop")
    <3>2. next \in Snapshot
      BY <2>0, <3>1, NextTaskType
    <3>3. [ok |-> TRUE, code |-> "noop", task |-> next, record |-> None]
            \in AppendResult
      BY <3>2 DEF AppendResult
    <3>4. [request |-> cmd, status |-> "duplicate",
           result_ref |-> tasks[cmd.task_id].current_transition_id]
            \in IdempotencyRecord
      BY <2>0, <3>1 DEF IdempotencyRecord, Snapshot
    <3> QED
      BY <2>0, <2>3, <3>2, <3>3, <3>4 DEF NoopTransition, TypeOK
  <2>4. CASE ApplyTransition(cmd)
    <3> DEFINE record == NewRecord(cmd)
    <3>1. record \in TransitionRecord /\ record.task_snapshot \in Snapshot
      BY <2>4, NewRecordType DEF ApplyTransition
    <3>2. [ok |-> TRUE, code |-> "applied", task |-> record.task_snapshot,
           record |-> record] \in AppendResult
      BY <3>1 DEF AppendResult
    <3>3. [request |-> cmd, status |-> "applied",
           result_ref |-> cmd.transition.transition_id] \in IdempotencyRecord
      BY <2>0 DEF IdempotencyRecord, Transition
    <3>4. Append(recordsByTask[cmd.task_id], record) \in Seq(TransitionRecord)
      BY <2>0, <3>1, AppendProperties DEF TypeOK
    <3> HIDE DEF record
    <3>5. /\ tasks' = [tasks EXCEPT ![cmd.task_id] = record.task_snapshot]
          /\ recordsByTask' = [recordsByTask EXCEPT ![cmd.task_id] =
                                 Append(@, record)]
          /\ commandResults' = [commandResults EXCEPT ![cmd.command_id] =
               [ok |-> TRUE, code |-> "applied",
                task |-> record.task_snapshot, record |-> record]]
          /\ idempotency' = [idempotency EXCEPT ![cmd.command_id] =
               [request |-> cmd, status |-> "applied",
                result_ref |-> cmd.transition.transition_id]]
      BY <2>4 DEF ApplyTransition, record
    <3> QED
      BY <2>0, <3>1, <3>2, <3>3, <3>4, <3>5 DEF TypeOK
  <2> QED
    BY <1>2, <2>1, <2>2, <2>3, <2>4 DEF AppendTransition
<1>3. CASE Reset
  BY <1>3 DEF Reset, TypeOK
<1>4. CASE UNCHANGED vars
  BY <1>4 DEF vars, TypeOK
<1> QED
  BY <1>1, <1>2, <1>3, <1>4 DEF Next

\* The four maps of the store always hold what their types say, whatever the
\* clients send.
THEOREM TypeCorrect == Spec => []TypeOK
<1> QED
  BY TypeInit, TypeStep, PTL DEF Spec

-----------------------------------------------------------------------------
(***************************************************************************)
(* What a step does to one task when snapshots are put once: the five ways *)
(* the invariants below are preserved along.                               *)
(***************************************************************************)
Untouched(t) == tasks'[t] = tasks[t] /\ Log(t)' = Log(t)

Opened(t) ==
  /\ tasks[t] = None
  /\ Log(t)' = Log(t)
  /\ \E s \in StartStates : tasks'[t] = NewSnapshot(s)

Repeated(t) ==
  /\ tasks[t] \in Snapshot
  /\ Log(t)' = Log(t)
  /\ \E tr \in Transition :
       /\ tasks'[t] = NextTask(tasks[t], tr, "noop")
       /\ CurrentTransition(Log(t), tasks[t].current_transition_id) = tr

Moved(t) ==
  \E cmd \in Commands :
    /\ cmd.task_id = t
    /\ tasks[t] \in Snapshot
    /\ tasks[t].state = cmd.transition.from
    /\ ContractError(cmd.transition) = None
    /\ NewRecord(cmd) \in TransitionRecord
    /\ Log(t)' = Append(Log(t), NewRecord(cmd))
    /\ tasks'[t] = NextTask(tasks[t], cmd.transition, "applied")

\* A noop repeats the very transition that the log holds.
LEMMA NoopIsRepetition ==
  ASSUME NEW id, NEW task, NEW tr \in Transition, NEW current,
         applyTaskTransition(id, task, tr, current) = "noop"
  PROVE  current = tr
<1>1. "noop" \notin TransitionErrors \cup {"applied"}
  BY DEF TransitionErrors
<1>2. missingRequiredRef(tr) \in TransitionErrors \cup {None}
  BY DEF missingRequiredRef, TransitionErrors
<1>3. ContractError(tr) \in TransitionErrors \cup {None}
  BY <1>2 DEF ContractError, TransitionErrors
<1>4. ScopeError(id, task, tr) \in TransitionErrors \cup {None}
  BY DEF ScopeError, TransitionErrors
<1> QED
  BY <1>1, <1>3, <1>4
     DEF applyTaskTransition, SameTransition, TransitionErrors

\* What a call of the store can do to one task and its log.
LEMMA StepOnTask ==
  ASSUME TypeOK, [Next]_vars, NEW t \in TaskIds \ Reput
  PROVE  Untouched(t) \/ Opened(t) \/ Repeated(t) \/ Moved(t) \/ Emptied
<1>1. ASSUME NEW u \in TaskIds, NEW s \in StartStates, PutTaskSnapshot(u, s)
      PROVE  Untouched(t) \/ Opened(t)
  BY <1>1 DEF PutTaskSnapshot, Untouched, Opened, TypeOK, Log
<1>2. ASSUME NEW cmd \in Commands, AppendTransition(cmd)
      PROVE  Untouched(t) \/ Repeated(t) \/ Moved(t)
  <2>0. cmd \in Command /\ cmd.task_id \in TaskIds
        /\ cmd.transition \in Transition
    BY StoreAssumption DEF StoreAssumption, Command
  <2>1. CASE ReplayResult(cmd) \/ RejectTransition(cmd)
    BY <2>1 DEF ReplayResult, RejectTransition, vars, Untouched, Log
  <2>2. CASE NoopTransition(cmd) /\ cmd.task_id = t
    <3>1. /\ Verdict(cmd) = "noop"
          /\ Log(t)' = Log(t)
          /\ tasks'[t] = NextTask(tasks[t], cmd.transition, "noop")
      BY <2>2 DEF NoopTransition, TypeOK, Log
    <3>2. tasks[t] \in Snapshot
      BY <2>2, <3>1, VerdictOfStoredTask DEF TypeOK
    <3>3. CurrentTransition(Log(t), tasks[t].current_transition_id)
            = cmd.transition
      BY <2>0, <2>2, <3>1, VerdictOfStoredTask, NoopIsRepetition DEF Log
    <3> QED
      BY <2>0, <3>1, <3>2, <3>3 DEF Repeated
  <2>3. CASE ApplyTransition(cmd) /\ cmd.task_id = t
    <3>1. Verdict(cmd) = "applied"
      BY <2>3 DEF ApplyTransition
    <3>2. /\ Log(t)' = Append(Log(t), NewRecord(cmd))
          /\ tasks'[t] = NewRecord(cmd).task_snapshot
      BY <2>3 DEF ApplyTransition, TypeOK, Log
    <3>3. tasks'[t] = NextTask(tasks[t], cmd.transition, "applied")
      BY <2>3, <3>2 DEF NewRecord
    <3>4. tasks[t] \in Snapshot /\ NewRecord(cmd) \in TransitionRecord
      BY <2>3, <3>1, NewRecordType
    <3>5. /\ tasks[t].state = cmd.transition.from
          /\ ContractError(cmd.transition) = None
      BY <2>3, <3>1, VerdictOfStoredTask, AppliedIsLegal
    <3> QED
      BY <2>3, <3>2, <3>3, <3>4, <3>5 DEF Moved
  <2>4. CASE (NoopTransition(cmd) \/ ApplyTransition(cmd)) /\ cmd.task_id # t
    BY <2>4 DEF NoopTransition, ApplyTransition, Untouched, TypeOK, Log
  <2> QED
    BY <1>2, <2>1, <2>2, <2>3, <2>4 DEF AppendTransition
<1>3. CASE Reset
  BY <1>3 DEF Reset, Emptied, Log
<1>4. CASE UNCHANGED vars
  BY <1>4 DEF vars, Untouched, Log
<1> QED
  BY <1>1, <1>2, <1>3, <1>4 DEF Next

-----------------------------------------------------------------------------
(* The log is a chain.                                                     *)

Chain(t) == /\ IsNumbered(t)
            /\ IsConnected(t)
            /\ EndsInStoredState(t)
            /\ StartsAsPut(t)

\* The four parts together are inductive: a move starts where the log ends
\* because the stored state is where the log ends.
LEMMA ChainStep ==
  ASSUME TypeOK, [Next]_vars, NEW t \in TaskIds \ Reput, Chain(t)
  PROVE  Chain(t)'
<1>0. /\ Log(t) \in Seq(TransitionRecord)
      /\ None \notin Snapshot
  BY StoreAssumption DEF StoreAssumption, TypeOK, Log
<1>1. CASE Untouched(t)
  BY <1>1 DEF Untouched, Chain, IsNumbered, IsConnected, EndsInStoredState,
              StartsAsPut
<1>2. CASE Opened(t)
  <2>1. Log(t) = << >> /\ Log(t)' = << >>
    BY <1>0, <1>2 DEF Opened, Chain, EndsInStoredState
  <2>2. StartsAsPut(t)'
    BY <1>2 DEF Opened, StartsAsPut, NewSnapshot
  <2> QED
    BY <2>1, <2>2 DEF Chain, IsNumbered, IsConnected, EndsInStoredState
<1>3. CASE Repeated(t)
  <2>1. /\ Log(t)' = Log(t)
        /\ tasks[t] # None
        /\ tasks'[t].state = tasks[t].state
        /\ tasks'[t].current_transition_id = tasks[t].current_transition_id
    BY <1>0, <1>3 DEF Repeated, NextTask
  <2>2. Log(t) # << >> => tasks'[t] # None
    <3>1. tasks'[t] \in Snapshot
      BY <1>3, NextTaskType DEF Repeated
    <3> QED
      BY <1>0, <3>1
  <2> QED
    BY <2>1, <2>2 DEF Chain, IsNumbered, IsConnected, EndsInStoredState,
                      StartsAsPut
<1>4. CASE Moved(t)
  <2> PICK cmd \in Commands :
        /\ cmd.task_id = t
        /\ tasks[t] \in Snapshot
        /\ tasks[t].state = cmd.transition.from
        /\ NewRecord(cmd) \in TransitionRecord
        /\ Log(t)' = Append(Log(t), NewRecord(cmd))
        /\ tasks'[t] = NextTask(tasks[t], cmd.transition, "applied")
        /\ ContractError(cmd.transition) = None
    BY <1>4 DEF Moved
  <2> DEFINE n == Len(Log(t))
  <2>1. /\ NewRecord(cmd).sequence = n + 1
        /\ NewRecord(cmd).task_id = t
        /\ NewRecord(cmd).transition = cmd.transition
    BY DEF NewRecord, Log
  <2>2. /\ n \in Nat
        /\ Len(Log(t)') = n + 1
        /\ Log(t)'[n + 1] = NewRecord(cmd)
        /\ \A i \in 1..n : Log(t)'[i] = Log(t)[i]
        /\ DOMAIN Log(t) = 1..n /\ DOMAIN Log(t)' = 1..(n + 1)
    BY <1>0, AppendProperties, LenProperties
  <2>3. IsNumbered(t)'
    BY <2>1, <2>2 DEF Chain, IsNumbered
  <2>4. IsConnected(t)'
    <3> SUFFICES ASSUME NEW i \in 1..n
                 PROVE  Log(t)'[i].transition.to = Log(t)'[i + 1].transition.from
      BY <2>2 DEF IsConnected
    <3>1. CASE i + 1 \in 1..n
      BY <2>2, <3>1 DEF Chain, IsConnected
    <3>2. CASE i = n
      <4>1. Log(t)[n].transition.to = cmd.transition.from
        BY <1>0, <2>2, <3>2 DEF Chain, EndsInStoredState
      <4> QED
        BY <2>1, <2>2, <3>2, <4>1
    <3> QED
      BY <2>2, <3>1, <3>2
  <2>5. EndsInStoredState(t)'
    <3>1. /\ tasks'[t].state = cmd.transition.to
          /\ tasks'[t].current_transition_id = cmd.transition.transition_id
      BY DEF NextTask
    <3>2. tasks'[t] # None
      <4>1. cmd.transition \in Transition
        BY StoreAssumption DEF StoreAssumption, Command
      <4>2. tasks'[t] = NewRecord(cmd).task_snapshot
        BY DEF NewRecord
      <4> QED
        BY <1>0, <4>2 DEF TransitionRecord
    <3> QED
      BY <2>1, <2>2, <3>1, <3>2 DEF EndsInStoredState
  <2>6. StartsAsPut(t)'
    BY <2>2 DEF StartsAsPut
  <2> QED
    BY <2>3, <2>4, <2>5, <2>6 DEF Chain
<1>5. CASE Emptied
  BY <1>5 DEF Emptied, Log, Chain, IsNumbered, IsConnected,
              EndsInStoredState, StartsAsPut
<1> QED
  BY <1>1, <1>2, <1>3, <1>4, <1>5, StepOnTask

\* The log of every task leads from the state the task was put in to the state
\* it is stored in, numbered without gaps, for any commands in any order.
THEOREM LogIsAlwaysChain == Spec => []LogIsChain
<1>1. Init => LogIsChain
  BY DEF Init, LogIsChain, IsNumbered, IsConnected, EndsInStoredState,
         StartsAsPut, Log
<1>2. TypeOK /\ LogIsChain /\ [Next]_vars => LogIsChain'
  BY ChainStep DEF LogIsChain, Chain
<1> QED
  BY <1>1, <1>2, TypeCorrect, PTL DEF Spec

-----------------------------------------------------------------------------
(* References are never lost, and a noop changes nothing.                  *)

HoldsRefs(t) == \A i \in DOMAIN Log(t) : HoldsRefsOf(t, Log(t)[i])

\* withRefs keeps what the task holds and adds what the transition brings.
LEMMA NextTaskKeepsRefs ==
  ASSUME NEW task \in Snapshot, NEW tr \in Transition, NEW verdict
  PROVE  LET next == NextTask(task, tr, verdict)
         IN  /\ task.artifact_refs \cup Given(tr.artifact_ref)
                  \subseteq next.artifact_refs
             /\ task.proof_refs \cup Given(tr.proof_ref)
                  \subseteq next.proof_refs
             /\ task.approval_refs \cup Given(tr.approval_ref)
                  \subseteq next.approval_refs
BY DEF NextTask, appendRef, Given

\* No call drops a reference that a log entry of the task speaks of.
LEMMA RefsStep ==
  ASSUME TypeOK, [Next]_vars, NEW t \in TaskIds \ Reput, Chain(t),
         HoldsRefs(t)
  PROVE  HoldsRefs(t)'
<1>0. Log(t) \in Seq(TransitionRecord)
  BY DEF TypeOK, Log
<1>1. CASE Untouched(t)
  BY <1>1 DEF Untouched, HoldsRefs, HoldsRefsOf
<1>2. CASE Opened(t)
  BY <1>0, <1>2 DEF Opened, Chain, EndsInStoredState, HoldsRefs
<1>3. CASE Repeated(t)
  <2> PICK tr \in Transition : tasks'[t] = NextTask(tasks[t], tr, "noop")
    BY <1>3 DEF Repeated
  <2> QED
    BY <1>3, NextTaskKeepsRefs DEF Repeated, HoldsRefs, HoldsRefsOf
<1>4. CASE Moved(t)
  <2> PICK cmd \in Commands :
        /\ cmd.task_id = t
        /\ tasks[t] \in Snapshot
        /\ NewRecord(cmd) \in TransitionRecord
        /\ Log(t)' = Append(Log(t), NewRecord(cmd))
        /\ tasks'[t] = NextTask(tasks[t], cmd.transition, "applied")
    BY <1>4 DEF Moved
  <2> DEFINE n == Len(Log(t))
  <2>1. /\ NewRecord(cmd).task_snapshot = tasks'[t]
        /\ NewRecord(cmd).transition = cmd.transition
        /\ cmd.transition \in Transition
    BY StoreAssumption DEF StoreAssumption, Command, NewRecord
  <2>2. /\ n \in Nat
        /\ Log(t)'[n + 1] = NewRecord(cmd)
        /\ \A i \in 1..n : Log(t)'[i] = Log(t)[i]
        /\ DOMAIN Log(t) = 1..n /\ DOMAIN Log(t)' = 1..(n + 1)
    BY <1>0, AppendProperties, LenProperties
  <2>3. /\ tasks[t].artifact_refs \cup Given(cmd.transition.artifact_ref)
             \subseteq tasks'[t].artifact_refs
        /\ tasks[t].proof_refs \cup Given(cmd.transition.proof_ref)
             \subseteq tasks'[t].proof_refs
        /\ tasks[t].approval_refs \cup Given(cmd.transition.approval_ref)
             \subseteq tasks'[t].approval_refs
    BY <2>1, NextTaskKeepsRefs
  <2>4. ASSUME NEW i \in 1..n PROVE HoldsRefsOf(t, Log(t)[i])'
    BY <2>2, <2>3 DEF HoldsRefs, HoldsRefsOf
  <2>5. ASSUME NEW i, i = n + 1 PROVE HoldsRefsOf(t, Log(t)[i])'
    BY <2>1, <2>2, <2>3, <2>5 DEF HoldsRefsOf
  <2> QED
    BY <2>2, <2>4, <2>5 DEF HoldsRefs
<1>5. CASE Emptied
  BY <1>5 DEF Emptied, Log, HoldsRefs
<1> QED
  BY <1>1, <1>2, <1>3, <1>4, <1>5, StepOnTask

\* No transition, repetition or later put makes a task lose a reference that
\* its log speaks of.
THEOREM RefsAreNeverLost == Spec => []RefsNeverLost
<1>1. Init => RefsNeverLost
  BY DEF Init, RefsNeverLost, Log
<1>2. TypeOK /\ LogIsChain /\ RefsNeverLost /\ [Next]_vars => RefsNeverLost'
  BY RefsStep DEF LogIsChain, Chain, RefsNeverLost, HoldsRefs
<1> QED
  BY <1>1, <1>2, TypeCorrect, LogIsAlwaysChain, PTL DEF Spec

\* A repeated transition finds its own record in the log, so its references
\* are there already.
LEMMA RepetitionChangesNothing ==
  ASSUME TypeOK, NEW t \in TaskIds, HoldsRefs(t), Repeated(t)
  PROVE  tasks'[t] = tasks[t]
<1> PICK tr \in Transition :
      /\ tasks'[t] = NextTask(tasks[t], tr, "noop")
      /\ CurrentTransition(Log(t), tasks[t].current_transition_id) = tr
  BY DEF Repeated
<1> DEFINE id == tasks[t].current_transition_id
           hits == {i \in DOMAIN Log(t) :
                      Log(t)[i].transition.transition_id = id}
<1>1. tasks[t] \in Snapshot /\ Log(t) \in Seq(TransitionRecord)
  BY DEF Repeated, TypeOK, Log
<1>2. PICK i \in DOMAIN Log(t) : Log(t)[i].transition = tr
  <2>1. hits # {}
    BY StoreAssumption DEF StoreAssumption, CurrentTransition
  <2>2. \E i \in hits : \A j \in hits : i <= j
    <3>1. hits \in SUBSET Nat
      BY <1>1, LenProperties
    <3> HIDE DEF hits
    <3> QED
      BY <2>1, <3>1, SetOfNaturalsHasMin
  <2>3. (CHOOSE i \in hits : \A j \in hits : i <= j) \in hits
    BY <2>2
  <2> QED
    BY <2>1, <2>3 DEF CurrentTransition
<1>3. /\ Given(tr.artifact_ref) \subseteq tasks[t].artifact_refs
      /\ Given(tr.proof_ref) \subseteq tasks[t].proof_refs
      /\ Given(tr.approval_ref) \subseteq tasks[t].approval_refs
  BY <1>2 DEF HoldsRefs, HoldsRefsOf
<1> QED
  BY <1>1, <1>3 DEF NextTask, appendRef, Given, Snapshot

\* A stored task changes only when its log grows, or everything is reset.
THEOREM TasksMoveOnlyWithLog == Spec => TaskMovesOnlyWithLog
<1> DEFINE A == \/ Emptied
                \/ \A t \in TaskIds \ Reput :
                     tasks[t] # None /\ tasks'[t] # tasks[t] =>
                       Len(Log(t)') = Len(Log(t)) + 1
<1>1. TypeOK /\ RefsNeverLost /\ [Next]_vars => A
  <2> SUFFICES ASSUME TypeOK, RefsNeverLost, [Next]_vars, ~Emptied,
                      NEW t \in TaskIds \ Reput, tasks[t] # None,
                      tasks'[t] # tasks[t]
               PROVE  Len(Log(t)') = Len(Log(t)) + 1
    OBVIOUS
  <2>1. Moved(t)
    BY StepOnTask, RepetitionChangesNothing
       DEF Untouched, Opened, RefsNeverLost, HoldsRefs
  <2>2. Log(t) \in Seq(TransitionRecord)
    BY DEF TypeOK, Log
  <2> QED
    BY <2>1, <2>2, AppendProperties DEF Moved
<1> QED
  BY <1>1, TypeCorrect, RefsAreNeverLost, PTL DEF Spec, TaskMovesOnlyWithLog

-----------------------------------------------------------------------------
(* A pull request is created only right after a human approval.            *)

\* Every entry of the log went through the contract table.
Legal(t) ==
  \A i \in DOMAIN Log(t) : ContractError(Log(t)[i].transition) = None

\* What the table says of the last two steps before a pull request.
LEMMA ApprovalContracts ==
  ASSUME NEW tr \in Transition, ContractError(tr) = None
  PROVE  /\ tr.to \in {"approved", "pr_created"} =>
              tr.proof_ref # None /\ tr.approval_ref # None
         /\ tr.to = "approved" => tr.actor = "human"
         /\ tr.to = "pr_created" => tr.from = "approved"
<1> DEFINE contract == ContractOf(tr.from, tr.to)
<1>0. None \notin TransitionErrors
  BY StoreAssumption DEF StoreAssumption
<1>1. /\ contract # None
      /\ tr.actor = contract.actor
      /\ missingRequiredRef(tr) = None
  BY <1>0 DEF ContractError, TransitionErrors
<1>2. /\ contract \in transitionContracts
      /\ contract.from = tr.from /\ contract.to = tr.to
  BY <1>1 DEF ContractOf
<1>3. \A c \in transitionContracts :
        /\ c.to = "approved" => c.actor = "human"
        /\ c.to = "pr_created" => c.from = "approved"
  BY DEF transitionContracts, Contract, cancellableStates
<1>4. tr.to \in {"approved", "pr_created"} =>
        tr.proof_ref # None /\ tr.approval_ref # None
  BY <1>0, <1>1 DEF missingRequiredRef, TransitionErrors, artifactRefStates,
                    proofRefStates, approvalRefStates
<1> QED
  BY <1>1, <1>2, <1>3, <1>4

\* Only transitions that fit their contract get into a log.
LEMMA LegalStep ==
  ASSUME TypeOK, [Next]_vars, NEW t \in TaskIds \ Reput, Legal(t)
  PROVE  Legal(t)'
<1>0. Log(t) \in Seq(TransitionRecord)
  BY DEF TypeOK, Log
<1>1. CASE Log(t)' = Log(t)
  BY <1>1 DEF Legal
<1>2. CASE Moved(t)
  <2> PICK cmd \in Commands :
        /\ ContractError(cmd.transition) = None
        /\ NewRecord(cmd) \in TransitionRecord
        /\ Log(t)' = Append(Log(t), NewRecord(cmd))
    BY <1>2 DEF Moved
  <2>1. NewRecord(cmd).transition = cmd.transition
    BY DEF NewRecord
  <2> QED
    BY <1>0, <2>1, AppendProperties, LenProperties DEF Legal
<1>3. CASE Emptied
  BY <1>3 DEF Emptied, Log, Legal
<1> QED
  BY <1>1, <1>2, <1>3, StepOnTask DEF Untouched, Opened, Repeated

\* The entries of a log are records of transitions.
LEMMA EntryType ==
  ASSUME TypeOK, NEW t \in TaskIds, NEW i \in DOMAIN Log(t)
  PROVE  Log(t)[i] \in TransitionRecord /\ Log(t)[i].transition \in Transition
<1>1. Log(t) \in Seq(TransitionRecord)
  BY DEF TypeOK, Log
<1>2. Log(t)[i] \in TransitionRecord
  BY <1>1, ElementOfSeq, LenProperties
<1> QED
  BY <1>2 DEF TransitionRecord

\* An entry for pr_created cannot be the first: its contract starts in
\* approved, where no task is put; so the entry before it ended there, and
\* only a human's does.
LEMMA LegalChainIsApproved ==
  ASSUME TypeOK, NEW t \in TaskIds, Chain(t), Legal(t),
         NEW i \in DOMAIN Log(t), i > 1,
         Log(t)[i].transition.to = "pr_created"
  PROVE  /\ Log(t)[i - 1].transition.to = "approved"
         /\ Log(t)[i - 1].transition.actor = "human"
         /\ \A j \in {i - 1, i} : /\ Log(t)[j].transition.proof_ref # None
                                  /\ Log(t)[j].transition.approval_ref # None
<1>1. Log(t) \in Seq(TransitionRecord)
  BY DEF TypeOK, Log
<1>2. i \in Nat /\ i - 1 \in DOMAIN Log(t) /\ (i - 1) + 1 = i
  BY <1>1, LenProperties
<1>3. \A j \in {i - 1, i} : /\ Log(t)[j].transition \in Transition
                            /\ ContractError(Log(t)[j].transition) = None
  BY <1>2, EntryType DEF Legal
<1>4. Log(t)[i].transition.from = "approved"
  BY <1>3, ApprovalContracts
<1>5. Log(t)[i - 1].transition.to = "approved"
  BY <1>2, <1>4 DEF Chain, IsConnected
<1> QED
  BY <1>3, <1>5, ApprovalContracts

\* Where the first entry of a log leaves from.
OpensAsPut(t) ==
  Log(t) # << >> => Log(t)[1].transition.from \in StartStates

\* The first entry of a log leaves from the state the task was put in.
LEMMA OpensStep ==
  ASSUME TypeOK, [Next]_vars, NEW t \in TaskIds \ Reput, Chain(t),
         OpensAsPut(t)
  PROVE  OpensAsPut(t)'
<1>0. Log(t) \in Seq(TransitionRecord) /\ None \notin Snapshot
  BY StoreAssumption DEF StoreAssumption, TypeOK, Log
<1>1. CASE Log(t)' = Log(t)
  BY <1>1 DEF OpensAsPut
<1>2. CASE Moved(t)
  <2> PICK cmd \in Commands :
        /\ tasks[t] \in Snapshot
        /\ tasks[t].state = cmd.transition.from
        /\ NewRecord(cmd) \in TransitionRecord
        /\ Log(t)' = Append(Log(t), NewRecord(cmd))
    BY <1>2 DEF Moved
  <2>1. NewRecord(cmd).transition = cmd.transition
    BY DEF NewRecord
  <2>2. CASE Log(t) = << >>
    BY <1>0, <2>1, <2>2 DEF Chain, StartsAsPut, OpensAsPut
  <2>3. CASE Log(t) # << >>
    BY <1>0, <2>3, AppendProperties, LenProperties, EmptySeq DEF OpensAsPut
  <2> QED
    BY <2>2, <2>3
<1>3. CASE Emptied
  BY <1>3 DEF Emptied, Log, OpensAsPut
<1> QED
  BY <1>1, <1>2, <1>3, StepOnTask DEF Untouched, Opened, Repeated

PrInv ==
  \A t \in TaskIds \ Reput : Chain(t) /\ Legal(t) /\ OpensAsPut(t)

\* Between any task's creation and a pull request for it stands the approval
\* of a human, with a proof and an approval on record: for every set of
\* commands and however they are interleaved, repeated or forged.
THEOREM PrAlwaysNeedsHumanApproval == Spec => []PrNeedsHumanApproval
<1>1. Init => PrInv
  BY DEF Init, PrInv, Chain, Legal, OpensAsPut, IsNumbered, IsConnected,
         EndsInStoredState, StartsAsPut, Log
<1>2. TypeOK /\ PrInv /\ [Next]_vars => PrInv'
  BY ChainStep, LegalStep, OpensStep DEF PrInv
<1>3. TypeOK /\ PrInv => PrNeedsHumanApproval
  <2> SUFFICES ASSUME TypeOK, PrInv, "approved" \notin StartStates,
                      NEW t \in TaskIds \ Reput, NEW i \in DOMAIN Log(t),
                      Log(t)[i].transition.to = "pr_created"
               PROVE  /\ i > 1
                      /\ Log(t)[i - 1].transition.to = "approved"
                      /\ Log(t)[i - 1].transition.actor = "human"
                      /\ \A j \in {i - 1, i} :
                           /\ Log(t)[j].transition.proof_ref # None
                           /\ Log(t)[j].transition.approval_ref # None
    BY DEF PrNeedsHumanApproval
  <2>1. Log(t) \in Seq(TransitionRecord) /\ Chain(t) /\ Legal(t)
        /\ OpensAsPut(t)
    BY DEF TypeOK, Log, PrInv
  <2>2. Log(t)[i].transition.from = "approved"
    BY <2>1, EntryType, ApprovalContracts DEF Legal
  <2>3. i > 1
    BY <2>1, <2>2, LenProperties, EmptySeq DEF OpensAsPut
  <2> QED
    BY <2>1, <2>3, LegalChainIsApproved
<1> QED
  BY <1>1, <1>2, <1>3, TypeCorrect, PTL DEF Spec

-----------------------------------------------------------------------------
(* Answers.                                                                *)

\* What a step writes to the answer of a command id.
LEMMA StepOnAnswer ==
  ASSUME TypeOK, [Next]_vars, ~Emptied, NEW c \in CommandIds,
         commandResults[c] # None
  PROVE  commandResults'[c] = commandResults[c]
         /\ idempotency'[c] = idempotency[c]
<1>1. ASSUME NEW t \in TaskIds, NEW s \in StartStates, PutTaskSnapshot(t, s)
      PROVE  UNCHANGED <<commandResults, idempotency>>
  BY <1>1 DEF PutTaskSnapshot
<1>2. ASSUME NEW cmd \in Commands, AppendTransition(cmd)
      PROVE  commandResults'[c] = commandResults[c]
             /\ idempotency'[c] = idempotency[c]
  <2>1. CASE ReplayResult(cmd)
    BY <2>1 DEF ReplayResult, vars
  <2>2. CASE RejectTransition(cmd) \/ NoopTransition(cmd)
               \/ ApplyTransition(cmd)
    <3>1. cmd.command_id # c
      BY <2>2 DEF RejectTransition, NoopTransition, ApplyTransition,
                  IsDuplicateCommand
    <3> QED
      BY <2>2, <3>1 DEF RejectTransition, NoopTransition, ApplyTransition,
                        TypeOK
  <2> QED
    BY <1>2, <2>1, <2>2 DEF AppendTransition
<1>3. CASE Reset
  BY <1>3 DEF Reset, Emptied
<1>4. CASE UNCHANGED vars
  BY <1>4 DEF vars
<1> QED
  BY <1>1, <1>2, <1>3, <1>4 DEF Next

\* Once a command was answered its answer never changes.
THEOREM AnswersAreFinal == Spec => AnswerIsFinal
<1>1. TypeOK /\ [Next]_vars =>
        \/ Emptied
        \/ \A c \in CommandIds :
             commandResults[c] # None => commandResults'[c] = commandResults[c]
  BY StepOnAnswer
<1> QED
  BY <1>1, TypeCorrect, PTL DEF Spec, AnswerIsFinal

\* A step leaves the log of a task alone, adds one entry to it, or empties all.
LEMMA StepOnLog ==
  ASSUME TypeOK, [Next]_vars, ~Emptied, NEW t \in TaskIds
  PROVE  \/ Log(t)' = Log(t)
         \/ \E cmd \in Commands :
              /\ cmd.task_id = t
              /\ ApplyTransition(cmd)
              /\ NewRecord(cmd) \in TransitionRecord
              /\ Log(t)' = Append(Log(t), NewRecord(cmd))
<1>1. ASSUME NEW u \in TaskIds, NEW s \in StartStates, PutTaskSnapshot(u, s)
      PROVE  Log(t)' = Log(t)
  BY <1>1 DEF PutTaskSnapshot, Log
<1>2. ASSUME NEW cmd \in Commands, AppendTransition(cmd)
      PROVE  \/ Log(t)' = Log(t)
             \/ /\ cmd.task_id = t
                /\ ApplyTransition(cmd)
                /\ NewRecord(cmd) \in TransitionRecord
                /\ Log(t)' = Append(Log(t), NewRecord(cmd))
  <2>1. CASE ReplayResult(cmd) \/ RejectTransition(cmd) \/ NoopTransition(cmd)
    BY <2>1 DEF ReplayResult, RejectTransition, NoopTransition, vars, Log
  <2>2. CASE ApplyTransition(cmd)
    <3>1. NewRecord(cmd) \in TransitionRecord
      BY <2>2, NewRecordType DEF ApplyTransition
    <3> QED
      BY <2>2, <3>1 DEF ApplyTransition, TypeOK, Log
  <2> QED
    BY <1>2, <2>1, <2>2 DEF AppendTransition
<1>3. CASE Reset
  BY <1>3 DEF Reset, Emptied
<1>4. CASE UNCHANGED vars
  BY <1>4 DEF vars, Log
<1> QED
  BY <1>1, <1>2, <1>3, <1>4 DEF Next

\* The log of a task only grows at its end, by one entry a step.
THEOREM LogsAreAppendOnly == Spec => LogIsAppendOnly
<1> DEFINE Grows(t) == /\ Len(Log(t)') \in {Len(Log(t)), Len(Log(t)) + 1}
                       /\ SubSeq(Log(t)', 1, Len(Log(t))) = Log(t)
<1>1. ASSUME TypeOK, [Next]_vars, ~Emptied, NEW t \in TaskIds
      PROVE  Grows(t)
  <2>0. Log(t) \in Seq(TransitionRecord)
    BY <1>1 DEF TypeOK, Log
  <2>1. CASE Log(t)' = Log(t)
    BY <2>0, <2>1, SubSeqFull
  <2>2. ASSUME NEW r \in TransitionRecord, Log(t)' = Append(Log(t), r)
        PROVE  Grows(t)
    BY <2>0, <2>2, AppendProperties
  <2> QED
    BY <1>1, <2>1, <2>2, StepOnLog
<1>2. TypeOK /\ [Next]_vars => Emptied \/ \A t \in TaskIds : Grows(t)
  BY <1>1
<1> QED
  BY <1>2, TypeCorrect, PTL DEF Spec, LogIsAppendOnly

\* An entry that is in the log after a step was there before, or is the new
\* one.
LEMMA EntriesAfterStep ==
  ASSUME NEW log \in Seq(TransitionRecord), NEW r \in TransitionRecord
  PROVE  LET new == Append(log, r)
         IN  /\ DOMAIN new = DOMAIN log \cup {Len(log) + 1}
             /\ new[Len(log) + 1] = r
             /\ \A i \in DOMAIN log : new[i] = log[i]
<1>1. Len(log) \in Nat /\ DOMAIN log = 1..Len(log)
  BY LenProperties
<1>2. /\ DOMAIN Append(log, r) = 1..(Len(log) + 1)
      /\ Append(log, r)[Len(log) + 1] = r
      /\ \A i \in 1..Len(log) : Append(log, r)[i] = log[i]
  BY <1>1, AppendProperties, LenProperties
<1> QED
  BY <1>1, <1>2

\* Every call keeps log, answers and idempotency ledger in agreement.
LEMMA MatchStep ==
  ASSUME TypeOK, AnswersMatchLog, [Next]_vars
  PROVE  AnswersMatchLog'
<1>0. /\ \A t \in TaskIds : Log(t) \in Seq(TransitionRecord)
      /\ None \notin TransitionRecord /\ None \notin AppendResult
  BY StoreAssumption DEF StoreAssumption, TypeOK, Log
<1>1. CASE Emptied
  BY <1>1 DEF Emptied, AnswersMatchLog, AnswerIsInLog, Log
<1>2. CASE ~Emptied
  <2>1. ASSUME NEW t \in TaskIds, NEW i \in DOMAIN Log(t)'
        PROVE  EntryIsAnswered(Log(t)[i])'
    <3>1. ASSUME NEW r \in TransitionRecord, EntryIsAnswered(r)
          PROVE  EntryIsAnswered(r)'
      BY <1>2, <3>1, StepOnAnswer DEF EntryIsAnswered, TransitionRecord
    <3>2. ASSUME i \in DOMAIN Log(t), Log(t)'[i] = Log(t)[i]
          PROVE  EntryIsAnswered(Log(t)[i])'
      BY <3>1, <3>2, EntryType DEF AnswersMatchLog, EntryIsAnswered
    <3>3. CASE Log(t)' = Log(t)
      BY <2>1, <3>2, <3>3
    <3>4. ASSUME NEW cmd \in Commands, cmd.task_id = t, ApplyTransition(cmd),
                 NewRecord(cmd) \in TransitionRecord,
                 Log(t)' = Append(Log(t), NewRecord(cmd))
          PROVE  EntryIsAnswered(Log(t)[i])'
      <4>1. /\ NewRecord(cmd).command_id = cmd.command_id
            /\ NewRecord(cmd).transition = cmd.transition
            /\ cmd.command_id \in CommandIds
        BY StoreAssumption DEF StoreAssumption, Command, NewRecord
      <4>2. /\ commandResults'[cmd.command_id].record = NewRecord(cmd)
            /\ commandResults'[cmd.command_id] # None
            /\ idempotency'[cmd.command_id].status = "applied"
            /\ idempotency'[cmd.command_id].result_ref =
                 cmd.transition.transition_id
        <5> DEFINE answer ==
              [ok |-> TRUE, code |-> "applied",
               task |-> NewRecord(cmd).task_snapshot,
               record |-> NewRecord(cmd)]
        <5>1. answer \in AppendResult
          BY <3>4 DEF AppendResult, TransitionRecord
        <5>2. commandResults'[cmd.command_id] = answer
          BY <3>4, <4>1 DEF ApplyTransition, TypeOK
        <5>3. idempotency'[cmd.command_id] =
                [request |-> cmd, status |-> "applied",
                 result_ref |-> cmd.transition.transition_id]
          BY <3>4, <4>1 DEF ApplyTransition, TypeOK
        <5>4. answer # None
          BY <1>0, <5>1
        <5> QED
          BY <5>2, <5>3, <5>4
      <4>3. CASE Log(t)'[i] = NewRecord(cmd)
        BY <4>1, <4>2, <4>3 DEF EntryIsAnswered
      <4> QED
        BY <1>0, <2>1, <3>2, <3>4, <4>3, EntriesAfterStep
    <3> QED
      BY <1>2, <2>1, <3>3, <3>4, StepOnLog
  <2>2. ASSUME NEW c \in CommandIds PROVE AnswerIsInLog(c)'
    <3>1. CASE commandResults[c] # None
      <4>1. commandResults'[c] = commandResults[c]
        BY <1>2, <3>1, StepOnAnswer
      <4>2. AnswerIsInLog(c)
        BY DEF AnswersMatchLog
      <4> DEFINE r == commandResults[c].record
      <4>3. r # None => r.task_id \in TaskIds
        BY <3>1 DEF TypeOK, AppendResult, TransitionRecord
      <4>4. ASSUME r # None
            PROVE  /\ r.sequence \in DOMAIN recordsByTask'[r.task_id]
                   /\ recordsByTask'[r.task_id][r.sequence] = r
        <5>1. /\ r.task_id \in TaskIds
              /\ r.sequence \in DOMAIN Log(r.task_id)
              /\ Log(r.task_id)[r.sequence] = r
          BY <3>1, <4>2, <4>3, <4>4 DEF AnswerIsInLog
        <5>2. PICK t \in TaskIds : t = r.task_id
          BY <5>1
        <5>3. /\ r.sequence \in DOMAIN Log(t)' /\ Log(t)'[r.sequence] = r
          BY <1>0, <1>2, <5>1, <5>2, StepOnLog, EntriesAfterStep
        <5> QED
          BY <5>2, <5>3 DEF Log
      <4> QED
        BY <3>1, <4>1, <4>2, <4>4 DEF AnswerIsInLog, Log
    <3>2. CASE commandResults[c] = None /\ commandResults'[c] = None
      BY <3>2 DEF AnswerIsInLog
    <3>3. CASE commandResults[c] = None /\ commandResults'[c] # None
      <4>1. PICK cmd \in Commands : AppendTransition(cmd)
        BY <1>2, <3>3 DEF Next, PutTaskSnapshot, Reset, Emptied, vars
      <4>2. /\ cmd.command_id \in CommandIds /\ cmd.task_id \in TaskIds
        BY StoreAssumption DEF StoreAssumption, Command
      <4>3. CASE RejectTransition(cmd)
        BY <3>3, <4>2, <4>3 DEF RejectTransition, TypeOK, AnswerIsInLog
      <4>4. CASE NoopTransition(cmd)
        BY <3>3, <4>2, <4>4 DEF NoopTransition, TypeOK, AnswerIsInLog
      <4>5. CASE ApplyTransition(cmd)
        <5> DEFINE r == NewRecord(cmd)
        <5>1. /\ r \in TransitionRecord
              /\ r.task_id = cmd.task_id
              /\ r.sequence = Len(Log(cmd.task_id)) + 1
          BY <4>5, NewRecordType DEF ApplyTransition, NewRecord, Log
        <5>2. /\ commandResults'[c].code = "applied"
              /\ commandResults'[c].record = r
          BY <3>3, <4>2, <4>5 DEF ApplyTransition, TypeOK
        <5>3. Log(cmd.task_id)' = Append(Log(cmd.task_id), r)
          BY <4>2, <4>5 DEF ApplyTransition, TypeOK, Log
        <5> HIDE DEF r
        <5>4. /\ r.sequence \in DOMAIN recordsByTask'[r.task_id]
              /\ recordsByTask'[r.task_id][r.sequence] = r
          <6>1. Log(cmd.task_id)' = recordsByTask'[cmd.task_id]
            BY DEF Log
          <6> DEFINE log == Log(cmd.task_id)
          <6>2. /\ Len(log) + 1 \in DOMAIN Append(log, r)
                /\ Append(log, r)[Len(log) + 1] = r
            BY <1>0, <4>2, <5>1, EntriesAfterStep
          <6> HIDE DEF log
          <6>3. /\ r.sequence = Len(log) + 1
                /\ recordsByTask'[r.task_id] = Append(log, r)
            BY <5>1, <5>3, <6>1 DEF log
          <6> QED
            BY <6>2, <6>3
        <5>5. r # None
          BY <1>0, <5>1
        <5> QED
          BY <5>2, <5>4, <5>5 DEF AnswerIsInLog, Log
      <4> QED
        BY <3>3, <4>1, <4>3, <4>4, <4>5 DEF AppendTransition, ReplayResult, vars
    <3> QED
      BY <3>1, <3>2, <3>3
  <2> QED
    BY <2>1, <2>2 DEF AnswersMatchLog
<1> QED
  BY <1>1, <1>2

\* The remembered answers and the logs tell the same story: a command that was
\* answered "applied" is in the log once, where its answer says, and the log
\* has nothing that was not answered so.
THEOREM AnswersAlwaysMatchLog == Spec => []AnswersMatchLog
<1>1. Init => AnswersMatchLog
  BY DEF Init, AnswersMatchLog, AnswerIsInLog, Log
<1> QED
  BY <1>1, MatchStep, TypeCorrect, PTL DEF Spec
-----------------------------------------------------------------------------
(***************************************************************************)
(* The way to a pull request leads over every stage.  Instead of going     *)
(* back from the entry for pr_created, every entry is tied to its place:   *)
(* entry i leaves from stage i of the happy path.  That is inductive, since *)
(* a move starts where the last entry ended, and no move leaves a state    *)
(* beside the path.                                                        *)
(***************************************************************************)
SideExits == terminalStates \ {"completed"}

StepsFrom(k, tr) ==
  /\ k \in 1..14
  /\ tr.from = HappyPath[k]
  /\ tr.to = HappyPath[k + 1] \/ tr.to \in SideExits

OnPath(t) == \A i \in DOMAIN Log(t) : StepsFrom(i, Log(t)[i].transition)

\* From a stage of the path the contract table leads to the next stage or to
\* a side exit; from a side exit and from the last stage it leads nowhere.
LEMMA PathContracts ==
  ASSUME NEW tr \in Transition, ContractError(tr) = None,
         NEW k \in 1..15, tr.from = HappyPath[k] \/ tr.from \in SideExits
  PROVE  StepsFrom(k, tr)
<1>1. PICK c \in transitionContracts : c.from = tr.from /\ c.to = tr.to
  <2>1. None \notin TransitionErrors
    BY StoreAssumption DEF StoreAssumption
  <2>2. ContractOf(tr.from, tr.to) # None
    BY <2>1 DEF ContractError, TransitionErrors
  <2> QED
    BY <2>2 DEF ContractOf
<1>2. c.from \notin SideExits
  BY DEF SideExits, terminalStates, transitionContracts, Contract,
         cancellableStates
<1>3. /\ k \in 1..14
      /\ c.to = HappyPath[k + 1] \/ c.to \in SideExits
  BY <1>1, <1>2 DEF HappyPath, SideExits, terminalStates, transitionContracts,
                    Contract, cancellableStates
<1> QED
  BY <1>1, <1>2, <1>3 DEF StepsFrom

\* Every call keeps the entries of a log on the path.
LEMMA OnPathStep ==
  ASSUME TypeOK, [Next]_vars, StartStates = {"created"},
         NEW t \in TaskIds \ Reput, Chain(t), OnPath(t)
  PROVE  OnPath(t)'
<1>0. /\ Log(t) \in Seq(TransitionRecord)
      /\ Len(Log(t)) \in Nat /\ DOMAIN Log(t) = 1..Len(Log(t))
  BY LenProperties DEF TypeOK, Log
<1>1. CASE Log(t)' = Log(t)
  BY <1>1 DEF OnPath
<1>2. CASE Moved(t)
  <2> PICK cmd \in Commands :
        /\ tasks[t] \in Snapshot
        /\ tasks[t].state = cmd.transition.from
        /\ ContractError(cmd.transition) = None
        /\ NewRecord(cmd) \in TransitionRecord
        /\ Log(t)' = Append(Log(t), NewRecord(cmd))
    BY <1>2 DEF Moved
  <2> DEFINE n == Len(Log(t))
             tr == cmd.transition
  <2>1. NewRecord(cmd).transition = tr
    BY DEF NewRecord
  <2>2. tr \in Transition
    BY StoreAssumption DEF StoreAssumption, Command
  <2>3. /\ n + 1 \in 1..15
        /\ tr.from = HappyPath[n + 1] \/ tr.from \in SideExits
    <3>1. CASE n = 0
      <4>1. tr.from = "created"
        BY <1>0, <3>1, EmptySeq, StoreAssumption
           DEF StoreAssumption, Chain, StartsAsPut
      <4> QED
        BY <3>1, <4>1 DEF HappyPath
    <3>2. CASE n > 0
      <4>1. tr.from = Log(t)[n].transition.to /\ n \in DOMAIN Log(t)
        BY <1>0, <3>2, EmptySeq DEF Chain, EndsInStoredState
      <4>2. StepsFrom(n, Log(t)[n].transition)
        BY <4>1 DEF OnPath
      <4> HIDE DEF n
      <4> QED
        BY <4>1, <4>2 DEF StepsFrom
    <3> QED
      BY <1>0, <3>1, <3>2
  <2>4. StepsFrom(n + 1, tr)
    BY <2>2, <2>3, PathContracts
  <2> QED
    BY <1>0, <2>1, <2>4, EntriesAfterStep DEF OnPath
<1>3. CASE Emptied
  BY <1>3 DEF Emptied, Log, OnPath
<1> QED
  BY <1>1, <1>2, <1>3, StepOnTask DEF Untouched, Opened, Repeated

PathInv ==
  StartStates = {"created"} => \A t \in TaskIds \ Reput : Chain(t) /\ OnPath(t)

\* A task that starts in `created` has gone through every stage of the happy
\* path, in order and each once, when the store logs a pull request for it,
\* whichever commands its clients send.
THEOREM PrAlwaysFollowsHappyPath == Spec => []PrFollowsHappyPath
<1>1. Init => PathInv
  BY DEF Init, PathInv, Chain, OnPath, IsNumbered, IsConnected,
         EndsInStoredState, StartsAsPut, Log
<1>2. TypeOK /\ PathInv /\ [Next]_vars => PathInv'
  BY ChainStep, OnPathStep DEF PathInv
<1>3. TypeOK /\ PathInv => PrFollowsHappyPath
  <2> SUFFICES ASSUME TypeOK, PathInv, StartStates = {"created"},
                      NEW t \in TaskIds \ Reput, NEW i \in DOMAIN Log(t),
                      Log(t)[i].transition.to = "pr_created",
                      NEW k \in 1..i
               PROVE  /\ Log(t)[k].transition.from = HappyPath[k]
                      /\ Log(t)[k].transition.to   = HappyPath[k + 1]
    BY DEF PrFollowsHappyPath
  <2>1. /\ DOMAIN Log(t) = 1..Len(Log(t)) /\ Len(Log(t)) \in Nat
    BY LenProperties DEF TypeOK, Log
  <2>2. StepsFrom(k, Log(t)[k].transition) /\ k \in DOMAIN Log(t)
    BY <2>1 DEF PathInv, OnPath
  <2>3. CASE k = i
    BY <2>2, <2>3 DEF StepsFrom, SideExits, terminalStates
  <2>4. CASE k # i
    <3>1. k + 1 \in DOMAIN Log(t)
      BY <2>1, <2>4
    <3>2. StepsFrom(k + 1, Log(t)[k + 1].transition)
      BY <3>1 DEF PathInv, OnPath
    <3>3. Log(t)[k].transition.to = Log(t)[k + 1].transition.from
      BY <2>2, <3>1 DEF PathInv, Chain, IsConnected
    <3> QED
      BY <2>2, <3>2, <3>3 DEF StepsFrom
  <2> QED
    BY <2>3, <2>4
<1> QED
  BY <1>1, <1>2, <1>3, TypeCorrect, PTL DEF Spec

-----------------------------------------------------------------------------
(***************************************************************************)
(* The store implements TaskJournal, for every value of the constants with *)
(* which tasks are put once.                                               *)
(***************************************************************************)

States == TaskStates \cup STRING

\* The states a stored task and its log name.
LEMMA StateTypes ==
  ASSUME TypeOK, NEW t \in TaskIds
  PROVE  /\ tasks[t] # None => tasks[t].state \in States
         /\ \A i \in DOMAIN Log(t) : /\ Log(t)[i].transition.from \in States
                                     /\ Log(t)[i].transition.to \in States
<1>1. tasks[t] # None => tasks[t].state \in States
  BY DEF TypeOK, Snapshot, States
<1>2. \A i \in DOMAIN Log(t) : Log(t)[i].transition \in Transition
  BY EntryType
<1> QED
  BY <1>1, <1>2 DEF Transition, States

\* The journal of a stored task ends in the stored state.
LEMMA JournalShape ==
  ASSUME TypeOK, NEW t \in TaskIds, Chain(t), tasks[t] # None
  PROVE  /\ JournalOf(t) \in Seq(States)
         /\ Len(JournalOf(t)) = Len(Log(t)) + 1
         /\ JournalOf(t)[Len(JournalOf(t))] = tasks[t].state
<1>1. Log(t) \in Seq(TransitionRecord) /\ Len(Log(t)) \in Nat
      /\ DOMAIN Log(t) = 1..Len(Log(t))
  BY LenProperties DEF TypeOK, Log
<1>2. CASE Log(t) = << >>
  <2>1. JournalOf(t) = << tasks[t].state >>
    BY <1>2 DEF JournalOf
  <2>2. tasks[t].state \in States
    BY StateTypes
  <2> QED
    BY <1>2, <2>1, <2>2
<1>3. CASE Log(t) # << >>
  <2> DEFINE n == Len(Log(t))
             f == [i \in 1..(n + 1) |-> IF i = 1 THEN Log(t)[1].transition.from
                                        ELSE Log(t)[i - 1].transition.to]
  <2>1. JournalOf(t) = f
    BY <1>3 DEF JournalOf
  <2>2. n \in Nat /\ n > 0 /\ DOMAIN Log(t) = 1..n
    BY <1>1, <1>3, EmptySeq
  <2>3. \A i \in 1..(n + 1) : f[i] \in States
    <3> SUFFICES ASSUME NEW i \in 1..(n + 1) PROVE f[i] \in States
      OBVIOUS
    <3>1. CASE i = 1
      BY <2>2, <3>1, StateTypes
    <3>2. CASE i # 1
      <4>1. i - 1 \in DOMAIN Log(t)
        BY <2>2, <3>2
      <4> QED
        BY <3>2, <4>1, StateTypes
    <3> QED
      BY <3>1, <3>2
  <2>4. f \in Seq(States) /\ Len(f) = n + 1
    <3>1. f \in [1..(n + 1) -> States]
      BY <2>3
    <3>2. n + 1 \in Nat
      BY <2>2
    <3> HIDE DEF f, n
    <3> QED
      BY <3>1, <3>2
  <2>5. f[n + 1] = tasks[t].state
    BY <1>3, <2>2 DEF Chain, EndsInStoredState
  <2> QED
    BY <2>1, <2>4, <2>5
<1> QED
  BY <1>2, <1>3

\* A move adds the target of its transition to the journal.
LEMMA JournalMove ==
  ASSUME TypeOK, TypeOK', NEW t \in TaskIds, Chain(t), Chain(t)', Moved(t)
  PROVE  \E s : /\ << tasks[t].state, s >> \in Edges
                /\ JournalOf(t)' = Append(JournalOf(t), s)
<1> PICK cmd \in Commands :
      /\ tasks[t] \in Snapshot
      /\ tasks[t].state = cmd.transition.from
      /\ ContractError(cmd.transition) = None
      /\ NewRecord(cmd) \in TransitionRecord
      /\ Log(t)' = Append(Log(t), NewRecord(cmd))
      /\ tasks'[t] = NextTask(tasks[t], cmd.transition, "applied")
  BY DEF Moved
<1> DEFINE n == Len(Log(t))
           to == cmd.transition.to
<1>1. << tasks[t].state, to >> \in Edges
  <2> DEFINE c == ContractOf(cmd.transition.from, to)
  <2>1. c # None
    BY StoreAssumption DEF StoreAssumption, ContractError, TransitionErrors
  <2>2. c \in transitionContracts /\ c.from = cmd.transition.from /\ c.to = to
    BY <2>1 DEF ContractOf
  <2> HIDE DEF c, to
  <2> QED
    BY <2>2 DEF Edges
<1>2. /\ Log(t) \in Seq(TransitionRecord)
      /\ n \in Nat
      /\ Len(Log(t)') = n + 1
      /\ \A i \in 1..n : Log(t)'[i] = Log(t)[i]
      /\ Log(t)'[n + 1] = NewRecord(cmd)
      /\ Log(t)' # << >>
  BY AppendProperties, LenProperties DEF TypeOK, Log
<1>3. NewRecord(cmd).transition = cmd.transition
  BY DEF NewRecord
<1>4. tasks[t] # None /\ tasks'[t] # None
  BY <1>2, StoreAssumption DEF StoreAssumption, Chain, EndsInStoredState
<1>5. /\ JournalOf(t) \in Seq(States)
      /\ Len(JournalOf(t)) = n + 1
      /\ JournalOf(t)[n + 1] = tasks[t].state
  BY <1>4, JournalShape
<1>6. JournalOf(t)' = [i \in 1..(n + 2) |->
                         IF i = 1 THEN Log(t)'[1].transition.from
                         ELSE Log(t)'[i - 1].transition.to]
  <2>1. Len(Log(t)') + 1 = n + 2
    BY <1>2
  <2> QED
    BY <1>2, <1>4, <2>1 DEF JournalOf
<1>7. to \in States
  BY StoreAssumption DEF StoreAssumption, Command, Transition, States
<1>8. JournalOf(t)' = Append(JournalOf(t), to)
  <2> DEFINE J == JournalOf(t)
             new == Append(J, to)
             K == [i \in 1..(n + 2) |->
                         IF i = 1 THEN Log(t)'[1].transition.from
                         ELSE Log(t)'[i - 1].transition.to]
  <2>1. new \in Seq(States) /\ Len(new) = n + 2 /\ new[n + 2] = to
        /\ \A i \in 1..(n + 1) : new[i] = J[i]
    BY <1>2, <1>5, <1>7, AppendProperties
  <2>2. \A i \in 1..(n + 1) : K[i] = J[i]
    <3>1. CASE Log(t) = << >>
      <4>1. n = 0 /\ J = << tasks[t].state >>
        BY <1>4, <3>1 DEF JournalOf
      <4>2. Log(t)'[1].transition.from = tasks[t].state
        BY <1>2, <1>3, <4>1
      <4> QED
        BY <4>1, <4>2
    <3>2. CASE Log(t) # << >>
      <4>1. J = [i \in 1..(n + 1) |-> IF i = 1 THEN Log(t)[1].transition.from
                                      ELSE Log(t)[i - 1].transition.to]
        BY <1>4, <3>2 DEF JournalOf
      <4>2. n > 0
        BY <1>2, <3>2, EmptySeq
      <4> QED
        BY <1>2, <4>1, <4>2
    <3> QED
      BY <3>1, <3>2
  <2>3. K[n + 2] = to
    BY <1>2, <1>3
  <2>4. \A i \in 1..(n + 2) : K[i] = new[i]
    <3> HIDE DEF K, new, J, n, to
    <3>1. \A i \in 1..(n + 2) : i \in 1..(n + 1) \/ i = n + 2
      BY <1>2
    <3> QED
      BY <2>1, <2>2, <2>3, <3>1
  <2>5. new = K
    <3>1. new = [i \in 1..(n + 2) |-> new[i]]
      BY <2>1
    <3> HIDE DEF new
    <3> QED
      BY <2>4, <3>1
  <2> QED
    BY <1>6, <2>5
<1> QED
  BY <1>1, <1>8

-----------------------------------------------------------------------------
(* The refinement.                                                         *)

journals == [t \in TaskIds |-> JournalOf(t)]

\* A call for one task leaves the journals of the others alone.
LEMMA OtherJournals ==
  ASSUME NEW u \in TaskIds, Untouched(u)
  PROVE  JournalOf(u)' = JournalOf(u)
BY DEF Untouched, JournalOf

\* Every call of the store opens a journal, moves one, forgets all or changes
\* none.
LEMMA JournalStep ==
  ASSUME Reput = {}, TypeOK, TypeOK', LogIsChain, LogIsChain', [Next]_vars
  PROVE  Journal!JournalNext \/ UNCHANGED journals
<1>0. \A t \in TaskIds : Chain(t) /\ Chain(t)'
  BY DEF LogIsChain, Chain
<1>1. ASSUME NEW t \in TaskIds, NEW s \in StartStates, PutTaskSnapshot(t, s)
      PROVE  Journal!JournalNext
  <2>1. tasks[t] = None /\ Log(t) = << >> /\ tasks'[t] = NewSnapshot(s)
        /\ Log(t)' = << >>
    BY <1>0, <1>1 DEF PutTaskSnapshot, Chain, EndsInStoredState, TypeOK, Log
  <2>2. JournalOf(t) = << >> /\ JournalOf(t)' = << s >>
    <3>1. NewSnapshot(s) # None
      BY StoreAssumption DEF StoreAssumption, NewSnapshot, Snapshot
    <3> QED
      BY <2>1, <3>1 DEF JournalOf, NewSnapshot
  <2>3. \A u \in TaskIds \ {t} : JournalOf(u)' = JournalOf(u)
    BY <1>1, OtherJournals DEF PutTaskSnapshot, TypeOK, Untouched, Log
  <2>4. journals' = [journals EXCEPT ![t] = << s >>]
    BY <2>2, <2>3 DEF journals
  <2> QED
    BY <2>2, <2>4 DEF journals, Journal!JournalNext, Journal!Open
<1>2. ASSUME NEW cmd \in Commands, AppendTransition(cmd)
      PROVE  Journal!JournalNext \/ UNCHANGED journals
  <2> DEFINE t == cmd.task_id
  <2>0. t \in TaskIds
    BY StoreAssumption DEF StoreAssumption, Command
  <2>1. CASE ReplayResult(cmd) \/ RejectTransition(cmd)
    BY <2>1, OtherJournals
       DEF ReplayResult, RejectTransition, vars, Untouched, journals, Log
  <2>2. \A u \in TaskIds \ {t} : JournalOf(u)' = JournalOf(u)
    BY <1>2, OtherJournals
       DEF AppendTransition, ReplayResult, RejectTransition, NoopTransition,
           ApplyTransition, TypeOK, vars, Untouched, Log
  <2>3. CASE NoopTransition(cmd)
    <3>1. /\ tasks[t] \in Snapshot
          /\ tasks'[t] = NextTask(tasks[t], cmd.transition, "noop")
          /\ Log(t)' = Log(t)
      BY <2>0, <2>3, VerdictOfStoredTask DEF NoopTransition, TypeOK, Log
    <3>2. tasks'[t] \in Snapshot /\ None \notin Snapshot
      BY <3>1, NextTaskType, StoreAssumption DEF StoreAssumption, Command
    <3>3. JournalOf(t)' = JournalOf(t)
      BY <3>1, <3>2 DEF JournalOf, NextTask
    <3> QED
      BY <2>2, <3>3 DEF journals
  <2>4. CASE ApplyTransition(cmd)
    <3>1. Moved(t) /\ tasks[t] # None
      <4>1. Verdict(cmd) = "applied"
        BY <2>4 DEF ApplyTransition
      <4>2. /\ Log(t)' = Append(Log(t), NewRecord(cmd))
            /\ tasks'[t] = NewRecord(cmd).task_snapshot
        BY <2>0, <2>4 DEF ApplyTransition, TypeOK, Log
      <4>3. tasks'[t] = NextTask(tasks[t], cmd.transition, "applied")
        BY <4>2 DEF NewRecord
      <4>4. tasks[t] \in Snapshot /\ NewRecord(cmd) \in TransitionRecord
        BY <4>1, NewRecordType
      <4>5. /\ tasks[t] # None
            /\ tasks[t].state = cmd.transition.from
            /\ ContractError(cmd.transition) = None
        BY <4>1, VerdictOfStoredTask, AppliedIsLegal
      <4> QED
        BY <4>2, <4>3, <4>4, <4>5 DEF Moved
    <3>2. PICK s : /\ << tasks[t].state, s >> \in Edges
                   /\ JournalOf(t)' = Append(JournalOf(t), s)
      BY <1>0, <2>0, <3>1, JournalMove
    <3>3. /\ JournalOf(t) # << >>
          /\ JournalOf(t)[Len(JournalOf(t))] = tasks[t].state
      <4>1. Log(t) \in Seq(TransitionRecord)
        BY <2>0 DEF TypeOK, Log
      <4> QED
        BY <1>0, <2>0, <3>1, <4>1, JournalShape, LenProperties, EmptySeq
    <3>4. journals' = [journals EXCEPT ![t] = Append(JournalOf(t), s)]
      BY <2>0, <2>2, <3>2 DEF journals
    <3>5. s \in {e[2] : e \in {e \in Edges : e[1] = tasks[t].state}}
      <4> DEFINE e == << tasks[t].state, s >>
      <4>1. e \in Edges /\ e[1] = tasks[t].state /\ e[2] = s
        BY <3>2
      <4> HIDE DEF e
      <4> QED
        BY <4>1
    <3>6. journals[t] = JournalOf(t)
      BY <2>0 DEF journals
    <3>7. Journal!Move(t)
      BY <3>3, <3>4, <3>5, <3>6 DEF Journal!Move, journals
    <3> QED
      BY <2>0, <3>7 DEF Journal!JournalNext
  <2> QED
    BY <1>2, <2>1, <2>3, <2>4 DEF AppendTransition
<1>3. CASE Reset
  <2>1. \A u \in TaskIds : JournalOf(u)' = << >>
    BY <1>3 DEF Reset, JournalOf
  <2> QED
    BY <2>1 DEF Journal!JournalNext, Journal!Forget
<1>4. CASE UNCHANGED vars
  BY <1>4, OtherJournals DEF vars, Untouched, journals, Log
<1> QED
  BY <1>1, <1>2, <1>3, <1>4 DEF Next

\* The store implements the journal: every behaviour of any clients is, task
\* by task, a walk along the contract table that is never rewritten.
THEOREM StoreImplementsJournal == Reput = {} /\ Spec => RefinesJournal
<1> SUFFICES ASSUME Reput = {} PROVE Spec => RefinesJournal
  OBVIOUS
<1>1. Init => Journal!JournalInit
  BY DEF Init, Journal!JournalInit, JournalOf
<1>2. TypeOK /\ TypeOK' /\ LogIsChain /\ LogIsChain' /\ [Next]_vars
        => [Journal!JournalNext]_journals
  BY JournalStep
<1> QED
  BY <1>1, <1>2, TypeCorrect, LogIsAlwaysChain, PTL
     DEF Spec, RefinesJournal, Journal!JournalSpec, journals
=============================================================================
