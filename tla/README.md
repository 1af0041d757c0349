# Carpet: specifications, model checks and proofs

Carpet is a control plane for agent work: a task arrives as a Matrix event, a
runtime drives it through a fixed lifecycle, a worker (Codex) produces a patch
and evidence, a verifier checks the proof, a human approves one exact action,
and only then is a pull request created. Everything in the repository at this
commit is in memory or behind an injected runner; what it gets right or wrong
is the order of its steps. This directory models that order in TLA+, checks it
with TLC and proves every safety property of the models with TLAPS.

## 1. Inventory

| Component | State | Operations | Modelled in |
|---|---|---|---|
| Task state machine, `packages/state-machine` | none (a table) | `applyTaskTransition` | `TaskLifecycle` |
| Task store, `packages/runtime-store/src/in-memory-task-store.ts` | task snapshots, log per task, answer per command id, idempotency ledger | `putTaskSnapshot`, `appendTransition`, `reset`, reads | `TaskStore`, abstractly `TaskJournal` |
| Snapshot file, `packages/runtime-store/src/durable-snapshot-exporter.ts` | the file at a path, `${path}.tmp` | export, write, read | `OrchestratorRun` |
| Approval gate, `packages/approval-gate` | approvals, used ids, denials | `grant`, `deny`, `previewAuthorize`, `authorize` | `ApprovalGate` |
| Approval projection and intake, `apps/runtime-orchestrator/src/approval-projection.ts` | used projection ids, used approval ids | project, `accept` | `GitHubPrAdapter` (partly) |
| Runtime-owned GitHub adapter, `packages/github-adapter` | list of pull requests | `createPullRequest` (asynchronous, runs `gh`) | `GitHubPrAdapter` |
| Fake GitHub adapter, same package | simulated pull request per key | `createPullRequest` | `FakePrAdapter` |
| Orchestrator, `apps/runtime-orchestrator` | one run: store, gate, ledger, artifact list, file | `runRuntimeOrchestratorFromMatrixEvent`, `runRuntimeOrchestrator` | `OrchestratorRun`, `EvidencePipeline` |
| Matrix gateway, `apps/matrix-appservice` | processed transaction and event ids, queue | `PUT /transactions/{txn}` | `MatrixGateway` |
| Capability router, `packages/capability-router` | none | `routeCapability` | `CapabilityRouting` |
| Policy engine, `packages/policy-engine` | none | `decidePolicy` | `PolicyDecision` |
| Work cell manager, `packages/work-cell-manager` | none | `createWorkCell` | `PolicyDecision` |
| Worker runner and codex exec runner, `apps/worker-runner` | a process under way | `runFakeCodexWorker`, `runCodexExecSmoke` | `WorkerEvidence`, `EvidencePipeline` |
| Proof ledger and verifier, `packages/proof-ledger` | proofs by id | `createProofFromWorkerArtifacts`, `append`, `verifyProof` | `ProofLedger`, `EvidencePipeline` |
| Memory curator, `workers/memory-curator-worker` | none | `createMemoryProposal` | `ProofLedger`, `EvidencePipeline` |
| Matrix projection adapter, schema validators | none | one conversion each | not modelled |

How they interact. The gateway turns Matrix events into runtime events in a
queue; a run takes one of them (or a default context) and works alone: it calls
the store synchronously once per transition, awaits the worker, asks the
adapter for a pull request before anything is granted (and is refused), hands
the human's answer to the intake, grants it at the gate, asks the adapter again
and awaits `gh`, and then exports the store to a file and reads it back. Store,
gate and adapter share nothing between runs but GitHub and the file system.

What is hard in it:

* `createPullRequest` checks an approval with a preview, goes on checking,
  spends it, and then awaits a process whose answer may be lost; other calls,
  answers, denials and the clock go on meanwhile.
* The store answers a repeated command from memory whatever it asks for, and
  keeps four maps in agreement.
* The gateway commits event by event and may throw in the middle of a
  transaction that the homeserver then sends again.
* A run may be killed between the pull request and the record of it, or while
  it writes the file the next run will find.
* What makes a proof good is checked in four places (worker runner, proof
  builder, ledger, memory curator), each with its own idea of a path, a passing
  validation or a success.

What makes each correct, in short: logs are chains through legal edges and end
where the store says the task is; an answer is final; an approval is used once,
for what it says, in its time; one approval starts `gh` once; a listed pull
request exists; accepted work is queued once, in order, before its transaction
is acknowledged; the snapshot file is whole and tells the truth; an event has
at most one pull request; work starts only where registry, policy and work cell
agree; the ledger holds proofs of work that was good, and no others. `PROJECT.json`
lists the hazards with their lines and the properties that cover them.

## 2. Modules

| Module | Stands for | Composes |
|---|---|---|
| `TaskLifecycle` | `task-state-machine.ts` as pure operators | |
| `TaskJournal` | abstract specification: per task, a list of states that only grows along legal edges | |
| `TaskStore` | the store, one call is one step | EXTENDS `TaskLifecycle`, INSTANCE `TaskJournal` |
| `ApprovalGate` | the gate, one call is one step, and the clock | |
| `GitHubPrAdapter` | intake, grant and the asynchronous adapter | EXTENDS `ApprovalGate` |
| `FakePrAdapter` | the fake adapter | EXTENDS `ApprovalGate` |
| `MatrixGateway` | listener and transaction handler, homeserver and network | |
| `OrchestratorRun` | runs, the events they are for, their stores, GitHub, the snapshot files | INSTANCE `TaskStore` |
| `Refusals`, `PathPatterns` | how the code collects reasons to refuse; its two path matchers | |
| `CapabilityRouting` | `routeCapability` | EXTENDS `Refusals` |
| `PolicyDecision` | `decidePolicy`, `createWorkCell` | EXTENDS `Refusals`, `PathPatterns` |
| `WorkerEvidence` | stream parser, worker runner, codex exec runner | EXTENDS `Refusals`, `PathPatterns` |
| `ProofLedger` | proof builder, verifier, memory proposal | EXTENDS `WorkerEvidence` |
| `EvidencePipeline` | a run from routing to memory proposal, and the ledger | EXTENDS the three above |
| `MC...` | instances for TLC | |
| `TaskStoreProofs`, `ApprovalGateProofs` | theorems of store and gate | |
| `GitHubPrAdapterProofs`, `FakePrAdapterProofs` | theorems of the adapters | EXTEND `ApprovalGateProofs` |
| `MatrixGatewayProofs` | theorems of the gateway | |
| `OrchestratorRunProofs` | theorems of the runs | INSTANCE `TaskStoreProofs` |
| `EvidencePipelineProofs` | theorems of the pipeline | |
| `LeastIndex` | least elements of sets of numbers, and induction over the turns of a loop | |

Names follow the source. Correspondence, where it is not one to one:

* **TaskStore.** JavaScript runs a method to its end, so `appendTransition` is
  one step; it is written as four actions by the way the call ends:
  `ReplayResult` (the command id is known), `RejectTransition`,
  `NoopTransition`, `ApplyTransition`. `Verdict` is the store's two checks
  followed by `applyTaskTransition`. Reference lists are sets (`appendRef`
  never adds one twice); time stamps, risk and workspace ids are left out.
  `Reput` is the set of tasks that callers may overwrite with
  `putTaskSnapshot`: the code allows it for any, its only caller for none.
* **ApprovalGate.** `approvals` is the Map and `granted` its keys in insertion
  order, which decides which approval a request without an id finds. A target
  is one value, since the code compares it as a whole. `authorized` is history.
* **GitHubPrAdapter.** A call is one step up to the launch of the runner
  (there is no `await` in it) and one from its result. A call's input carries
  the place where its own checks fail (`flaw`), which is all that the long list
  of validators means to the protocol. `safeId` is a constant function that
  need not be injective. Intake and gate read the clock one after the other:
  an answer may be taken and its grant refused because the approval ran out in
  between, which loses the answer, as an unverified proof does.
* **MatrixGateway.** A request is one step (`handle` is synchronous); `Loop`
  is what the gateway holds after each turn of the loop over its events. What becomes of an event is its `kind`:
  accepted, rejected, rejected and unmappable, or malformed; the last two make
  `handle` throw with the events before committed. There is no handler for a
  rejected promise in the repository, so under Node's default the process then
  ends: `CrashAndRestart`, which may also happen at any other time.
* **OrchestratorRun.** A run's script is the list of its calls of
  `transition()`; a stage names what it awaits or does between them. Every run
  has a store of its own with one task in it, so the stores of all runs are one
  `TaskStore` whose task ids are the runs; its actions are used as they are.
  File names point to inodes, because a writer goes on writing to the file it
  opened after another one renamed it. A crash is a killed process; a machine
  that loses power before the data reach the disk is not modelled.

  A run is for one event, from which it derives its ids again each time
  (`runtimeContextFromMatrixEvent`); `sanitized` is a constant function that
  need not be injective, as `sanitizeRuntimeId` is not. The target of the pull
  request is named after the run id. GitHub (external) takes one open pull
  request of a head and base and fails `gh` on another; pull requests stay open.
* **FakePrAdapter.** The gate is shared with another executor, so that its
  approvals may be spent, denied or expired by others at any time.
* **EvidencePipeline.** The same run seen from its evidence. The orchestrator
  gives the checks fixed inputs; the module gives them any of a set, because the
  packages are written for callers that do. Functions that refuse for several
  reasons are records of named checks; the code order decides which name is
  answered (`FirstOf`). `truth`, `work` and `madeFrom` are history: what the
  worker really did, which the properties speak of. A ledger is one for all
  runs, where the orchestrator makes one per run: the package allows both, and
  only a shared one can overwrite an entry. Of a proof's hashes and log contents
  nothing is modelled: the orchestrator hashes what it records itself and passes
  no logs.

## 3. Runs

| Run | States | Shows |
|---|---|---|
| `store_lifecycle` | 16 thousand | one task against all 30 contracts, one malformed command per refusal and one repeated transition |
| `store_clients` | 53 thousand | two tasks, one overwritten at any time, command ids and transition ids reused with other contents, a pull request asked for before its approval |
| `store_approved_proof` | violation | finding 1 |
| `gate_denial` | violation | finding 2 |
| `github_pr` | 21 thousand | three calls, three approval ids, two with colliding projection ids, one for an unverified proof |
| `fake_pr` | 250 thousand | the gate with two approval ids, two actions, two targets and two proofs, over all orders of grant, denial, use and time, used by the fake adapter and by another executor |
| `gateway_retries` | 1.5 thousand | three transactions with repeats and a throwing event, two copies of each under way, one restart |
| `gateway_rejected` | violation | finding 3 |
| `orchestrator_files` | 149 thousand | three runs one after the other on one path: two on GitHub for one event, one for an event with the same run id; crashes and failures anywhere |
| `orchestrator_shared` | 8 thousand | two runs for one event at once on one path, one of them on GitHub, and one for a rejected event |
| `pipeline` | 19 thousand | two runs in turn with one proof id, inputs that fail each check, streams of up to three lines |
| `evidence_exit_code` | violation | finding 4 |

Bounds, and why they are enough:

* *Store.* Properties speak of one task, of two neighbouring log entries or of
  one command id, so two tasks and three command ids reach every interplay; the
  lifecycle run has the whole table. Its state constraint `MaxRefusals` cuts
  behaviours after their second refusal: every refusal is remembered, and they
  differ only in what is remembered. The theorems hold without any bound.
* *Gate.* `MaxTime` has an approval live, at its limit and past it. Two ids
  give one that is spent and one that is not in the same scope.
* *Adapter.* Three calls: one that runs, one that retries, one beside them.
* *Gateway.* `MaxInFlight` = 2 is a request and its retry; `MaxCrashes` = 1 is
  a restart in every state. Transactions are constants; the instances repeat an
  event in one transaction, over two, and around the one that throws.
* *Runs.* Three runs: one that leaves a file, one that leaves a broken
  temporary file, one that finds both. `CHECK_DEADLOCK FALSE` because a run may
  end and nobody has to start another.

* *Pipeline.* Every check has an input that is in order and one or more that
  differ from it in what the check looks at; routes, requests and worktrees are
  not all multiplied with one another (`McDispatchInputs`), since the checks
  before a dispatch share no field but the route. Three lines of a stream are
  two commands and a turn, or a command and two turns; `r1` and `r2` alternate
  and share a proof id, so every entry is overwritten by one of the other run.

Fairness is assumed in `MatrixGateway` alone. The homeserver keeps sending (weak
fairness of `Send`); of what is sent again and again some arrives, in both
directions (strong fairness of handling and of `ReceiveOk`): that is the
Matrix protocol's retry and an unreliable network that is not cut for ever, and
Node's event loop, which serves a request it has read. Nothing is assumed of
the worker or of `gh`: the code has no timeout there, so no progress of a run
is claimed. Liveness of the queue holds only as long as it stays available,
which is the premise of `CleanPrefixIsAcknowledged`.

Each property has a mutant (an operator marked `Mutant:` before the definition
it changes) that TLC refutes it with.

## 4. Findings

1. **`pr_created` with another proof** (`store_approved_proof`).
   `docs/analysis/task-state-machine.md:65`: "Runtime created a PR using the
   approved proof reference." The state machine asks only that there is a proof
   reference; that it is the approved one is left to the caller.
2. **A denial does not stop a request that names a run** (`gate_denial`).
   `packages/approval-gate/test/approval-gate.test.ts:225`: "treats denial and
   timeout as terminal outcomes for that action". A denial has no `run_id`, and
   scopes are compared with it, so for requests of the runtime-owned adapter,
   which always name their run, an approval works after the denial.
3. **Rejected input that is retried for ever** (`gateway_rejected`).
   `docs/analysis/matrix-appservice-gateway.md:175`: "`200` for rejected input
   means the gateway handled the homeserver transaction and prevents retry
   loops." A rejected event with an id such as `task_` and a character outside
   the schema's pattern makes the rejection itself fail its schema; `handle`
   throws, the transaction is never committed, and the next try is the same.

4. **A proof with a validation that failed** (`evidence_exit_code`).
   `docs/analysis/07-security-threat-model.md:44`: "validation requires exit
   code 0 and log ref." `verifyProof` asks this of one validation; another one
   may have exited with 1, as long as the worker does not call it `failed`. The
   policy engine does ask it of every validation, but is not given the proof.

Two smaller observations have no run. `docs/analysis/capability-routing.md:86`
says that capabilities whose denied permissions conflict are filtered out and
the narrowest is preferred; `routeCapability` fails with `permission_denied` as
soon as one candidate denies, and with `ambiguous_capability` when two are left.
The two matchers of forbidden paths differ (`PathPatterns`); since the proof
builder applies the wider one, `LedgerIsBacked` holds all the same.

## 5. Proofs

`tlapm` proves these for every value of the constants. All invariants and
action properties of the runs of section 3 that pass are among them; the runs
show them on small instances and would show first if a change of the code made
one false.

| Theorem | Says |
|---|---|
| `TypeCorrect`, `GateTypeCorrect` | type invariants; the gate lists its keys once |
| `LogIsAlwaysChain` | every log is numbered, connected, and ends in the stored state |
| `RefsAreNeverLost` | references of the log stay with the task |
| `TasksMoveOnlyWithLog` | a task changes only with a log entry |
| `PrAlwaysNeedsHumanApproval` | `pr_created` directly follows a human approval |
| `PrAlwaysFollowsHappyPath` | a task put once, in `created`, reaches `pr_created` by every stage of the happy path in order |
| `AnswersAreFinal`, `AnswersAlwaysMatchLog` | answers never change; log, answers and ledger agree |
| `LogsAreAppendOnly` | logs only grow, also under overwriting |
| `StoreImplementsJournal` | the store implements `TaskJournal` when tasks are put once |
| `ApprovalIsUsedOnce` | one authorization per approval id, re-grants included |
| `AuthorizationsAreApproved`, `DenialsAreFinal` | what is authorized is approved, in time and not denied; denials stay |
| `GoodApprovalsWork` | an approval in order lets through the request that names it, and the one that names none unless an older approval of the scope is in the way, spent or expired |
| `AdapterIsGateClient`, `FakeAdapterIsGateClient` | every behaviour of an adapter is one of the gate |
| `AdapterTypeCorrect`, `OneRunOfEachApproval`, `EveryRunWasApproved`, `ListIsAlwaysReal` | type invariant; one start of `gh` per approval; each start was approved; what is listed exists |
| `NoAnswerIsWasted` | a human's yes is spent by a start of `gh` or still stands as it was shown; only an unverified proof or an expiry before the grant costs it |
| `RetriesAreIdempotent`, `EachPrOwnsItsApproval` | a stored pull request answers its retries; each stands on an approval of its own that nobody else spent |
| `GatewayTypeCorrect` | type invariant; nothing without an id is remembered |
| `WorkIsAlwaysQueuedOnce` | accepted work is in the queue once, if it was processed, and nothing else is |
| `AcknowledgedIsAlwaysComplete` | an acknowledged transaction was handled to its last event |
| `WorkIsAlwaysInOrder` | work is queued in the homeserver's order |
| `NoRunIsRefused` | no transition of a run's script is refused |
| `EventHasOnePr` | an event has at most one pull request |
| `TypesAreCorrect`, `SnapshotsAreClosed`, `WholeSnapshotIsReturned` | type invariant; what a snapshot refers to is in it; whoever else writes, a run returns only with a whole one |
| `FilesTellTheTruth`, `RunReadsItsOwn`, `FilesChangeByRename` | with one writer at a time: what a file holds of a pull request is so, a run reads what it wrote, files change whole |
| `PipelineTypeCorrect`, `CellsAreAuthorized` | type invariant; a work cell is made only where route, policy, approval and worktree agree |
| `LedgerHoldsGoodWork`, `GoodWorkIsNotRefused` | the ledger holds proofs of good work only; good work gets in |
| `ProposalsCiteEvidence` | a memory proposal cites what a proof of good work recorded |

**Assumptions.** They are on constants only, each in the module that declares
the constant, and TLC evaluates all of them.

* `StoreAssumption`, `GateAssumption`, `AdapterAssumption`, `RunAssumption`,
  `PipelineAssumption`, `GatewayAssumption`: types of the constants, and `None`
  outside the sets it must be told from. `GatewayAssumption` says of events that
  an id has one kind, and that only malformed ones have none.
* `FakePrAssumption`: `create_pr` is an action of the gate.
* `LiteralAssumption`, `NoneAssumption` (`OrchestratorRun`, `EvidencePipeline`):
  state names are strings, and `None` is none of the records and pairs it stands
  for the absence of. In TLA+ such values need not differ; in the code they do.
* `InputAssumption`, `DispatchAssumption`: the fields that the schemas give a
  final output, a request, a task and a worktree are there and have their types.
  What makes an input bad for the checks is left open.

**The arguments.**

* *Logs.* `LogIsChain` needs `TypeOK` and itself: `StepOnTask` says that a call
  leaves a task untouched, opens it, repeats its last transition without effect
  or moves it with one new entry, and each case keeps the chain. The second
  half of the chain (it ends in the stored state) is what makes the first half
  inductive, since the next transition starts from the stored state.
* *No effect of a noop.* `RefsNeverLost` is needed for `TaskMovesOnlyWithLog`:
  a repeated transition is the one in the log, so its references are there.
* *Approval.* Legal entries (each fits its contract), the chain, and that no
  log opens in `approved` give the entry before `pr_created`. For the whole
  happy path the invariant says that entry i leaves stage i of it, for the next
  stage or for a final state beside the path (`OnPath`); by the contracts
  nothing leads back from there (`PathContracts`).
* *Journal.* Each of the four cases of `StepOnTask` is a step of `TaskJournal`
  or a stutter; entries of other tasks are untouched.
* *Gate.* `SingleUse` is not inductive: a history entry says nothing of the
  next authorization until it is known that every authorized id is marked as
  used (`UseIsRemembered`). `GateTypeOK` needs the finiteness of the key set,
  which is added to the invariant. That a record in the Map names a verified
  proof (`GrantsAreVerified`) is what lets a named approval through. For a
  request without a name each record also has a key in the list
  (`KeysAreListed`), so that the first match is the approval or an older one
  (`OldestMatch`).
* *Adapters.* Each of their steps is one call of the gate or none, so the
  gate's invariants hold of them without a new proof. `OneRunPerApproval` needs
  that approvals are granted only for ids the intake has taken
  (`OnlyAcceptedGranted`): otherwise a second grant would replace the record a
  running call was launched with. For `AnswersAreNotWasted` the intake must be
  known to mark the projection id of every answer, and the gate to spend only
  answered approvals (`AnswersInv`). The fake adapter keeps accounts: every
  authorization is booked to one stored pull request or to another executor
  (`Booked`), nobody spends twice (`Spent`), and the numbers agree (`Balanced`,
  with the library's facts on cardinality).
* *Gateway.* While the process stays up, the ids it remembers are exactly those
  of the events before one place in the homeserver's order
  (`RemembersPrefix`): the start of the next transaction, or the place where
  that one throws. This is what makes `WorkIsInOrder` inductive. A new event is
  behind all that is queued, since all before it are remembered; and a
  transaction that is tried again after a throw adds nothing. That only the next
  transaction can be new (`SentInTurn`) rests on the homeserver's waiting for an
  answer. The loop is a recursive function; that it is defined at every turn,
  and what holds after every turn, is shown by a least counterexample
  (`LoopTurns`, `EveryTurn`).
* *Runs.* The script is a straight line, and `Place` says at which number of it
  a run can be in each stage. `OnScript` relates the store to it: log and state
  are the script so far, the references are those of the script, and nothing
  that is still to be sent was answered; so each call finds a task in its
  `from`-state, a fresh command and the references its contract asks for.
  `HasRecorded` adds what the run did beside the store. That the runs' stores
  are one `TaskStore` holds by how the module is written (`RunsImplementStore`);
  it is the lemma that carries the store's theorems over to every run.
* *One pull request per event.* Two runs of one event have the same run id,
  hence the same head branch, of which GitHub takes one.
* *Files.* Whoever writes, an inode holds the whole export of a run that
  completed its script, or nothing yet (`WholeContent`), and such a run's store
  no longer changes. With one writer at a time an inode also has one name, and
  the writer is at the one it opened (`InodesAreOwn`, `WriterAtWork`).
* *Evidence.* Each check is first shown to be equivalent to what it looks for
  (`RunnerAccepts`, `BuilderAccepts`, `BindingAccepts`, `VerifierAccepts`,
  `OutputAccepted`): the first failing name in the code's order is `ok` exactly
  when no named check fails. Then `truth` is what a parser finds in the stream
  (`TruthIsStream`), a success was checked against it (`Checked`), and a proof
  stands on the work it was made from (`Stands`). `NoGoodWorkIsRefused` needs
  the other direction of the same equivalences: where builder, ledger and
  verifier repeat a check, each repetition is weaker than what the runner has
  let through, although their path matchers differ. The cell follows from
  the same lemmas for router, policy and work cell manager; it needs no history.

**Checked by TLC only.** Liveness of the gateway (`CleanPrefixIsAcknowledged`):
it rests on fairness, which is beyond the prover used here, as are ENABLED,
induction over data and RECURSIVE operators; the modules declare no RECURSIVE
operator. The violations of section 4 are counterexamples, to be found by TLC.
That `SingleWriter` is needed for the file theorems is in `orchestrator_shared`,
which has two writers and checks what holds all the same.

## 6. Plan

Done: sections 2 to 5, in the order store, gate, adapters, gateway, runs,
evidence; and the theorems for each of them.

Next: the gateway's queue feeding the runs, as one `RuntimeSystem` with an
abstract specification (each accepted event leads to at most one pull request),
for which `WorkIsAlwaysQueuedOnce` and `EventHasOnePr` are the two halves; its
refinement would be proved from them.

## 7. Not modelled

Text: redaction, secret patterns, message bodies, Markdown of pull requests and
Matrix messages; they decide whether a call is refused, which the models choose
freely where it matters. The Matrix projection adapter is such a text function
that nothing else calls. Ajv, and the schemas but for the two that judge
evidence. Hashes: the recorder computes them over what it records. The command
line and its summary file. Memory limits. Docs, fixtures, examples and the
vertical smoke runner.
