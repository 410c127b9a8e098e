# Verification of open-okf-wiki

TLA+ models, TLC configurations and TLAPS proofs for the program in this repository: the
durable control plane of a *Wiki Run* (`packages/workflow`), the *sealed publication* of its
result (`packages/core`), the server that owns workspaces, leases and sessions
(`packages/server`), and what a browser makes of all that (`packages/web`).

1 the system · 2 the modules and the code · 3 what is checked · 4 what is proved ·
5 disagreements between code and documentation · 6 what is not modelled · 7 plan

## 1. The system

A Wiki Run turns source repositories into a Wiki. `openWikiRuns` (`wiki-runs.ts`) opens one
workspace's SQLite store and owns it; nodes of an execution graph become *ready*, the
scheduler *claims* them as attempts, an executor (a language-model session or a mechanical
step) works on each, and its artifacts are sealed and committed. At the end a candidate is
sealed, the operator approves it, and the `publish` node swaps it onto the published path.
The operator follows and steers the run, its settings and a conversation in a browser.

| Component | State it keeps | Operations | Talks to |
|---|---|---|---|
| Run control (`wiki-runs/*.ts`) | rows: runs, nodes per generation, attempts, attempt_inputs, node_outputs, artifact_preparations; in memory: one promise and AbortController per attempt | claim, bind inputs, seal, commit, fail, auto retry, suspend, cancel, pause, resume, retry, rerun, answer, close, recover | executors (promise), artifact store (await), commands (transaction) |
| Scheduler hand-over (`wiki-runs.ts`, `scheduler.ts`) | `scheduler` promise, `schedulerAgain`, `activeExecutions` | schedule, loop, drain, cancel_run and close wait | every command |
| Gates (`gate-open.ts`, `gate-resolve.ts`) | gates: kind, node, generation, state, expiry; one timer | open, resolve, withdraw, expire | run control rows, publication effects |
| Plan topology, scouts (`plan-*.ts`, `dag.ts`, `run-revision-coordinator.ts`) | plan, scout waves, sufficiency rounds, leaves added to the graph | materialise, adapt, rescout, revise | run control rows |
| Plan coverage (`plan-scouts.ts`, `coverage.ts`, `discovery-map-merge.ts`) | required units, receipts, map, gaps | select, merge, assert, rescout | freeze, plan |
| Freeze (`freeze.ts`, `repository-snapshot.ts`) | copies of sources and Skill, the pin | capture, pin, verify, clear | run control rows, file system |
| Evaluation and repair (`repair-schedule.ts`, `evaluation/`) | evaluation rounds, review seats, repair nodes, budgets | schedule, reduce, repair, continue | run control rows |
| Wiki content (`wiki-*.ts`, `citations-*.ts`, `okf-stamp.ts`) | trees of pages, listings, log, citations | validate, fix, materialise a candidate | prepare.publication |
| Publication effect (`publication-effect.ts`, `publication-control.ts`, `mechanical/publish.ts`) | effects: state, sealed digest, expected live digest | prepare, cancel, begin apply, report, reconcile on open | publication gate, sealed apply, run state |
| Sealed apply (`publication/apply.ts`) | the directories live, `.next.<token>`, `.prev.<token>`, the apply marker | apply, reconcile | file system, publication lock, the effect's compare-and-set (callback) |
| Publication lock (`atomicity.ts`, `publication/lock.ts`) | promise tail per path (memory), lock directory (disk, shared by servers) | acquire, reclaim when stale, run, release | file system |
| Command log and events (`commands.ts`, `ctx.ts`, `sse/`) | idempotency by command id, run revision, event sequence | dispatch, append event, read after cursor | server, web |
| Workspace store (`workspace-config.ts`, `workspace-patch.ts`) | `workspace.json` with a revision, lease files with a holder's pid, deletion markers, list of recent workspaces | compare-and-swap edit, create, delete, recover, reset | every request, other servers |
| Server (`wiki-runs-registry.ts`, `operator-session/`, `routes/`) | registry of open owners, live sessions, fences, SSE subscriptions | open, close, retire, send, steer, abort, replay | run control, agent sessions |
| Provider catalogue (`provider-catalog.ts`) | `provider.json` | migrate, create, update, delete, test, list | settings page, runs |
| Attempt trace (`attempt-transcript-sink.ts`, `transcript-io.ts`) | one bounded JSONL file per attempt | append, finalise, read by page | browser |
| Web client (`packages/web`) | snapshots, timelines, transcripts, forms, the graph's layout | load, stream, dispatch, draw, review | server |
| Skill package, contract schemas | prompts and zod schemas | - | all |

What is hard about it:

* a transaction is atomic, but everything between two transactions is an `await`: executing,
  sealing and committing one attempt are separate steps, with commands, other attempts, a
  close or a crash between them;
* rows survive a crash, workers do not; recovery must tell a prepared success from the
  evidence of a failure;
* nodes have generations: a rerun supersedes rows that running attempts and open questions
  still refer to, and repairs rearm a part of a graph that has already run;
* the graph grows while the run goes on: scouts in waves, gaps, leaves, repairs;
* the swap is several renames and marker writes, each of which may fail or be the last; the
  effect's row is changed by callbacks in the middle of it;
* the publish worker goes on after its attempt was paused, cancelled or superseded, and the
  operator may rerun the Writer between the approval of a candidate and its apply;
* lock directories and lease files are shared by servers that share no memory, and are
  reclaimed by age or by the death of their holder;
* a page has three sources of truth (answers of GETs, a stream, its own drafts) that arrive
  in any order, and its commands are delivered at least once.

What makes each part correct: attempts and nodes stay leased to each other, superseded attempts
commit nothing, a cancel is final, inputs are the current outputs, questions stay answerable,
no wake-up is lost, the store reopens (run control); gates are decided once and in the end
(gates); budgets hold and a round is about one Wiki (evaluation); the plan is made of all that
was found (planning); a pin is for ever (freeze); what was validated is published (content);
the lock and the leases exclude (locks); the swap is atomic, its reported outcome true, and the
Wiki does not disappear (publication); a removal is final and nobody works in it (store,
server); one click counts once, and what is shown is whole, true and in the end current
(browser). PROJECT.json lists the hazards line by line with the property that covers each, or
what the code does where none can hold; its map names for every definition the lines it stands
for, and leaves out small helpers whose lines another definition of the same module stands for.

## 2. The modules and the code

One module per component, parameterised by CONSTANTS; every bound is a constant named
`Max...`. Modules ending in *MC* give constants their values: most are *suites*, whose first
state chooses a *scene* (one component with one choice of constants) and whose properties are
conjunctions of the components' own, each in the scenes where it is asked. Modules ending in
*Proofs* hold theorems. A definition marked *Mutant* is a defective form of the definition
that follows it, with which a property is known to fail; no specification uses them.

### Run control

**RunControl** is one run of an arbitrary graph (`Keys`, `Upstream`). State is the rows, plus
`work`/`said` (the worker's memory), `prep` (sealed groups not committed yet) and `owner`
(the process). An artifact is named by the attempt that sealed it; an input envelope is the
set of artifacts it mounts. Each action is one transaction or one await:

| Action | Code |
|---|---|
| `Claim` | `claimReadyNode`, `claimPreparedRow`, `bindAttemptInputs` (scheduler.ts, attempt-inputs.ts) |
| `ExecutorSettles`, `Seal` | the executor's promise; `prepareUnsealedArtifact`, `sealPreparation` |
| `WorkerCommits`, `WorkerCommitsEvidence` | `commitSuccessfulAttempt` with `onAttemptSucceeded`; `commitFailedAttemptArtifacts` |
| `WorkerFails`, `WorkerSuspends`, `WorkerLeaves` | `failNode` with auto retry; `suspendForOperatorInput`; the loss of `isCurrent` |
| `CancelRun`, `PauseRun`, `ResumeRun`, `RetryFailedNode`, `RerunNode`, `AnswerGate` | commands.ts, run-terminal.ts, gate-resolve.ts |
| `Close`, `Crash`, `Open`, `RecoverGroup`, `RecoverInterrupt` | `close`, `recover` and attempt-finish/recover.ts |

Only operator-input gates are here. `Envelope` models `retrySourceAttempt` and
`operatorContinuationSource`: a retry keeps the frozen envelope, a continuation that of the
attempt that asked.

**SchedulerWake** has the promises: `schedule()`, the loop that claims, races and drains, the
executions in flight (`flying`, also those a pause has retired), and the waits of cancel_run
and close(). The claim of a node in `Throwing` may throw: the loop is rejected with what it
waited for in flight, and `thrown` remembers it. `SameTurn` lets two commands be dispatched
before the microtasks of the first have run. **GateExpiry** has the one timer for the gates of
all runs, from in time to late, over pauses, answers, closes and crashes.

**PlanTopology** has the graph before the Writer: freeze, two waves of scouts of which some
are optional, the reduction, the plan and its gate, rounds of rescouting for gaps, retries,
reruns, revisions; `write` stands for the frontier of the execution graph, left running.
**EvaluationRound** has validation, the review seat, reduction, fix gate, mechanical repairs
and continuations, the candidate cap and both budgets, retries and reruns of the Writer. A
Wiki is a version; a model attempt always writes a new one (ADR 0037); one seat stands for
the council. **PlanCoverage** has the units that a plan needs, the scouts chosen for them,
the merge of receipts, the gates on a sealed Spec and the gaps. **FreezeRun** has the
executions of a freeze step by step: copies, seal, pin, reuse of a pin, clearing.

**PublishTail** is the end of every execution graph as execution-graph.ts builds it: Writer,
review, fix gate, final validation, preparation, publication gate, publish. It looks at the
rows RunControl leaves out: gates and their decisions, effects with candidate and baseline,
the published Wiki, and the workers that publish, which nothing stops (`mechanicalPublish`
does not look at the abort signal). One effect per generation of prepare.publication; a Wiki
is the generation of write.root that wrote it.

| Action | Code |
|---|---|
| `Claim`, `Succeed`, `Fail` | scheduler.ts; `onAttemptSucceeded`, `failNode` with `recomputeRunState` |
| `ReviewIsClean`, `ReviewBlocks`, `PrepareSucceeds` | `autoPassFixGate`, `openFixGate`, `openPublicationGate` |
| `Pick`, `Begin`, `BeginThrows`, `Swap`, `SwapThrows`, `Reconcile`, `RecordApplied`, `RecordConflict`, `PublishEnds` | `mechanicalPublish`, `beginPublicationApply`, `onPublicationApplyResult`, `reconcileApplyingEffect`, `failNode` |
| `Approve`, `Restart`, `Deny`, `ResolveFix` | `resolveGate` with `applyPublicationGateDecision`, `restartPublicationCandidate`, `applyFixGateDecision` |
| `RerunNode`, `RetryFailedNode`, `CancelRun`, `PauseRun`, `ResumeRun` | commands.ts, run-terminal.ts, run-revision-coordinator.ts |
| `Crash`, `Close`, `Closed`, `Recover` | `close`, `recover` (wiki-runs.ts) |

`Swap` is one step here and its errors are rolled back, complete, or (`SwapThrows`, with
`LateErrors`) thrown after the tree is live: that is what PublicationApply shows of it.
`BeginThrows` is an error before the worker's own compare-and-set: it fails a ready effect,
but if another worker is applying it, this one too goes to reconciliation.
Writer and validate.pre are one node, and so are the review seats and review.reduce; queued
and running are one run state.

### Publication

**DirLock** is `withPublicationLock`: the promise chain per key (`withPerKeyMutex`: `Call`,
`Forget`, `MyTurn`) and the lock directory (`Acquire`, `Stat`, `Reclaim`, `Retry`, `Leave`),
one action per file-system call. `Crash` leaves the directory, `Age` makes it older than the
staleness limit. `Ages` and `CanOverstay` say whether that may happen at all, and to a live
holder.

**AtomicPublish** is the promise: a candidate replaces the baseline it was approved for in one
step, or never; the outcome tells which. **PublicationApply** has one action per file-system
call of `applySealedPublicationCandidate` (`Check` ... `Leave`) and of
`reconcilePublicationApply` (`Inspect` ... `Give`), the callback `Begin`
(`beginPublicationApply`), the results (`Report`, `Reject`, `Settle`), crashes, failing calls
and foreign publications (`Edit`). `RollBack` moves the old tree back after a failed rename, or
fails in that as well and leaves it for reconciliation. The lock is the interface of DirLock
seen by one server: a chain (`queue`), a holder and the residue of a crash. The refinement
shows the tree moved aside while live is missing: that is what a reader is owed.

**WikiPublish** has what preparation does to a tree: stamps, listings, log, validation
before and after, generate and refresh. **Citations** has the repair of a citation, the
validations and its rewriting in the published tree.

### Store and server

**FileLease** is `acquireAtomicFileLease`: link, read, rename, unlink are steps. Edits, visits,
owners and resets hold it. Only edits are queued in their process (`withPerKeyMutex`): a visit
(`Visit`: the start of a creation, or the recovery of an interrupted deletion) takes the config
lease at once, and so do owners and resets the control store's. `robbed` remembers that a
rename has taken a lock file from a process that is alive. **WorkspaceLifecycle** has creation,
deletion, its recovery and the list of workspaces, with the requests beside them, in several
servers; the config lease is a mutex there, which FileLease shows it to be until `robbed`.
**OwnerRegistry** is the registry of one server: opening, operation leases, fences, retirement.
**OperatorSessions** has the live session handles: opening, attaching, invalidation by an edit,
deletion, the event stream's subscription and snapshot; **SessionTurns** the turns of one
session, its bubbles and its stream of patches.

### Browser

**RunObservation** is a page that follows and steers a run: load, EventSource, poll, retries of
a command after a refused revision, lost answers, duplicated POSTs, restarts; `Kind` says which
page. **AttemptTrace** is a trace from the two writers of its file over pages and stream to the
timeline; a job of the sink appends the text it has collected (`FlushText`) and then its own
row (`Work`), in two appends, and a long text queues a flush of its own. **ConversationFold**
folds a session's events into rows, on both sides of the wire. **NodeRecovery** EXTENDS
RunControl by the page: which actions a node offers, and which attempt is selected.
**CandidateReview** is the page on which a candidate is read, commented and compared.
**WorkspaceSettings** and **ProviderCatalog** are the settings' forms with the code that stores
them, **RunGraph** the graph of a run: projection, stages, layout, view.

`None`-like values are constants or strings; where a component is external (Pi's agent, ELK,
git, the operating system's files) the map marks its definition so, and the model has what
the code in src/ relies on.

## 3. What is checked

States are distinct states with two workers; every run ends within two minutes.

| Run | Module | States | Properties |
|---|---|---|---|
| rows | RunControlMC | 624 k | TypeOK, AttemptsAreLeased, StallsOnlyOnFailure, AnswersArrive, HistoryIsConsistent, RerunIsConsistent, LateAttemptsCannotCommit, CancelIsFinal |
| tail | PublishTailMC | 1.18 M | TypeOK, CandidateIsAccounted, DecisionsAreFinal |
| unreviewed | PublishTailMC | counterexample | OnlyReviewedOffered |
| control | ControlMC | 66 k | NoneIsLeftBehind, GateIsDecidedOnce, WorkGoesOn, WaitsEnd |
| planning | PlanningMC | 464 k | BudgetsAreKept, EvaluationIsOfOneWiki, PlanIsOfDiscovery, PlanningEnds |
| unapproved | PlanningMC | counterexample | ApprovedPlanIsWritten |
| swap | PublicationMC | 133 k | CrashesAreReconciled, ImplementsAtomicPublish, ApplyingSettles |
| faults | PublicationMC | 736 k | OutcomeIsHonest |
| reclaim | StorageMC | counterexample | MutualExclusion |
| storage | StorageMC | 375 k | TypeOK, MutualExclusion, ServedInOrder, LeaseExcludes, RemovalIsFinal, OwnerIsGuarded, SessionsAreExclusive, ResetSparesOwner, StorageAnswers |
| browser | BrowserMC | 852 k | ClicksCountOnce, ViewGoesForward, ShownIsWhole, BrowserCatchesUp |
| workbench | WorkbenchMC | 563 k | NothingIsLost, ShownIsTrue, OnlyTheNamedChanges, WorkIsAnswered |

What the runs show, and on which instance:

* **rows.** Scene *branches*: two branches joined by publish run at the same time, the draft
  asks the operator, the review fails with partial artifacts and is retried automatically;
  cancel, pause, one close, one crash, three attempts. Scene *rerun*: a chain of three whose
  middle may ask, seal partially or be retried; retry and rerun; one crash, four attempts.
  No row points to an attempt that is over, nothing late commits, and what has succeeded was
  made from the current outputs.
* **tail.** Every decision and command on two generations of the Writer with two publish
  attempts, one foreign publication and one upset (crash, close, pause, rerun or retry), an
  apply that fails after its swap included. The invariants hold with two upsets as well.
* **control.** Scene *wake*: five nodes of two runs and three kinds of limits, commands that
  arrive while the loop leaves, and one node whose claim may throw: until it has thrown no
  wake-up is lost and close() is quiet, and cancel_run is quiet in any case. *live*: two nodes
  of RunControl under fairness with cancel, pause and close. *gates*: two gates whose expiry meets an answer, a
  pause, a restart. *reopen*: a store reopened after a crash with fairness, with no
  evidence-only failure (section 5).
* **planning.** *budgets* (the constants of the cfg): automatic repairs of both kinds, three
  repair keys, one failure, one rerun, up to both budgets and the cap. *rounds*: the same cycle
  with an operator who answers every gate and retries twice.
  *waves*, *discovery*, *light*: scouts in two waves with gaps, retries, reruns and revisions,
  without and with optional ones.
* **swap**, **faults.** Two effects, two foreign versions, two crashes. In *swap* everybody
  keeps to the lock and the server starts again when the lock is stale: the refinement. In
  *faults* two calls fail, the server may find its own lock, an editor heeds none.
* **storage.** Scenes *lock* (one server, three calls, two crashes, ageing), *edits*, *visit*,
  *owners*, *reset* (file leases: queued edits and a restart; the same beside a call that is
  not queued; two servers; two owners and a reset in three processes), *remove*, *keep*,
  *recreate*, *listed* (requests beside a deletion, across a restart), *owner* (registry),
  *edit*, *gone*, *leave* (sessions).
* **browser.** *steer*, *review*, *watch*, *index* (four kinds of pages with lost answers,
  late answers, a repeated POST and a restart), *trace*, *tail*, *stream* (an attempt's
  transcript), *shown* (a session's turns).
* **workbench.** Fifteen scenes of the modules from plan coverage to candidate review.

**Bounds.** Every bound is a constant named `Max...`. Two generations are enough for "old and
new"; three or four attempts cover an attempt, its retry and its continuation beside another
node; one crash falls into every step, two crashes also into the recovery of the first. Two
effects and two foreign versions make every pair of publishers meet, and two faults reach a
failing rename followed by a failing rollback. Three calls in one process give the chain a
first, a middle and a last. The chain and the join are the shapes from which larger graphs
are put together: lineage is transitive in the first and partial in the second. In *tail* a
revision or a conflict renews the candidate without counting as an upset, so that the upset
meets an old and a new candidate and two workers at once. In *browser* three or
four revisions are an older, the current and a newer truth, and two clicks a decision before
and after it.

**What the constants leave out.** Each choice hides a behaviour of the code that breaks a
property; section 5 tells which. The scene *rerun* has no key whose failure seals all its
outputs (`EvidenceKeys`) and one generation beyond the first; *reopen* likewise. *lock* has
one server, *control* one active run and no two commands in one turn, *swap* no prompt
restart; in *tail* `OnlyReviewedOffered`, `OpenGateHasCandidate`, `ReadyBinds` and
`OwnWikiIsNoConflict` are not asked. In *edits* and *visit* a server starts only when the
other is dead (`Alone`); in *visit* and *reset* exclusion is asked until a live lock has been
taken away (`robbed`). The settings' and catalogue's scenes change the
fields for which a save is faithful.

**Fairness.** `WF` on the scheduler, each worker, recovery, timers, polls, reconnects and the
server's start: the event loop runs what is enabled, an agent's session ends at its timeout
(`timeoutMs`, `packages/agent/src/runtime/run-scoped-agent.ts`), and a server that stopped is
started again. Commands, crashes, faults, lost answers, foreign publications and closing a
page are never fair. In PublicationApply calls to the file system return and time passes
(`AgeLock`); in DirLock the function under the lock returns.

**Deadlock** is not an error where a run may be finished, cancelled or waiting for the
operator, where all calls are served or the page is closed; that things go on is stated as
liveness instead.

## 4. What is proved

TLAPS proves the following for every value of the constants, under each module's named
assumptions (the graph's domain, finite numeric bounds, `None` no value, trees distinct).

| Module | Theorems |
|---|---|
| RunControlProofs | TypeCorrect, RunningLeased, AttemptsLeased, LateCannotCommit, CancellationIsFinal, AnswersDelivered, HistoryConsistent, StallsOnFailure, RerunReaches, PublicationIsFinal |
| DirLockProofs | TypeCorrect, ServedOneByOne, ExclusiveInOneServer, ExclusiveWithoutReclaim |
| PublicationApplyProofs | TypeCorrect, HonestOutcome, CrashesReconciled, SwapIsAtomic |
| PublishTailProofs | TypeCorrect, Accounted, DecisionsFinal, OwnWikiStands |
| SchedulerWakeProofs | TypeCorrect, CallsAreQuiet, NoWakeupIsLost, SlotsKept |
| RunObservationProofs | TypeCorrect, ClicksCount, ChangesOnce, NeverBack |
| EvaluationRoundProofs | RoundIsOfOneWiki, BudgetsHold, TypeCorrect |
| FileLeaseProofs | LeaseHoldsUntilRobbed, EditsAreCasInOneServer, ResetIsSafeUntilRobbed, OneOwnerOfTheStore, TypeCorrect |

The arguments:

* **RunControl.** A running attempt holds the lease of its node's live generation, and a
  running node has a running attempt. The two are inductive only with `LeaseIsHeld` (a lease
  points to a running attempt of that very row), which rules out that a handler releases one
  side only: `IInv` is their conjunction with the types. `LateCannotCommit` follows, since an
  attempt that ends passed `isCurrent` and `IInv` makes it the leased one.
  `CancellationIsFinal` adds that a cancelled run has no open gate (`CInv`), so that no answer
  brings it back.
* **History.** `HistoryInv` says row by row what the last attempt of a node is
  (`RowFits`), what an attempt has mounted and sealed (`AttemptFits`), that an envelope is
  either the live outputs of the upstreams or the one of the question it answers
  (`EnvelopeFits`), and to whom an open gate belongs (`GatesFit`). Retry, rerun and recovery
  are where it is easily lost: each rewrites rows to which frozen envelopes refer.
  `RecordInv` adds what an executor may have sealed and answered when its attempt ends or a
  crash comes (`WorkFits`), and that a row has an output just where it has succeeded, of the
  attempt that did (`RecordFits`). That holds of the nodes whose failures seal no evidence;
  of the others section 5 has the counterexample.
* **Progress.** `ProgressInv` adds that a node runs, waits or is done only on upstreams that
  are done (`LiveFits`), that publish has succeeded exactly in a published run
  (`PublishFits`) and that no question is open in a run that ended. A live run without
  anything active then has a failed node: otherwise take a node that has not succeeded and
  follow its unfinished upstreams, which must end as the graph is acyclic
  (`GraphIsAcyclic`). `PublishIsLast` says every node is upstream of publish.
  `NoStaleContinuation` (no node asks, or no rerun) is needed: without it two of the findings
  of section 5 contradict the theorems.
* **DirLock.** `QInv`: every unsettled call is chained to the call before it, and the tail is
  the last unsettled one. Hence one at a time in one process whatever grows old. Between
  servers `DirInv` (who is inside owns the directory) needs `~Ages`; the run *reclaim* shows
  that neither hypothesis may be dropped.
* **PublicationApply.** `OrderInv`: who holds the lock is first in the queue, and each state of
  an effect allows certain places of its worker. `HonestInv` adds what the effect's state tells
  about the tree (`TruthInv`), that a missing Wiki is the tree somebody
  unfinished has moved aside (`AsideInv`), and that nobody swaps while it is open whether a
  candidate that was live has been applied (`ShieldInv`). From it the
  reported outcome is true under any crashes, faults and editors. Without faults and foreign
  writers (`SteadyInv`, `CalmInv`) nothing ends unknown; and every step maps to a step of
  AtomicPublish or a stutter: lemmas classify them into quiet ones, the commit (the rename or
  the reconciliation that makes the candidate live) and the report.
* **PublishTail.** `IInv` says for every worker which of the effect's states it may have left
  behind (`WorkersFit`), that one worker applies (`OneApplies`), that a baseline
  is an older version (`BasesAreOlder`), that a swap is recorded before the lock is let go or
  the tree is the worker's (`SwapIsRecorded`), and where what is live comes from
  (`LiveIsAccounted`). Steps are of a worker, or *quiet* (they leave effects and tree
  alone), so that each lemma is about one class. `OwnWikiStands` needs `~LateErrors`; with it
  the code disagrees with ADR 0035.
* **SchedulerWake.** `LoopFits`: the loop waits for exactly the executions in flight, and
  leaves only when there are none or a claim has thrown; `CancelsFit` says for whom a cancel
  waits; `Rests` that nothing is claimable while nobody is in the loop. `NoWakeupIsLost` needs
  `~SameTurn`. `SlotsInv`: the limits hold at each claim and no other step adds a running
  attempt.
* **RunObservation.** `IInv` bounds the command ids by the clicks and their tries (`CountInv`)
  and the revision by the commands accepted (`CeilingInv`), says which answer a command id has
  (`AnswersInv`), and that of the ids sent for one click all but one were refused, for good
  since revisions only grow (`ClickInv`). `ClicksCount` needs that no conflict
  reopens a gate on this page, `ChangesOnce` does not; `NeverBack` holds for the pages that
  merge by revision, and is false of the others.
* **EvaluationRound.** A round is at one of nine stages (`Writing`, `UnderRepair`,
  `Validating`, `Reviewing`, `Reducing`, `Asking`, `Finishing`, `Finished`, `Denied`): each
  names the one node whose turn it is, what it is due to mount, and which nodes rest. `IInv`
  says that every round is at its stage and that everything current is about the newest
  version: outputs (`OutputsFit`), envelopes (`InputsFit`), the Writer and the repairs
  (`WriterFits`, `RepairsFit`), the findings a repair was asked to remove (`RequestsFit`) and
  an open recovery, which is of its candidate (`RecoveryFits`). A repair rearms its consumers
  only; that it reaches them all is `Lineage` as a least closed set, from which follows that
  nothing outside it has mounted anything of the round before. `RerunInv` states `IInv` until
  the Writer is rerun: after that it is false of the code (section 5), and so are the
  properties. The budgets are kept under any reruns, which `BudgetInv`, a count of rows by
  kind, shows alone.
* **FileLease.** The lock file excludes nobody by itself: whoever finds no live holder moves
  away the lock that is there then, which may be that of a live one. `LeaseInv` says that this
  is the only way: until it has happened (`~robbed`), who works or releases has the file
  (`HoldsFile`) and an edit replaces what it compared (`EditsFit`); at all times only an owner
  at work is connected (`ConnFits`), for any calls of any processes, queued or not. The step to
  show is that a theft which spares the living spares whoever holds (`StealSpares`).
  `EditsAreCasInOneServer` needs no such proviso: a visit, which is not queued, may lose its
  lock to an edit, or take that of an edit, but two edits of a server never meet (`QueueInv`);
  `EditsOfOneServer` says one server at a time, whose edits are queued, as
  `withWorkspaceConfigLock` queues all of them. Between servers `SoleConnection` leaves one
  owner, who locks the inode that is at the store's path; `NoReset` is needed, as a reset takes
  the path to another inode (section 5).

**Only model-checked.** Liveness under fairness (ApplyingSettles, WorkGoesOn, WaitsEnd,
PlanningEnds, StorageAnswers, BrowserCatchesUp, WorkIsAnswered): WF and ENABLED are out of the
prover's reach, so are facts by induction over data (lineage through a graph of any depth is
the transitive closure as a least set, which needs none). WikiPublish is recursive. Two suites'
properties are about fixed instances of components with theorems: LeaseExcludes (of FileLease;
that nobody is refused for a dead server's lock has no theorem) and RerunIsConsistent (of
RunControl, with all parts but StallsOnlyOnFailure, whose hypothesis leaves out that a run asks
and is rerun). Of the others PlanIsOfDiscovery, RemovalIsFinal, OwnerIsGuarded,
SessionsAreExclusive, ShownIsWhole, NothingIsLost and ShownIsTrue have none: PlanTopology,
GateExpiry, WorkspaceLifecycle, OwnerRegistry, OperatorSessions, SessionTurns, AttemptTrace and
the workbench's modules are only checked.

## 5. Disagreements between code and documentation

Three are runs that expect a counterexample:

| Run | What happens |
|---|---|
| reclaim | Two servers that saw one stale lock reclaim it twice; the second removes the first one's new lock. |
| unreviewed | A gate mounts nothing, so a rerun of the Writer leaves gate.fix succeeded from the Wiki before: the publication gate offers a Wiki that no review has seen. |
| unapproved | Once the execution graph exists, a new generation of the plan unlocks it although its gate is open. |

The others are one choice of constants away from a run. PROJECT.json quotes the line that
each contradicts; here is what breaks, relative to the constants of the scene named.

| Module: property | Constants | What happens |
|---|---|---|
| RunControl: OutputIsOfSuccess | write and publish; EvidenceKeys {write}, retry | a failed attempt's sealed output stays the node's after its retry succeeded |
| FailureIsNotCommitted | same, one crash | recovery commits the failed attempt as a success |
| StoreReopens | same, one crash, two attempts, fairness | recovery of a lone transcript throws at every start |
| RerunReachesConsumers, PublishedIsFinal | chain, AskKeys {write}, MaxGen 2, six attempts | a ready continuation is not reached by a rerun and runs on old inputs; publish then commits beside the upstream that is being redone |
| PublishTail: OpenGateHasCandidate | tail | a conflict found late opens the gate of a cancelled run |
| ReadyBinds | tail | a ready validate.final has nothing to mount; its claim throws at every schedule |
| OwnWikiIsNoConflict | tail | a second publish worker takes the first one's own Wiki for drift |
| PublicationApply: CrashesAreReconciled | swap, PromptRestart | the server finds its own lock and stores *unknown* for good |
| SchedulerWake: FreeSlotIsFilled, WorkspaceCeiling | MaxActiveRuns 2 | a free slot waits for the next settlement; the workspace's ceiling is per run |
| ClaimsAreDrained | as they are | a claim that throws ends the loop: ready nodes behind it wait for a command, nobody waits for the attempts in flight |
| NothingIsForgotten | SameTurn | a command in the same turn is not noticed by a loop that leaves |
| GateExpiry: NoPolling | gates | a paused run's late gate sets a timer of 0 for ever |
| EvaluationRound: NotStranded, NotDead, CapIsKept, RerunIsEvaluated | budgets | a failed repair strands the run; a rerun kills the cycle, passes the cap, or is evaluated by the old repair's Wiki |
| PlanTopology: OptionalFailureIsTolerated, FailureIsNotForgotten, PlanMayBeRerun, GateShowsCurrentPlan, OldPlanIsOver | waves | order of scouts' ends decides about the run; gates of old plans stay open; two plans at once |
| RevisionRestartsPlanning (two) | MaxRevisions 1, no failures, reruns or gaps | a revision cancels what the new plan, or the new execution, depends on |
| AttemptTrace: DoneIsComplete (two) | Page 2, MaxDrops 1; or Page 9, Cancels | *done* is said before the last rows |
| StreamSurvives, HistoryIsReadable | Torn; and Crashes | an incomplete last line ends the stream, or hides the trace |
| RunObservation: CatchesUp (two), IndicatorRecovers, DecidedWasShown | detail; workspace with Refuses; MaxDrops 1; Reopens | a late answer replaces a newer one; a refused stream is never opened again; the indicator stays stale; an old approval decides the new question |
| FileLease: EditsAreCas | edits, Alone FALSE | a missing lock file counts as stale, a live one is moved away |
| Exclusion | visit | a creation or a recovery holds the lease of its own server beside an edit |
| ResetCannotUnlink | reset | two readers of one dead holder; the reset removes an open store |
| WorkspaceLifecycle: InterruptedIsSettled, HitsItsWorkspace, RemovalIsAlone | delete with a mortal server; delete, create, edit; with a session | an interrupted deletion is never found; a request hits the namesake; a marker is removed without the lease |
| OperatorSessions: FollowingIsFresh, GoneMeansDeleted, SnapshotFirst, DeletedStaysDeleted | prompt, watch, patch; prompt, delete | stale workspace in a handle; 404 for an edit; stream without snapshot; a deleted session is attached |
| SessionTurns: AcceptedIsTaken, BubbleUntilRow, NoDoubleBubble (two) | two texts, one abort; Repeats; Rewritten; one text | accepted prompt refused by Pi; bubbles vanish early or stay for ever |
| OwnerRegistry: NewRunsUseLatest | run, run, patch | an older revision is recorded after a newer one |
| NoMismatch | run, run, delete, create | a request of the deleted workspace meets the owner of the new one |
| PlanCoverage: MonorepoIsFrozen, ThoroughIsSufficient, ScoutsAreOfSources | survey with two sources | the budget is used up by sources; gaps nobody can close; scouts of a source "cross" |
| FreezeRun: StoreReopens, WorkIsCleared, PinnedIsSealed, ResumedFreezeGoesOn | freeze; Overlap | a retried freeze's recovery throws; directories stay; an unwinding execution removes the pin's |
| WikiPublish: ValidatedIsPublished (three), StampIsOfTheText, KeptIsValid | title "bracket"; MaxFiles 4; RequireCitations FALSE; refresh | a validated tree fails its preparation; a refresh keeps old stamps and refuses old pages |
| Citations: TargetIsKept, RepairedIsWellFormed | source "d"; empty file | a valid target is rewritten; a repair ends at line 0 |
| WorkspaceSettings: ShownIsSaved, TypedIsSaved (two), UntouchedIsKept (three), LoadingEnds, SelectorResolves, SkillEditKeepsOthers, UnsavedTextIsMarked, CloneCanBeRetried | InOrder FALSE; fields of the findings; skill with reset | late answers restore old values; typed zeros and untouched fields are changed; half a reset; a clone's directory bars its retry |
| RunGraph: RepairLoopIsShown | graph | the loop the test draws is not in the rows |
| ProviderCatalog: OnlyTheNamedChanges, OnlyLegacyIsMoved, ShownIsSaved, ConnectionIsKept, HeadersAreKept, TestIsOfTheForm, ChosenIdIsStable, AnswerClosesItsOwn | Overlap; models; MaxEdits 4 or 3 | overlapping saves lose one; a profile's save resets the connection; ids are used again |
| ConversationFold: ErrorSettles, BusyWhileActive, ReopenAddsNothing, PhaseIsOfTheFill | MaxCompactions 1; fold; two prompts with two fills | an error settles as idle; a live turn counts as free; empty rows after reopening; the meter stands |
| NodeRecovery: HistoryStays, NodeRouteShowsAttempt, OfferedIsAccepted | select; AskKeys {draft}, retry | a read attempt disappears; a node's page never shows its attempt; a retry that is always refused is offered |
| CandidateReview: ThreadIsOnWhatWasRead, ShownIsNamed, NoteIsKept, DiffIsOfTheParent | Waits FALSE; Losable; comment; MaxDamaged 1 | comments on another candidate; an answer under another name; lost notes; a damaged parent is "new" |

Observations short of that. The continuation of a question keeps the envelope in which it was
asked; `EnvelopeFits` says so. A run whose failing branch ends before the succeeding one
stays `running`, the other order fails it; in both a failed node is there to retry. Recovery
settles an effect as applied and then marks the same run failed, as its publish attempt was
running. After a conflict or a revision gate.publication is succeeded from the candidate before,
so publish may be claimed early and fail; a rerun of it helps. A question cannot be answered
while the run is paused (gate-resolve.ts:39).

## 6. What is not modelled

Contract schemas and the Skill's texts have no behaviour. Of the modelled components:

* RunControl: how a run is created; failure classes are a choice. EvaluationRound: a gate's
  *revise*, several seats, partial writes in scheduleMechanicalRepair's catch. PlanTopology: a
  failing freeze, reruns of freeze and gate.plan. GateExpiry: none of the decisions' effects.
  PublishTail: `rerun_node` with a gate's key, repairs.
* PublicationApply: `rm` does not fail, a digest is its tree, a residue one flag. In all
  modules a SQLite transaction commits or does not; disks are not full.
* FreezeRun: git and sealing (external), legacy pins, per-role fan-out. PlanCoverage: fan-out
  caps, unparseable files, the prompt. WikiPublish, Citations: link graph, sizes, symlinks,
  reserved names, order of the navigation.
* FileLease: pids are not reused; journals left by a crashed reset. WorkspaceLifecycle: probes,
  ignore patterns. OwnerRegistry: shutdown. OperatorSessions: one session, no model switch.
  SessionTurns, ConversationFold: follow-up queue, tool contents, usage; Pi is external.
* AttemptTrace: failing appends, the sealed artifact as a fallback. RunObservation: GETs are
  lost only with the server. WorkspaceSettings: delete dialog, retry numbers. ProviderCatalog:
  names, per-model headers, the health doctor. RunGraph: labels, styles, edge routing (ELK is
  external). NodeRecovery: previews, dialogs, scouts of older runs. CandidateReview: the
  evidence list, what a repair does with its request.

## 7. Plan

Every component of the inventory that has a behaviour of its own is modelled. What remains are
proofs: **GateExpiry** (an open gate has its timer, a late answer decides nothing),
**OwnerRegistry**, **WorkspaceLifecycle**, **PlanTopology**.
