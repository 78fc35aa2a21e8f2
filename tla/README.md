# Flory: a TLA+ model of the runtime

Flory runs workflows that a planner writes while they run. Tool calls with side
effects are grouped into *scopes*; a scope either passes its one irreversible
call (the *pivot*) and is confirmed, or is cancelled back to its savepoint. When
something fails, a recovery ladder decides whether a planner may try again, and an
operator watches all of it in a console. This directory holds TLA+ models of the
parts that have to get this right under crashes, lost answers and several
processes, the TLC runs that check them on small instances, and TLAPS proofs for
instances of any size.

## 1. The system

| Part | Where | Role |
|---|---|---|
| Engine | `engine/src` (TypeScript) | planner loop, routers, freeze admission (rules R1-R14), recovery ladder, read executor, event log and forks |
| Coordinator | `coordinator/` (Go) | executes every call with side effects: tries, pivot, confirms, inverses; cancels and sweeps |
| Database | `db/migrations` (PostgreSQL) | the event log, the tables projected from it by triggers, and the functions that decide under row locks |
| Gateway | `gatewayd/` (Go) | tool registry, published tool views, routes and probing, identity and roles |
| Console | `console/` | read-only projection of a run, streamed to a browser |
| Supervisor | `scripts/demo/b2b2c-retail.ts` | drives one run: reads, recovery, routers, one planner per pass, then waits for the Coordinator |
| SDKs | `sdk/typescript`, `gatewayd/sdk` | tool services: registration, heartbeats |

How they interact: the Engine freezes vertices into the log, and a trigger
queues them. Coordinator processes claim queued vertices under a lease, call
tools through the gateway and append what happened; triggers project the appends
onto the scope rows. A failure fences its scope. The Engine's recovery ladder
reads the log and the locked scope rows, and asks for the cancellation of scopes
it wants to replan over; a Coordinator decides that request under the scope's
row lock and runs the inverses. The Console polls the same log, folds it and
streams the differences to browsers. `PROJECT.json` lists every part, modelled or
not, and the hazards of each.

## 2. Modules

| Module | Models |
|---|---|
| `TxnStore` | the tables `txn_scope`, `txn_bracket`, `work_queue`, `scope_cancel_member`, `txn_attempt` and the vertex outcomes of `run_event_log`; one operator per database function or trigger, under its SQL name where it has one; the Engine's fold of the log (`Fold`, `LogAgrees`) |
| `Coordinator` | the processes of `service.go`, the tools, the clock, the Engine's request; the properties |
| `ScopeLifecycle` | abstract specification: what a scope row promises. `Coordinator` and `Engine` both implement it |
| `EventLog` | the stored event, `append_events`, the planner's surface, causal descendants, fork slices |
| `Recovery` | the ladder of `recovery.ts` as a function of the stream and the locked scope rows |
| `Admission` | `workflow.ts`, `check-rules.ts`: normalisation, rules R1 to R14, placement, generations of idempotency keys, the order of compilation |
| `Router` | `router.ts`, `rule-template.ts`: conditions, facts, branch selection, publication Q1 to Q6 |
| `Engine` | one run: the supervisor with reads, recovery, routers and planners, the Coordinator beside it |
| `Authoring` | every graph an author can write, grown vertex by vertex, against `Admission` and `Router` |
| `ConsoleFold` | the Console's projection: model and numbered deltas |
| `DeltaBuffer`, `ResumeBuffer` | the bounded buffer, and the abstract specification of resuming from it |
| `ConsoleStream` | tailer, connections, browsers, layout; implements `ResumeBuffer` |
| `MCCoordinator`, `MCEngine`, `MCAuthoring`, `MCConsole` | the instances the runs check |
| `CoordinatorProofs`, `CoordinatorSafety` | theorems: types, scope rows, the fence, the refinement of `ScopeLifecycle` |
| `CoordinatorLog` | theorem: the log folds to the scope rows |
| `CoordinatorLedger`, `CoordinatorEffects` | theorems: brackets, members and attempts agree; what the tools really did |
| `CoordinatorSavepoint` | theorem: without faults a cancelled scope is back at its savepoint |
| `ResumeProofs` | theorem: resuming from the buffer |

An operator named `X_Something` right before `X` is a mutant of it: a plausible
mistake that the property listed for it in `PROJECT.json` must catch.

### 2.1 Coordinator and TxnStore

**State.** Each variable of `TxnStore` is a column (its comment names it), except
`phase`, which is what `scopeCancellations` computes from the log. `effect` is
what the tool behind an idempotency key has really done; no code reads it, and
the properties compare the tables with it. `job[w]` is the position of process
`w` in its call stack: a program counter, the claimed row, the scope, the
operation in flight, its target, the retry count, the last answer and the
confirms still to do.

**Steps.** One action is one database transaction or one tool call. Anything may
happen between two of them.

| Code | Actions |
|---|---|
| `ProcessOne` | `PickRequest`, `Claim`, `PassBarrier`, `EnsureScope` |
| `processRegular`, `refuse` | `CheckOwner`, `RecordTrySuccess`, `RecordPlainSuccess`, `RecordFailure`, `CompleteWork` |
| `executeWithRetry` | `RecordAttemptStart`, `Execute` |
| `processPivot`, `failAbsentPivot` | `AdmitPivot`, `ReleaseWork`, `BranchOnPivot`, `ResolvePivotAttempt`, `ResolvePivotAbsent`, `FailAbsentPivot`, `SuspendPivot`, `PassPivot`, `CommitScope` |
| `confirmScope` | `NextConfirm`, `RecordConfirmed`, `SuspendConfirm` |
| `requestCancel`, `cancelScope` | `RequestScopeCancel`, `ClaimCancelMember`, `CompleteCancelMember`, `SuspendCancel`, `CompleteScopeCancel` |
| `Sweep` | `PickExpired`, `PickStuck` |
| `recoverOne` | `EngineRequest` |
| surroundings | `Crash`, `DeadLeaseExpires`, `DeadMemberLeaseExpires`, `LeaseOverrun`, `DeadlinePasses`, `EffectLands` |

**Abstractions, and why they are sound.**

- All vertices are frozen at the start. A freeze allocates fresh scope ids
  (`workflow.ts:235`), so no later freeze adds a member to an existing scope.
- What freeze admission guarantees is assumed: one pivot per scope (R3,
  `OnePivotAssumption`), a scope for every try (R10, `ScopedTryAssumption`). Both
  are rules of `Admission`.
- `Claim` does not look at pending requests. `ProcessOne` serves them first, but
  a request that errors there, or arrives after the list was read, is passed over.
- `Execute` takes the tool's answer and `resolve_attempt` together. Death between
  the two is a crash while calling followed by `EffectLands`.
- `PassPivot` includes the read of the sealed brackets: no step of another
  process can change them while the scope is pivot-passed. For the same reason
  the plain-failure path goes straight to `resolve_pivot_absent`: the
  `ResolveAttempt` before it finds the attempt already resolved.
- `vertex/started` and `vertex/retried` appends change no table the protocol
  reads and are left out, except the pivot's `vertex/started`, which the fold reads.
- A sweep reads its lists once and goes through them; here each scope is picked
  with a fresh read, and others may act before the decision. Per scope the two
  give the same steps. Likewise an Engine request for several scopes is several
  `EngineRequest` steps, and it may come at any time: the ladder also asks for
  failed reads and stalled planners, which this model does not hold.
- Which ready row a claim takes depends on `ready_at` and is left open.
- Attempt rows are kept while unresolved, as a set; two lost attempts of the same
  operation on the same vertex are one element, which no reader tells apart.
- The rows that `request_scope_cancel` deletes with `SKIP LOCKED` are all deleted.
  A concurrent claim waits for the scope lock and holds no row; a row skipped
  because its former holder is just releasing it stays behind, and is never
  claimable again in a scope that is cancelling.

**Tools (external).** A tool is idempotent by key. It answers failure only if it
has not done what was asked (`MayFail`), a status tool that denies a pivot
forecloses it under that key, and a request whose answer was lost may take
effect at any later time while its attempt is unresolved (`EffectLands`). An
unknown outcome leaves the attempt unresolved.

**Bounds.** `MaxAttempts` is the retry policy. `MaxFaults` bounds crashes and
leases overrun by a live process; leases of the dead expire for free. A crash
also stands for a handler that returns on a transport or database error.

### 2.2 Engine

**State.** `log` is the run's stream; `rows`, `brackets` and `queue` are the scope
rows, the brackets by key and the work queue, as far as the Engine can see them;
`sup` is the supervisor process: where it stands (`sup.at`), the vertex it works
on, the submission it holds, the routers left in this pass, whether the pass
progressed and the length of the log when it began to wait. Everything in `sup` is
lost in a crash.

| Code | Actions |
|---|---|
| `submit`, `freezeUnderScopeLock` | `Propose`, `FreezeSubmission`, `Reject` |
| `ReadExecutor.processOne` | `ClaimRead`, `StartRead`, `AnswerRead`, `CompleteRead`, `ReleaseRead`, `NoReadLeft` |
| `RecoveryLoop.recoverOne` | `RecoverOne`, `NothingToRecover` |
| `RouterExecutor.evaluate` | `ListRouters`, `StartRouter`, `Decide`, `Answered` |
| `PlannerLoop.advance`, `PlannerExecutor` | `PickPlanner`, `StartPlanner`, `Think`, `ThinkFails`, `RecordUnreadable`, `Answered` |
| `settle` | `Settle`, `SettleTimesOut` |
| Coordinator, one action per change of a scope row | `OpenScope`, `StartMember`, `FinishMember`, `AdmitPivot`, `PassPivot`, `ReopenAbsent`, `RecordAbsent`, `CommitScope`, `BeginCancel`, `CompleteCancel`, `SuspendScope`, `SuspendPivot` |
| surroundings | `Crash`, `Restart`, `Due`, `Expire` |

A step of the supervisor is one transaction or one answer of a tool or a model;
the Coordinator may move between any two. `RecoverOne` is the locked transaction
that reads, decides and appends, the trigger's refusals (`ShadowRefused`,
`RequestRefused`) included; the planner's turn that follows is outside the lock,
as in the code.

**Abstractions.**

- The Coordinator is the view the Engine has of it. That its steps are the right
  ones is what `KeepsLifecycle` and `ImplementsLifecycle` connect: both models
  keep to the same `ScopeLifecycle`. Workers, leases and inverses are in
  `Coordinator`.
- Submissions carry the fields a rule or a compilation reads. An argument is one
  value, which the contract's key path finds or not.
- A price counts context items and vertices at two rates; only the comparison
  of prices matters to the ladder. The optional budget of a replan is
  `BudgetRemaining`, a set that is empty where the policy leaves it out, as the demo
  does; `engine_reads` sets one.
- Templates do not change during a run; a template's digest is the template.
- What a model answers is a member of `Answers`. After `MaxTurns` answers a model
  only fails, which is a behaviour of the program and keeps runs finite.
- `Crash` is offered where the process holds something no table holds; elsewhere
  a new process reads the same again.
- A lost answer, an expiry, a suspension and a crash are bounded by `MaxFaults`; the
  deadline of `settle` always comes, and is not a fault (`SettleTimesOut`).
- External: that somebody starts the supervisor again (`Restart`). The demo's own
  `main` starts a new run each time, and nothing in the repository takes up an old
  one; the properties hold with and without it. Its bound on the number of passes is
  left out.

### 2.3 Admission, Router and Authoring

Pure operators. A violation is a rule and the vertices it names; messages are left
out. `Authoring` has one action, the addition of a vertex with any subset of the
existing vertices as parents, so that TLC meets every graph and every prefix of it.

A condition is a sequence of disjuncts, each a sequence of clauses. A clause has a
tool, a field, one of the six operators and a literal; one that `COMPARISON` does not
match has no operator, and a literal that `parseLiteral` does not know has no type.
Both throw when they are evaluated, and publication asks about neither: it looks
for repeated conditions (Q5), the word `fallback` (Q6), impure words and undeclared
fields (Q1), so the words of a clause that it looks for are part of the clause. An
empty condition is published.

### 2.4 Console

**State.** `log`, the transactions still to come (`rest`), the server process
(`tail`: model, buffer, who is waiting for the poll in flight) and the browsers
(`client`: connection, last event id, frames on the wire, model, placement).
`tail.emitted` is a history variable, and `epoch` numbers server processes; the
code has neither, and only properties read them.

| Code | Actions |
|---|---|
| `RunTailer.prime`, `serveStream` | `Connect`, and the answer within `PollOnce` |
| `RunTailer.tick`, `pollOnce` | `Tick`, `PollOnce`, `PollFails`, `PollRefuses` |
| `applyEvent`, `useRunStream`, `connection` | `Deliver`, `Hangup` |
| `layout`, `DagCanvas` | `Paint` |
| surroundings | `Commit`, `Drop`, `Stop`, `Restart` |

The fold mutates vertices that buffered deltas still refer to, so a delta is
resolved when it is encoded, not when it is made (`Encode`). An ended response is
drained before the browser reconnects. Because the fold mutates what it is given, one
that throws leaves traces (`Abandoned`): it meets an event that this build does not know and that is not
marked ignorable, the model is not replaced, and yet the vertices and scopes it holds
are the ones the fold has changed. A poll that throws answers 500 to the request that
primed it; thrown from the timer it ends the process, which stays down until somebody
starts it. Three histories of transactions stand for the Engine; they contain every
event type the projection reads, one it may ignore, one it may not, a discard and a
fork.

## 3. What the runs check

| Run | Module | Instance | Shows |
|---|---|---|---|
| `scope` | `MCCoordinator` | 2 processes, one scope: tcc try, then a saga try and a pivot with status tool side by side; 2 faults | all safety invariants and `ImplementsLifecycle` |
| `mixed` | `MCCoordinator` | 2 processes, two scopes: saga step, barrier, plain call after the pivot, unscoped pivot, two tries under one key; no faults | the paths `scope` cannot take, and `CancelledReturnsToSavepoint` |
| `live` | `MCCoordinator` | 2 processes, one scope with two tries, 1 fault, fair | `RequestDecided`, `CancellationFinishes` |
| `engine` | `MCEngine` | orders that reserve, pay and close, one that is rejected, an unreadable answer; 3 answers, 1 fault | recovery over transactions |
| `engine_reads` | `MCEngine` | reads, a router with a rule, an order beside a read, an answer that does not compile, a replan budget; 1 answer, 1 fault | discards, routers, forks |
| `authoring` | `MCAuthoring` | 5 tools, one or two scopes, planners, barriers, confirmed outputs, three conditions, up to 6 vertices from 5 starts | normal form, compilation, the gates of a rule |
| `console` | `MCConsole` | 3 histories, 1 browser, buffer 4, batches of 6, 2 frames of backpressure, 1 fault, 1 restart, fair | the stream from log to canvas |

**Bounds.** Two processes and two faults are enough for every race between a
holder that lost its lease and its successor, with one more crash on top. Three
vertices give a dependency between tries, and a pivot that may be claimed before a
try it must wait for. In `engine`, three answers give a plan, its replan and the
replan of a later planner, so that both of the code's default limits (two replans
per planner and per episode) are met and a key reaches its third generation; one
fault at any place is combined with every interleaving of the Coordinator. A
smaller answer budget in `engine_reads` pays for reads, routers and forks. In
`console` the buffer is smaller than the deltas of the two long histories, so
eviction, resumption inside a batch and a snapshot below the buffer all occur.
Deadlock is not checked: a run that has closed its scopes and planned its last
turn, a grown graph and a finished history stop.

The properties, and what each would catch. Transactions:

- `PivotExcludesInverse`: an irreversible effect beside an undone try, at the tools.
- `PivotHasScopeAlone`: a second process inside an admitted pivot's scope. Three
  defensive branches of the database (a pivot-passed, absence or confirm that
  finds another state) are never taken, and this is why.
- `CancelWaitsForEvidence`: reservations released behind an effect that may land.
- `PivotNeedsSeals`, `CommittedMeansConfirmed`, `CancelledMembersUndone`,
  `CancelledReturnsToSavepoint`: what the scope's state says, against the brackets
  and against the tools.
- `FencedNeverPasses`, `PendingOnlyWhileOpen`: the fence and the request protocol
  of migration 017.
- `LogShowsScopeRows`: the Engine's fold and the triggers agree except in the gap
  the ladder waits out.
- `ImplementsLifecycle`: `txn/scope` overwrites any state, and yet the row only
  makes the moves of `ScopeLifecycle`.
- `RequestDecided`, `CancellationFinishes`: liveness.

Engine:

- `CancelBeforeReplan`, `CancelRequestDiscipline`: work discarded, or a failure
  answered, before the Coordinator has closed the scopes it touches; a second
  request for one scope.
- `DecisionIsAccepted`: a decision that the database's triggers refuse.
- `PassedPivotsStay`: a replan from before an irreversible step.
- `OneLiveReservation`: two live generations of one business key.
- `ProjectionsAgree`: the planner's surface and the operator's model disagree.
- `NothingRunsAfterDiscard`, `OneBranchPerRouter`, `ForksAreRuns`: discarded work
  that runs, a rule that acts twice after a crash, a fork that inherits half a run.
- `KeepsLifecycle`: as `ImplementsLifecycle`, with the Engine's requests, replans
  and freezes in the loop.
- `WaitsAreOwed`: the ladder waits, and nobody is going to end the wait. Where every
  outstanding failure is answered "wait", each scope it waits for has a step of the
  Coordinator due. That the step is then taken is what `live` shows of the
  Coordinator; that somebody is there to see it is not claimed. `settle` counts the
  events when it starts to wait, and a cancellation that completed between the
  ladder's reading and that count is no news to it, so the supervisor may leave with
  a failure unanswered without any fault; and a failed model call ends it.

Authoring: `NormalFormIsStable`, `CompiledParentsFirst`, `ReadOnlyRuleFitsAnywhere`,
`ExtensionNeverRepairs` (the rules are prohibitions, so a run may be frozen piece by
piece), and `RefusedOnlyForWhatWasDropped`: what is published is accepted by the
freeze of its router, and where its emission differs it is for what
`toSubmittedVertex` dropped. The three gates do disagree, in these two ways only.

Console: `SplitInvariant` (the model does not depend on how polls cut the
stream, as long as the build knows the events), `NoGapWithinProcess`,
`ImplementsResumeBuffer`, `StablePlacement`, `EnclosureTellsTruth`, and `CatchesUp`: the
vertices, the spend and the members and pivots of the scopes, not their states
(section 4). `NoGapWithinProcess` and `CatchesUp` are stated for a client whose
snapshot came from the running server process. A cursor of an earlier process is
compared with batches that were cut elsewhere, and they claim nothing for it.

**Fairness.** `Coordinator`: weak fairness of each handler: every call has a timeout and every
step of a handler is unconditional. Strong fairness of serving requests and
stuck cancellations: an idle process polls every 100 ms and sweeps every second
for as long as it lives. The list of stuck cancellations is complete; that of
requests, like that of claimable rows, is cut at eight (`postgres.go:208`). With more
than eight requests due, the promise for the ninth rests on the earlier ones being
decided, or deferred and so out of the list for a while; the instance has one scope
and does not reach this. Weak fairness of the
expiry of dead leases. No fairness of tool success, faults, deadlines, claims or
the Engine is assumed for the two liveness properties. `FullyFairSpec`, used only
for the liveness violation below, adds fair claiming, deadlines and the
timeout sweep, so that the stranding is not for lack of scheduling.

`Engine` states no fairness; its properties are invariants and action properties.
`ConsoleStream`: timers fire,
polls return or throw, sockets deliver, browsers reconnect and paint; nothing says
that the Engine commits or that a server that has ended is started again.

## 4. Sentences the code does not keep

Each is a run that must end in a violation; `findings` in `PROJECT.json` quotes
the sentence and its line.

| Run | Counterexample |
|---|---|
| `savepoint_fault` | crash, or a lease that runs out, between `resolve_attempt` and `txn/try`: a reservation nobody knows of, and the scope is recorded as cancelled |
| `passed_pivot_strands` | crash between pivot and commit: the scope stays pivot-passed |
| `inverse_order` | two processes, no fault: the deepest member is leased, so the second process is handed its parent and undoes it first |
| `rule_failure` | a rule's branch fails and is escalated; the planner behind the router, called in the same pass as the branch, has answered unreadably, and the ladder's next decision selects the planner above both |
| `canvas_diverges` | no fault: a scope is cancelled after its members were appended, and no delta carries a scope's state, so a connected client shows it open where a fresh one shows it cancelled |

The same models showed others, which have no run of their own; the hazards name
the lines:

- a pivot is admitted over a timed-out try, since `admit_pivot` does not read
  `deadline_at`;
- a late failing inverse suspends a scope that is already cancelled
  (`ScopeLifecycle` admits this one move);
- a try executed twice under an overrun lease is recorded as failed by its own
  bracket;
- a submission whose keyed tool finds no key in its arguments throws inside the
  freeze, after `subgraph/proposed` was recorded, and the proposal has neither of the
  answers that `submission.ts:33` promises;
- a client that resumes a cursor of an earlier server process is sent, as an append,
  vertices it already holds, since the new process has cut its batches elsewhere; it
  then lists them twice, the old copy first (`ResumedShowsWhatFreshShows` with
  `MaxFaults` and `MaxRestarts` 1 fails this way in ten states; the run
  `canvas_diverges` has no restart);
- a crash between the reopening of a scope and `vertex/failed` leaves log and row
  in disagreement for ever;
- a rule branch that calls a keyed tool is published, and throws whenever it is
  emitted, because a branch is emitted without arguments; one whose confirmed output
  another scope reads is published, and refused whenever it is emitted (R7), because
  `confirmedOutput` is dropped too;
- a Console that meets an event it may not ignore has already changed its vertices
  when it throws, and a request that arrives during the next poll is served from them.

Two follow from reading the source. `processPivot` takes a plain failure answer as
proof of absence (`service.go:259`), where `doc/design/08-database-schema.md:48`
asks for a status query first. And `dependency_depth` is counted from member to
member only (`017:202`), so a plain call between two tries hides their dependency;
`ReverseDependencyOrder` is therefore stated for direct parents.

## 5. What is proved

**The transaction protocol.** For any sets of processes, vertices, scopes and keys and any bounds, from
`ShapeAssumption` and `BoundsAssumption`:

- `TypeCorrect`: `Spec => []TypeOK`. `JobShape` is part of `TypeOK` because a
  process's scope is only known to be a scope at certain positions.
- `Invariant`: `Spec => []IInv`, with `IInv` the conjunction of `TypeOK`,
  `PivotHasScopeAlone`, `FencedNeverPasses`, `PendingOnlyWhileOpen`,
  `RequestFences` (a requested scope is fenced) and `CancelWaitsForEvidence`.
  None of them is inductive alone. `PivotHasScopeAlone` gives the state from which
  `CommitScope` and the suspensions write; without it a suspension could hit any
  scope. `RequestFences` keeps a pivot from being admitted over a pending request.
  `CancelWaitsForEvidence` needs `PivotHasScopeAlone` and the admissible states of
  `record_attempt_start` to know that only inverses start in a cancelling scope.
- From it `PivotAloneInScope`, `FenceIsOneWay`, `RequestsAnswered`,
  `CancelHasEvidence`, and `RefinesLifecycle`: `Spec => ImplementsLifecycle`.

The proof of the invariant goes handler by handler: `AloneStep` and `QuietStep`
say what a step of one process may do to the others, `HandlerRows` and `NextRows`
reduce every action to what it does to the scope rows (`RowStep`), and
`RowsAllowed` and `RowsKept` finish from there, the one for the refinement and the
other for the fence and the requests.

**The log and the rows.** `LogTellsRows`: `Spec => []LogShowsScopeRows`. The triggers
and the Engine's `scopeCancellations` decide separately what an event means for a
scope. `Tells` says what one step may do to a row and to its fold, event by event;
every action is such a step, and `Tells` keeps the agreement. The induction needs,
beyond `IInv`, that a scope without a row is not mentioned in the log (`Unwritten`),
that `processRegular` ensured the row before it calls (`EnsuredFirst`: otherwise
`txn/try` would fold a scope that does not exist), and that the process which proved
a pivot absent has left the scope fenced. The pivot-absent gap is the exception the
property itself states; a crash inside it makes it permanent.

**The ledger.** `LedgerAgrees`: `Spec => []LInv`, also from `ScopedTryAssumption`
(rule R10). `LInv` relates `txn_bracket`, `scope_cancel_member` and `txn_attempt`: a
bracket belongs to a try under its own key (`BracketsOwned`), only owners of brackets
in a cancelled scope are members (`MembersOwn`), once there are members only inverses
are unresolved (`InversesAlone`), and from admission to commit every required try
owns its bracket (`TriesOwn`). `Stands` says what a process works on at each position.
Seen from these tables all actions of the Coordinator are one of a dozen moves
(`Acts`); each conjunct is then shown move by move and `Stands` in two halves, for the
process that moves and for all others (`StandsOn`, `StandsElsewhere`).

**The effects.** `effect` is what a tool really did, possibly long after the process
that asked has died. `EffectsAgree`: `Spec => []EInv`, also from `OnePivotAssumption`
(rule R3). From it

- `PivotOrUndo`: `Spec => []PivotExcludesInverse`, never both the irreversible effect
  and the inverse of a try of its scope;
- `PivotOverHeldTries`: `Spec => []PivotNeedsSeals`;
- `CommitIsReal`: `Spec => []CommittedMeansConfirmed`;
- `CancelIsReal`: `Spec => []CancelledMembersUndone`, with the further invariant `UInv`
  (`UndoneAgrees`).

The argument is about requests that may still land. An unresolved pivot attempt, or a
pivot that happened, keeps its scope where no try can be cancelled any more
(`NoReturn`, `PivotHolds`), unless the status tool has denied the key for good; a
denied pivot's scope is fenced, so the pivot is not admitted again (`DeniedStays`). A
process leaves `pivot-inflight` only with the knowledge this needs (`KnowsPivot`), and
what it knows survives the moves of the others because `PivotHasScopeAlone` keeps them
out. In the same way a bracket is written only by a process that knows the tool holds
the try (`KnowsTry`), confirmed only after the tool confirmed (`KnowsConfirm`), and a
member is completed only when the inverse was applied (`KnowsUndone`).

These theorems have a hypothesis on idempotency keys. Keys come from the submitted
document, and admission compares them only with the brackets already recorded under the
same business key (`nextIdempotencyKey`), not between the vertices of a document, so
their distinctness is not an assumption of the model. `PivotKeysApart` says that no
vertex shares the key of a pivot; `CancelIsReal` also needs `KeysPerScope`, that a try
shares its key only inside its scope. Tries of one scope may share a key. The run
`scope` satisfies both, the run `mixed` only the first.

**The savepoint.** `SavepointReached`: `Spec => []CancelledReturnsToSavepoint` when
`MaxFaults = 0`, `PivotKeysApart`, and no plain vertex has the key of a try
(`TryKeysApart`: what a plain call did is in no bracket). This says more than
`CancelIsReal`: nothing that a try reserved is left outside the cancellation.
Whatever a try's tool holds is in an unresolved attempt, in the hands of the process
that heard the answer, or in a bracket (`HeldKnown`). `request_scope_cancel` suspends
over the first and defers to the lease of the second (`LeaseLives`), so what it cancels
is in brackets, all of them sealed (`SealedWhileEarly`), and they become the members
(`HeldByMember`). `LeaseLives` is the one conjunct that a crash or an overrun lease
breaks; the run `savepoint_fault` shows that the property then fails. The run `mixed`
satisfies the hypotheses, with one key shared by tries of two scopes.

**Resuming a stream.** `ResumeHasNoGap`: `ResumeBuffer!Spec => []NoGap`, for every
capacity of the buffer (`BufferAssumption`: at least 1), every history of batches
and every cursor. `NoGap` is not inductive: it speaks of cursors and not of what was
evicted. `Window` is: the buffer is the end of what was emitted (`Suffix`), all of
it while nothing was dropped, and not empty afterwards; what was emitted is in
order. A push keeps it (`KeptIsSuffix`, `SuffixConcat`, `SuffixTransitive`,
`PushedWindow`), and an evicted delta precedes the oldest one left, so it follows
no cursor that `resolveResume` accepts (`WindowHasNoGap`). That the server's polls,
its projection's numbering and its restarts are steps of `ResumeBuffer` is checked
by the run `console` (`ImplementsResumeBuffer`).

Only model-checked, and why:

- all liveness (`RequestDecided`, `CancellationFinishes`, `CatchesUp`);
- everything about `Engine`, `Recovery`, `Admission` and `Authoring`, whose modules have
  recursive operators, and the Console's fold, whose results are an induction over the
  log. `ImplementsResumeBuffer` rests on that fold.

## 6. Not modelled

- The gateway (`gatewayd/`): registry, tool view documents, routes and prober,
  protocol surfaces, identity and roles. A run resolves one tool view and keeps
  it, and the modelled parts read nothing else of the gateway; its own hazards
  are listed in `PROJECT.json` and are open.
- The SDKs: registration and heartbeats against the gateway's routes.
- The order of row locks inside a database function, and the guards on event
  ownership: every function is one step.
- The template store's revisions and the business and configuration streams:
  no modelled part reads them during a run.
- Fold modes other than live reads, pin values and digests; the harness's runner.
- The model provider's client, prompts, protocol decoding, canonical encoding,
  browser rendering, generated code and tooling: conversions and I/O without a
  state that a property could be about.
