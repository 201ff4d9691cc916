# Slingshot: a TLA+ model of the daemon's operations

Slingshot is a command-line client with a local daemon that runs commands on a
remote author. A command becomes a durable *operation*; the daemon admits it,
schedules it, sends it to the author's agent once, and follows it to an ending it
can defend across crashes, timeouts and lost answers. This directory models that
core and the places around it (artifacts, waiters, the daemon's start, the event
subscription, the MCP server's session), checks it with TLC and proves with TLAPS
every safety property that TLC checks.

Paths below are relative to `src/crates/`; `storage`, `daemon` and so on stand for
`slingshot-storage/src`, `slingshot-daemon/src`.

## 1. Inventory

| component | state it keeps | operations | what makes it correct |
|---|---|---|---|
| operation lifecycle (`domain/operation.rs`) | lifecycle, revision, outstanding recovery, failure, progress | `fold` of one fact | an ending is final; evidence fits its category; a failure claims no more than its kind may |
| operation ledger (`storage/operation_repository*.rs`) | the rows, results, settlement instants, resume receipts | admit, apply under compare-and-set, settle, resume, activate | a stale decision never commits; result and success appear together; receipts are earned |
| scheduler claims (`storage/operation/scheduler_claim.rs`, `producer_turns.rs`) | fence, lease, checkpoint, enqueue order, turns of producers | claim, checkpoint, release, startup sweep | one executor per row; no claim without its task; producers take turns |
| scheduler loop (`daemon/service/scheduler.rs`, `runtime_builder*`) | tasks in flight, fence counter, retry deadlines | poll, heal, run_one, stop | nothing is stuck; a stop leaves no claim |
| author execution (`daemon/author_agent_operation_executor.rs`, `retained_author_protocol.rs`, `operation/durable_author_submission.rs`) | the outbox child, the task's position | discover, insert child, POST, classify, settle | the command is sent at most once; verdicts are true |
| lookup reconciliation (`daemon/operation/durable_author_lookup*`) | attempt budget, evidence | one transition per kind of answer | proven success is never taken back; the budget ends |
| result acquisition (`daemon/operation/artifact_completion.rs`) | staged bytes, capacity account | stage, pause, publish | a success, its result and the child's are one transaction |
| outbox child ledger (`storage/agent_job_repository.rs`) | submission, physical jobs, retention | submit, acknowledge, associate, settle | a closed child agrees with its row and with the job's ending |
| waiters (`daemon/operation_wait*`) | observers by operation, a bounded queue each | attach, publish, notify, take, sleep | no lost wake-up; nothing old is delivered; an ending survives a full queue |
| subscription ledger and events (`storage/agent_subscription_ledger*`, `daemon/operation/subscription_reset.rs`, `selected_event_attachment.rs`, `durable_author_event.rs`, `terminal_event_recovery.rs`, `agent-connection/*event*`) | cursor, incident, retained events, what is applied of each job | attach, fold, look an ending up, reset, compact, retire | the position passes no event that was not applied; only the author's report settles |
| artifact store, capacity, maintenance (`storage/artifact_store.rs`, `persistent_capacity*`, `maintenance*`) | files, charged bytes, holds, reservations, pending cleanup | reserve, stage, publish, preview, apply, recover | file, charge and row agree after a crash |
| ownership and start (`daemon/ownership.rs`, `platform_runtime/locks.rs`, `command-line/explicit_daemon_start.rs`, `daemon_entry.rs`) | owner lock, state lease, readiness, endpoint, election lock | elect, start, serve, stop | one writer of a target's state; who serves can be reached |
| installation (`storage/installation_state.rs`, `domain/installation.rs`, `daemon/runtime_builder.rs`) | the installation record, each target's registration and database | read, draw an identity, stage, create, register | one identity per root; no unknown database; what served is never replaced |
| token cache (`agent-connection/authentication`) | token, generation, flight | acquire, refresh, drop | one exchange at a time; a refused token is never served again; a usable one is never evicted by a stale lease; nobody waits for ever |
| MCP server session (`command-line/model_context_protocol/application/*`, `active_request_registry.rs`, `standard_stream_transport.rs`) | active requests, pending workers, the output queue, the line being written, the line held back | read a line, defer a call, cancel, complete, write, drain, give up | an identifier names one thing; an answer always has room; reuse after reading is taken; the end of input loses no answer and comes to an end |
| transport, command contracts, configuration, command line | none over time | parse, encode, render | not state machines |

How they interact. A request thread admits a row (`finish_execute`) and does
nothing else. The scheduler loop, on one thread, claims rows in a transaction
that also rotates the producers, and spawns one `run_one` per claim, at most
`maximum_global_in_flight_operations` at a time. Each execution has its own
database connections, and meets the others only in SQLite: its writes on the way
are guarded by the row's revision, the last one by the claim's fence. The author
is reached over the network with a POST and with lookups. A resume comes from a
request thread; healing from the loop. Crash recovery is the sweep
`recover_abandoned_claims` plus whatever the rows and their outbox children say.

What is hard here: the POST whose fate is unknown; two transactions with a crash
between them; a task that is cancelled at any await; a row moved under a task by
its own lookup; a claim that lapses before its task starts; fences that start over
with the process; a retry budget counted at several places. `PROJECT.json` lists
each at its line, with the properties that would catch it going wrong.

## 2. Modules

| module | models |
|---|---|
| `OperationRecord` | the record and its folds, as operators; a refused fold is the value `Refused` |
| `OperationLedger` | one row and the writers racing for it: read, then write in a later transaction that compares the revision |
| `AuthorExecution` | one operation from claim to ending, with the author, the network and crashes; extends `OperationRecord` |
| `OperationPromise` | what the daemon promises of an operation: sent at most once, a verdict no stronger than what the author made known |
| `SchedulerQueue` | all rows of one author target: admission, claims, turns, tasks, fences, stop, death, restart |
| `AsyncAccessTokenCache` | the cache of one cloud access token that all requests of a daemon share, and the reads, submissions and high-water captures that use it |
| `ArtifactPublication` | artifact bytes from reservation to association: stages, links, holds, the capacity account, maintenance and its journal, crashes and the start that reconciles them |
| `OperationWait` | the observers of one operation against the scheduler that writes and publishes it |
| `DaemonOwnership` | daemons and starting clients of one target under several runtime roots: locks, lease, socket, readiness, stop |
| `TargetInstallation` | the first and later starts of several targets over one state root: record, registration, database, losses |
| `AgentSubscription` | one subscription: the author's stream, the ledger, outbox children and local rows, lookups, reset, maintenance, the next start's audit |
| `ProtocolSession` | one session of the MCP server: client, coordinator, workers, writer, deadlines |
| `OperationProofs` | theorems of `OperationLedger` and `OperationWait`, and the lemmas on the folds of a record |
| `StateRootProofs` | theorems of `ArtifactPublication` and `TargetInstallation` |
| `AuthorExecutionProofs`, `SchedulerQueueProofs`, `AsyncAccessTokenCacheProofs`, `DaemonOwnershipProofs`, `AgentSubscriptionProofs`, `ProtocolSessionProofs` | theorems of the module each is named after |
| `MC*` | instances for TLC, one per module with a state machine |

`AuthorExecution` implements `OperationPromise` (`KeepsPromise`, a refinement
mapping from the author's job, the POST counter and the row). `SchedulerQueue`
abstracts what `AuthorExecution` does to its row to *retry*, *hold* or *ended*, and
gives back what `AuthorExecution` takes for granted: at most one execution of a row.
The token cache sits below the POST and the lookups of `AuthorExecution`: what it
adds is that a 401 never makes the transport send a command's POST twice. Every other
bounded request, the POST that captures a high-water mark included, is repeated once.
`ArtifactPublication`
is what `AuthorExecution` calls publication of a result, opened up; maintenance
appears in it for files and in `AgentSubscription` for rows and children.
`TargetInstallation` is the inside of the step `Establish` of `DaemonOwnership`: there
each target has at most one daemon, which is what `OneWriter` says. `AgentSubscription`
composes the stream with the scheduler's lookups of `AuthorExecution`, reduced to
asking and applying. `ProtocolSession` is another process, in front of the daemon: a
worker's call is one request to it.

Two proof modules extend two state machines each, the row with those who wait for it and
the two that share a state root. For that reason `OperationWait` and `TargetInstallation`
have `WaitInit`, `WaitNext`, `WaitSpec` and `InstallationInit`, `InstallationNext`,
`InstallationSpec` where the others say `Init`, `Next`, `Spec`.

### Correspondence

*OperationRecord.* `Fold*` are `fold_lifecycle`, `fold_progress`, `fold_recovery`,
`fold_terminal`; `TerminalPairingIsLegal` and `Admits` are the rules they consult.
Texts are left out; a progress note is a number, because it is only compared.

*OperationLedger.* One action per repository call, each an IMMEDIATE transaction.
`read[w]` is what a writer decided on; `Apply` is `mutate` (stale revisions and
refused folds commit nothing, an unchanged fold writes nothing); `RecordSnapshotSuccess`
is `record_snapshot_success`, the one recovery that starts at attempt 0; `SettleSuccess` is
`settle_success_guarded`; `AskResume`/`CommitResume` are the resume handler's check
outside the write lock and the same check inside it; `Activate` is
`activate_retained_recovery`.

*AuthorExecution.* `phase` is where the task is between two awaits. `Claim`,
`Start`, `Refuse`, `Unstart`, `Detach`, `Settle`, `Release`, `Heal` are
`service/scheduler.rs` with `execute_retained_with_claim`; `Charged` is the attempt
accounting that `record_lookup_recovery`, `record_missing_lookup` and
`record_detached_attempt` share. `InsertChild` commits the outbox child, `Send` is
the POST, `Handoff`, `Unusable`, `Deadline` and `Acknowledge` classify its answer
as `disposition_of` and `outcome_of_handoff` do. `Lookup*` are the branches of
`reconcile_retained_operation`; the remaining actions are result acquisition.
`Deliver`, `Lose`, `Finish`, `Retire` are the world outside. `Written` is a
repository write: a refused fold leaves the row. `handoff`, `posts` and `resumed`
are history, read by properties only.

*SchedulerQueue.* A row carries its claim columns; a task carries the fence it was
spawned with. `Chosen` is the row `RetrySchedule::select` picks in the order
`ProducerTurns::order` computes, `Rotated` is `ProducerTurns::claimed`. `Reconcile`
is any unfenced write of an execution, `Settle` the fenced one. `Stop` and `Drained`
are a graceful stop, `OpenFails` the stop that awaits nobody, `Die` a crash.
`passes` is history, for `PassedAtMostOnce`.

*AsyncAccessTokenCache.* `token` is `State.token` together with whether
`refresh_required` holds of it now; `flight` names the open flight by the task that
owns it. Each locked section of `acquire` is one step: `Grant`, `Join`,
`StartFlight` and `Exhausted` are the four ways through the first, `Install` and
`ExchangeFails` the two through the second; all begin with `TakeRejected`. `Wake`
is a joined task reading its channel. `DropOwner` is `FlightOwner::drop`,
`DropWaiter` a future dropped at any other await. `Send`, `AnsweredUnauthorized` and
`AnsweredFinally` are `finite_with_authentication`, which repeats a request of any method
once after a 401. Two kinds of request read a cross-site token first: a capture of the
high-water mark (`CaptureTokenRead`), whose POST goes the same way and is repeated, and a
submission (`TokenRead`), whose POST is that of
`send_submission_authenticated_async_guarded` and is not. `refused` and `sends` are history.

*ArtifactPublication.* Three durable places are separate variables: `files` (with
`synced`, the names a directory synchronization has covered), the charged `blobs` and
`holds`, and the rows with their associations. A producer's steps are the transactions
and system calls of `artifact_completion.rs`, `persistent_capacity.rs` and
`artifact_store.rs`, one each, so a crash falls between any two. `Preview` and `Apply`
are maintenance, whose manifest may be old when applied; `CompleteCleanup` and
`InterruptCleanup` are the cleanup that unlinks inside a transaction, committed or lost.
`OpenDatabase` to `BindPublications` are the start, in the order of `establish_durable`.

*OperationWait.* `row` is what the repository holds, `published` what the registry has
broadcast. `ExecutionWrites` is a write that `run_one` will publish, `QuietWrite` one
it returns from without publishing. `Publish` fills the queues under the lock, `Notify`
wakes whoever was listening at that instant. `Enable`, `Take`, `Look`, `Sleep` and
`Wake` are the steps of `RuntimeWait::next` between which a publication may fall;
`Enqueued` is the bounded queue's rule.

*DaemonOwnership.* `phase` follows `run_with_sources` from `Launch` to the drops at its
end, in drop order: the listener after the owner lock. `owner` is the lock of a runtime
root, `lease` that of the shared state; a kill frees both and leaves `endpoint` and
`record` on disk. A starter's `at` follows `explicit_start`: probe, election, a look at
the owner lock that holds it for a moment, spawn, watch.

*TargetInstallation.* One action per step of `establish_durable` between which a process
may die: lock, read, draw, write the staging file, rename, create, identify, register.
A record may be lost (`LoseRecord`), or be there and not be readable, and be put right
again (`spoiled`, `TouchRecord`); a start that meets an unreadable one is refused
(`RefuseUnreadable`). `served` is history: the identity a target was last up under.
`classify_startup` and `classify_target` are the policy of `domain/installation.rs`, which
the start does not call; `StartFollowsPolicy` says of every start that gets past the record
or leaves that its separate checks decided the same.

*AgentSubscription.* `log` is the author's stream; a position is an index into it.
`View` is `read_recovery_view` and `Current` the comparison every write makes with it.
`Receive` and `Fold` are the decoder's and the fold's transactions, `forged` an author's
second account of a position. `AskEnding`/`TakeEnding` are the terminal lookup,
`BeginReset` to `Install` the reset, `AskLookup`/`ApplyLookup` the scheduler's own lookup,
`GiveUp` an ending without the author's word, `Maintain` and `Restart` maintenance and
the audit of a start.

*ProtocolSession.* `step` is the coordinator's place in `Session::step`: at the writer's
report, at the workers' completions, at the output. The deadline check and the taking of
one line are one action, because nothing another thread does between them can be told from
the same thing done before the check or after the line. `active` is the registry, `pending`
and `flagged` the application's map of cancellation flags, `waiting` and `waitingBytes` the
output queue and the running count the code keeps of its bytes (`TakeNext` is `take_next`), `running` and `completions` the
workers and their channel. A completion is matched by its identifier: the identity of the
flag, which the code compares, cannot differ while the identifier stays pending. The writer
thread has finished a line (`written`) before its report is there to be read (`Complete`),
and the client may answer in between. `client` is what the client knows, read by properties
only. `DeferSettled` is every call that is answered without a worker: refused by its era or
revision, for want of a worker, or because its thread did not start. Progress watches are
left out, since this server attaches none.

## 3. Runs

| run | instance | distinct states | checks |
|---|---|---|---|
| `ledger` | 2 writers, 2 results, 5 revisions, 2 instants, 2 receipts | 266 k | `RevisionNamesRecord`, `EndingIsFinal`, `ReceiptsAreEarned`, `HoldNeedsItsReceipt` |
| `execution` | the contract's cap of 8 attempts, 2 crashes, fairness | 252 k | `SentAtMostOnce`, `NonExecutionIsTrue`, `NoClaimIsLeaked`, `SettledChildAgrees`, `SuccessIsNeverRetracted`, `KeepsPromise`, `EveryOperationEnds` |
| `queue` | 2 operations of one producer, 2 slots, 3 claims per process, 1 restart | 311 k | `OneExecutor`, `ClaimHasTask`, `StopLeavesNoClaim` |
| `producer_turns` | 3 operations of 2 producers, 1 slot, 5 claims | 1.3 M | `PassedAtMostOnce` |
| `token_flights` | 3 tasks, 2 generations, fairness | 567 k | `TypeOK`, `ExchangeIsExclusive`, `RefusedIsNeverHeld`, `RepeatIsOnceAndNewer`, `JoinedAreReleased` |
| `publication` | 3 producers of 2 contents, 5 bytes, 2 holds, 2 manifests | 516 k | `CapacityIsBounded`, `SettledArtifactIsReadable`, `ContentIsOwned` |
| `waits` | 2 waiters, queues of 2, 4 revisions, fairness | 405 k | `UpdatesAreNews`, `EndingSurvivesPressure`, `QueuedIsTaken` |
| `ownership` | 2 daemons, 2 starters, 2 runtime roots | 228 k | `OneWriter`, `ServingIsReachable`, `StopEndsTheOneMeant` |
| `installation` | 3 targets, 3 identities drawn | 24 k | `OneIdentity`, `LedgerKnowsDatabases`, `ServedIsNeverReplaced` |
| `subscription` | 2 jobs, 2 events from position 9, 2 retained events, 1 retry | 1.2 M | `NothingIsPassed`, `SettledIsReported`, `AppliedOnlyGrows` |
| `session` | 3 identifiers, 4 lines of input, 2 unread, room for 3 lines, 1 worker, 2 active requests, fairness | 1.5 M | `IdentifierNamesOneThing`, `RoomIsReserved`, `NoFalseDuplicate`, `DrainAnswersEverything`, `InputEndEndsSession` |
| `next_start` | as `subscription` | violated | `NextStartIsAdmitted` |

What they show, in the same order: compare-and-set with resume receipts is sound; a
command is sent once and no verdict is false, across crashes, and every operation ends;
claims survive takeovers, refusals and restarts; producers take turns; token exchanges are
shared and released; file, charge and association agree whatever is interrupted; observers
neither sleep through an update nor lose an ending; one daemon writes and it can be
reached; one identity per state root, and no target that served is replaced by an empty
one; the stream position never passes an unapplied event;
a session of the MCP server answers what it admitted, under identifiers that stay apart, and
ends.

Bounds, and why they are enough. Two writers are what a race needs, and five
revisions are enough for a hold, its resume, its activation, a second hold and an
ending. Eight attempts is the real cap, so the budget is spent in every way it can
be. The second crash of `execution` falls on an attempt that is already a recovery
from the first. Three fences of one process are a claim, its takeover after a
lapsed lease and one for the other row, and the restart meets fence 1 again.
`Operations` are symmetric in `queue`, where they belong to one producer. One slot
is the hard case for turns, since every claim makes somebody wait.

Three tasks on the token cache are an owner, one that joined it and one that
arrives later; with two generations a lease is stale, a replacement is refused in its
turn and the counter is exhausted. Tasks begin new requests for ever, so these
behaviours are not bounded by a number of requests.

In `publication` two of the three producers share a content and the limit is below the
sum of what they want, so reservations collide, are refused and are returned; crashes are
not counted. In `waits` two of four revisions fill a queue, so the third meets every case
of a full one. Two runtime roots with two daemons and two starters contain every pair that
can meet: owner and successor, across and within a root; processes begin again, so lives
are not counted either. Three targets are one that registers, one that replaces the record
and one whose database was lost, while the record is lost, damaged or put right between any
two steps. In `subscription` the two positions are 9 and 10, where
text and numbers disagree, two jobs interleave or one reports twice, and a ledger that
already retains one event is full after the next.

In `session` one worker and two active requests make both refusals happen, and room for
three lines makes intake wait. Four lines are two requests, a cancellation or a reuse, and
the end of input; every answer may be as long as a line or too long for one. Identifiers are
used in order, which loses nothing, since the code only compares them.

Deadlock is not checked in the run of a session, of operations, of waiters, of the subscription and of
the start: an operation that has ended, a shutdown, a refused start or a bound that is
reached really is the end of the behaviour. It is checked for the token cache, where some
task can always go on.

### Divergences met while modelling

The one that ends worst has a run of its own, with the counterexample (`PROJECT.json`,
`findings`): `next_start`, where maintenance leaves a child that refuses every later
start. The others are stated as definitions of the modules; adding one to the run's
configuration shows its counterexample.

| definition | what the code does | what is written |
|---|---|---|
| `AuthorExecution!DetachIsNotAnEnding` | the eighth detached attempt ends the row, a graceful stop included | "neither is an ending" (`daemon/service/scheduler.rs:146`) |
| `AuthorExecution!HoldWaitsForResume` | the loop ends every row on manual hold | "a manual recovery hold requires an explicit resume" (`docs/DAEMON.md:138`) |
| `AuthorExecution!ResumedRowIsEligible` | a resumed row keeps the flag that hides it from the claim query | "Resuming makes a durable row eligible for the scheduler again" (`docs/DAEMON.md:130`) |
| `AuthorExecution!UnsettledHandoffIsLookedUp` | retryable and unusable answers end the row with no lookup | "must be settled by asking the agent" (`daemon/operation/remote_submission.rs:244`) |
| `OperationLedger!SettledInstantIsKept` | a repeated success settlement moves the settlement instant | "An operation settles once, ..." (`storage/operation_repository.rs:794`) |
| `SchedulerQueue!RefusalMeansWaiting` | the service passes an empty set of live slots to admission | "The namespace owner excludes its live execution slots" (`storage/sqlite_statement_inventory.rs:120`) |
| `ArtifactPublication!LeftStageIsReconciled` | a crash between link and unlink leaves a stage with two links, which the startup sweep refuses | "may leave a stage for startup reconciliation" (`storage/artifact_store.rs:854`) |
| `ArtifactPublication!HoldHasAProducer` | maintenance removes a row whose publication hold is still there, and the next start refuses the hold | "A publication hold alone is temporary" (`storage/maintenance.rs:644`) |
| `ArtifactPublication!AcknowledgedNameIsDurable` | a producer that finds the digest present associates it without synchronizing the directory | "Every other failure means durability is unknown and must be reported" (`storage/artifact_store.rs:455`) |
| `OperationWait!EndingReachesObservers` | a row the charge of a detached attempt ends is not published | "so a blocked observer learns the outcome whichever path wrote it" (`daemon/service/scheduler.rs:224`) |
| `DaemonOwnership!AlreadyOwnedMeansADaemon` | a starter's look at the owner lock makes a daemon leave as already owned | "Another live daemon already owned the namespace" (`command-line/daemon_entry.rs:40`) |
| `TargetInstallation!FirstStartIsRepeatable` | the staging file of an interrupted first start makes the root occupied for good | the record is the old one or the new one (`domain/installation.rs:17`) |
| `AgentSubscription!CoveringAnswerIsTaken` | the watermark of an answer and the cursor of an ending are compared as text, so position 10 does not cover 9 (`daemon/operation/terminal_event_recovery.rs:306`) | "The agent emits canonical decimal `generation:sequence` positions. Compare" those numerically (`domain/stream_cursor_order.rs:3`) |

Three more have no definition. Stopping "lets what is running finish"
(`docs/DAEMON.md:177`), but `run_one` drops the execution as soon as the shutdown is
signalled, charges the attempt and releases the claim (`daemon/service/scheduler.rs:162`);
what was running is looked up by the next process. The event of an ending is refused by the stream's resolver
each time it is replayed when the row ended first and the child is still open. Maintenance
may retire a subscription between `open_subscription` and the insertion of the child that
names it; the work is then looked up but not streamed.

### Fairness

`EveryOperationEnds` is checked under `FairSpec`. Weak fairness of `Restart`,
`Claim`, `Heal`, `Release` and `Settle`: the daemon is started again, and its loop
polls for ever and runs each of these to completion without awaiting anything.
Weak fairness of *some task step or its detachment*: the attempt budget's timeout
guarantees exactly that, and no more. Strong fairness of `Start` and of a truthful
lookup: a binding refusal and a misanswered lookup do not recur for ever; without
it the code does loop, since neither is charged. Weak fairness of `Finish` and
`Retire`: the author's retention contract. Crashes are finite by `MaxCrashes`.

`JoinedAreReleased` is checked under weak fairness of an exchange's end, which the
client's deadlines bound, and of a joined task reading what its channel holds, which
the runtime's wake-ups give. Nothing makes the author answer, a request begin or a
future be dropped.

`QueuedIsTaken` is checked under weak fairness of `Publish` and `Notify`, which the
scheduler runs to completion without awaiting anything between them, and of each waiter's
poll, which the runtime gives to a task that was woken. Nothing makes an execution write.

`InputEndEndsSession` is checked under weak fairness of the coordinator, which polls every
20 milliseconds and blocks on nothing, and of the three deadlines, since time passes.
Workers, the writer thread and the client owe nothing.

## 4. Proofs

All theorems hold for every value of the constants. They rest on the named `ASSUME`s of
the modules, which every run evaluates, and on the library's theorems about finite sets,
sequences and well-founded relations.

| assumption | says | why |
|---|---|---|
| `LedgerAssumption` | bounds are numbers, `Facts` are facts, an automatic recovery offered by a caller counts from one, `NoResult` is not a result | every caller's count is `map_or(1, ...)` of the previous one; the exception is an action |
| `ExecutionAssumption` | a cap above one | the embedded contract says eight |
| `QueueAssumption` | operations and producers are finite, every operation has a producer, there is a slot | retained rows are limited by the contract |
| `CallerAssumption`, `GenerationAssumption` | `NoCaller` is no task, the counter's limit is a number | |
| `ContentAssumption`, `BoundAssumption` of `ArtifactPublication` | operations are finitely many, each has content, contents have lengths; bounds are numbers | retained rows are limited by the contract; an operation without artifacts never comes here |
| `PartiesAssumption`, `DrawsAssumption` | daemons are not starters, `None` is nobody; the bound on draws is a number, `Absent` is no identity | |
| `BoundAssumption` of `OperationWait` | bounds are numbers, a queue holds an update, the row has a revision | a row is admitted at revision 1 |
| `BoundsAssumption` | bounds are numbers, an event may be retained | `event_rows > 0` is checked (`agent-connection/command_submission.rs:232`) |
| `SessionBounds` | bounds are numbers, lines, messages and requests are allowed, the queue has room for a line | the contract refuses a zero (`local-protocol/foundation_contract.rs:317`) |

| module | theorem | property |
|---|---|---|
| `OperationProofs` | `LedgerTypeCorrect`, `LedgerRecordWellFormed`, `LedgerResultIffSucceeded` | invariants, proved and not run |
| | `LedgerRevisionNamesRecord`, `LedgerEndingIsFinal`, `LedgerReceiptsAreEarned`, `LedgerHoldNeedsItsReceipt` | all four of `ledger` |
| | `WaitTypeCorrect` | proved and not run |
| | `WaitUpdatesAreNews`, `WaitEndingSurvivesPressure` | all of `waits` but the liveness |
| `AuthorExecutionProofs` | `ExecutionTypeCorrect`, `ExecutionAttemptsWithinBudget` | invariants, proved and not run |
| | `ExecutionSentAtMostOnce`, `ExecutionNonExecutionIsTrue`, `ExecutionNoClaimIsLeaked`, `ExecutionSettledChildAgrees`, `ExecutionSuccessIsNeverRetracted`, `ExecutionKeepsPromise` | all of `execution` but the liveness |
| `SchedulerQueueProofs` | `QueueTypeCorrect` | proved and not run |
| | `QueueOneExecutor`, `QueueClaimHasTask`, `QueueStopLeavesNoClaim`, `QueuePassedAtMostOnce` | all of `queue` and `producer_turns` |
| `AsyncAccessTokenCacheProofs` | `CacheTypeCorrect`, `CacheExchangeIsExclusive`, `CacheRefusedIsNeverHeld`, `CacheRepeatIsOnceAndNewer` | all of `token_flights` but the liveness |
| | `CacheUsableTokenIsKept` | proved and not run |
| `StateRootProofs` | `PublicationTypeCorrect` | proved and not run |
| | `PublicationCapacityIsBounded`, `PublicationSettledArtifactIsReadable`, `PublicationContentIsOwned` | all of `publication` |
| | `InstallationTypeCorrect`, `InstallationStartFollowsPolicy` | proved and not run |
| | `InstallationOneIdentity`, `InstallationLedgerKnowsDatabases`, `InstallationServedIsNeverReplaced` | all of `installation` |
| `DaemonOwnershipProofs` | `OwnershipTypeCorrect` | proved and not run |
| | `OwnershipOneWriter`, `OwnershipServingIsReachable`, `OwnershipStopEndsTheOneMeant` | all of `ownership` |
| `AgentSubscriptionProofs` | `SubscriptionTypeCorrect` | proved and not run |
| | `SubscriptionNothingIsPassed`, `SubscriptionSettledIsReported`, `SubscriptionAppliedOnlyGrows` | all of `subscription` |
| `ProtocolSessionProofs` | `SessionTypeCorrect`, `SessionWorkersAnswersFit` | invariants, proved and not run |
| | `SessionIdentifierNamesOneThing`, `SessionRoomIsReserved`, `SessionNoFalseDuplicate`, `SessionDrainAnswersEverything` | all of `session` but the liveness |

The arguments, by module:

*OperationProofs*, the ledger. The key lemma is `Advances` (also in
`AuthorExecutionProofs`, which needs it too): a fold that is not refused either returns the
record it was given or raises its revision. Compare-and-set needs more than the property itself: the invariant says no reader is ahead
of the row, and a reader at the row's revision read the row. That is also why a late proof
of success cannot restart a hold (`LedgerHoldNeedsItsReceipt`): the proof is written
against a revision that names the very record it was decided on, and that record was not
known to have succeeded. The other facts cannot, because they count from one.

*OperationProofs*, the waiters. `WaitInv` says of every attached waiter that revisions go up
along its queue, from above what it was given last; that nothing in the queue is newer than
the row, and what is as new is the row itself; and that an ending, once published, is last in
the queue of whoever has not seen it. A publication therefore appends behind everything, or
finds the row already there. A full queue gives up its oldest progress, or for an update
that is none its oldest entry (`WithoutKeeps`: giving one up keeps the order of the others),
never its last one. Nothing can come behind an ending, since a row that has ended has no
next revision.

*AuthorExecutionProofs.*

- `SentOnceInv`: once a POST was made the child exists and the task is in neither of the
  phases that lead to a POST, and those phases know whether the child exists.
- `ExecutionInv` holds the row's shape and budget, the shape of the outcome under
  settlement, and `OutcomeStands`: there is an outcome exactly while one is settled, and
  a success is settled only of a row that already holds it. Without the last conjunct a
  settled success could put a row into `succeeded` with its recovery still there.
- `WireInv` orders request, job and answer; `TruthInv` says of the row's failure *and* of
  the failure about to be settled that a claim of non-execution is justified. With
  `SentOnceInv` a refusal before the POST is justified because nothing was sent; with
  `WireInv` the author's own refusal is, and nothing the network still holds can make it
  false.
- The refinement (`ExecutionKeepsPromise`) maps each step to a step of
  `OperationPromise` or to a stutter. `PromiseInv` says what each phase relies on: no row
  is proven before it has a child to look up, every row in acquisition is, a row under
  execution is not held for a person, and an outcome agrees with the row it will be folded
  into about what is proven. `ExecutionSuccessIsNeverRetracted` follows from the
  refinement: the promise has no step that takes a proof back.
- `KeepInv` is all of these together. `ExecutionSettledChildAgrees` rests on it: a row that
  changes under a child that stays was not ended (`RowMoves`), the three steps that change
  the child say what they do to the row and follow the job's ending (`ChildMoves`), a job's
  ending is final (`EndingStays`), and only the lookup of a failed job writes a remote
  failure (`RemoteFailureMoves`). It does not say that a row that ended closes its child: a
  spent budget or an unusable answer ends the row and leaves the child open, from which
  `next_start` follows.

*SchedulerQueueProofs.* `ClaimInv`: fences tell the tasks of one process apart; an execution
in progress has its claim on the row, unless the claim was taken from a row nobody else can be
given (ended, or held for a person); and every claim on a row that may be given out has its
task. `OneExecutor` is not inductive without the second, since a takeover is refused only
because of what the row carries. For turns (`QueueInv`), `PassedIsAhead` says that a producer
that was passed still waits, ahead of whoever passed it; a claim takes the first in turn and
sends it behind everybody, so nobody passes twice. That there is a first and a last among any
finite number of producers, and that appending new ones keeps their numbers apart, are the
lemmas on finite sets at the head of the module.

*AsyncAccessTokenCacheProofs.* `CacheInv` adds `Numbered` to the three invariants: every
generation in a lease, in a hand or on record as refused has been installed, so the next
one is new; and an open flight has a number left, which is what makes the code's unchecked
increment safe. While a token is held no flight is open, so neither a failed exchange nor a
dropped owner can be the step that evicts it. `Paced` says at each place what the request
has sent, and that the generation it was refused under is still in its hand or, before the
repeat is authenticated, on record as refused; with `RefusedIsNeverHeld` the token it is
granted next is newer. A request that has sent twice ends, and a submission's POST has no
second sending.

*StateRootProofs*, publication. `PublicationInv`: whatever is held is charged, a producer's
place says what it holds, what it has published or linked is on disk, and files are removed
only while no producer is at work and no stage is left. `CapacityInv` adds `ReservationIsInFlight`, since bytes are charged in place of the
reservation made for them: the charge keeps the account, and the account is otherwise only
raised after the comparison with the limit. It is a sum over sets, so the module first
proves what the library's sum does: adding a member adds its bytes (`TotalAdd`), bytes that
shrink shrink the sum (`TotalMonotone`), and so on.

*StateRootProofs*, installation. `InstallationInv`: a transaction holds the lock alone; the copy
it works on differs from the record at most in the daemon's own entry, or is the first
record of a root in which nothing has been made (`CopyIsCurrent`); what was made stays
visible in the root, whatever becomes of the record (`RootRemembers`); and the identities
anybody may still act on, in the record, in a database or in a copy, are one
(`OneClaimed`). `ServedInv` adds that a target that was up has left its folder and is
registered, under the identity it served, in the record and in every copy (`OpenedIsHeld`,
`ServedStays`): such a target is not stageable, and a root with its folder is occupied.
`InstallationStartFollowsPolicy` is a property of steps and follows from `InstallationInv`,
which rules out the cases the code and the policy would decide differently.

*DaemonOwnershipProofs.* `OwnershipInv`: from the step that takes the owner lock to the one
that lets it go the lock names its holder, and the lease names whoever has the state open;
what a daemon wrote under the owner lock, socket and readiness record, is its own
while it serves. A predecessor that removes its socket after it released the lock removes
only its own, so the successor's stays.

*AgentSubscriptionProofs.* Four accounts of one stream have to agree: the author's, the
ledger's position, the attachment's and the child's. `AuthorInv` is the stream itself: a
job's events are numbered upwards and none follows its ending. `AnswerOK` says that an
answer, whenever it was asked for, covers every event of its job up to its watermark and
claims an ending only of a job that ended; the stream only grows, so an answer in flight
stays true. `JobOK` is the heart: a child that is open holds every event that the ledger *or
the attachment* has passed (`Reach`), and no ending. `NothingIsPassed` alone, which speaks
of the ledger, is not inductive, because the ledger's position moves to wherever the
attachment is. A reset moves it to a position captured earlier, which is safe only because
its answers were asked for afterwards, so that each watermark is at least that position
(`ConsumerInv`). `SettledIsReported` needs the same facts for the lookup of the scheduler
(`LookupInv`), whose answer may be applied long after.

*ProtocolSessionProofs.* `SessionInv` follows a request through the server. `Standing`: as
long as the client has not reused an identifier it was still waiting for, a request is in at
most one place: its line unread or held back, with its worker, its answer in the queue or
with the writer. An open request that was not withdrawn is in exactly one; with no request
there is none. `Named` ties the registry to those places: *answered* exactly while the
answer is in the queue or in the writer's hands, *reserved* or *cancelling* exactly while a
worker is pending. Both are said while output works, for a failed queue is emptied and the
session ends. `NoFalseDuplicate` follows from the two, and so does `DrainAnswersEverything`:
when a session drains, none of the places holds anything.

For room, `OutputInv` has prefix sums of the lines in the queue instead of their recursive sum, so that a line appended or taken adds or removes one term; `RoomIsLeft` is
then kept by each admission, and `SessionWorkersAnswersFit` says what it is for: whichever
worker ends next, its answer, however long, is queued.

The induction theorems of the library cannot be used here, because they take a predicate as
an argument. Facts about all finite sets are proved by the smallest counterexample instead:
the strict-subset order of a finite set is well founded, so a nonempty set of
counterexamples has a minimal member, and taking one element from it gives a contradiction
(`GreatestExists`, `SmallestSet`).

What the proof attempts found. A `CASE` with overlapping guards is an arbitrary choice, and
three definitions had one where the code tests in order; they are now ordered tests. A
comment on `HoldNeedsItsReceipt` had it that no recovery offered to a row is at attempt 0;
`record_snapshot_success` offers one, which is now an action of its own, with the guard
that makes the property hold. The type invariant of `TargetInstallation` did not say that an
identity in a database had been drawn. The bound on revisions of `OperationWait` and the
limit on retained events could be zero, which the code excludes. The bytes of the MCP
server's queue were the sum of its lines, while the code keeps a running count that is added
to, subtracted from and reset at three places; it is now a variable, and that it has not
drifted from the lines is a part of `RoomIsReserved`.

With TLC only: the liveness properties (`EveryOperationEnds`, `JoinedAreReleased`,
`QueuedIsTaken`, `InputEndEndsSession`), since fairness and `ENABLED` are outside the
prover's reach, and the divergences of section 3, which are there to be violated.

## 5. Not modelled

The state machines at the core of the product are modelled; what follows is the rest. Of some 123 000
lines about 25 000 are the contracts and schemas of the single commands, 26 000 the agent's
transport with its decoders, 12 000 development tools and test support, and most of the
others queries, encodings, rendering and platform calls. Most of it is
a function of its arguments, of which a model would be a copy. The transport does keep state,
per connection; its outcomes appear as the classes of answer in `AuthorExecution`. The
modules map about a twelfth of all lines.

- SQLite itself, migrations and the file system: a transaction is atomic and
  durable. The wall clock does not run back behind the start of a request, which
  the missing-job branch would refuse without charging.
- Retry delays are *running* or *over*; the jitter and the arithmetic are not
  modelled. Leases are *live* or *lapsed*.
- Checks of an answer against contracts and identities have one outcome each: the
  exchange failed and is charged, or the answer is used.
- `scheduler_claim::renew` and the fence in `storage/operation/remote_submission.rs`
  have no caller in the service.
- The blocking token cache (`access_token_cache.rs`), which the service never builds. It
  does not share a failed exchange: each thread queued on its mutex makes its own,
  against its module comment. A lease presented to another cache (refused before anything happens), Basic
  credentials (no cache), and the event stream's use of the token cache. The clock of
  the token cache is one clock: a token is due for everybody or for nobody.
- The event store's generation is one: the service submits under the first generation,
  and the code for a change of generation (`finish_generation_reset`) has no caller there.
  The subscription code as a whole is not driven by the service loop at this commit; it is
  modelled as its functions are written to be called, one attachment or reset at a time.
- Reconnection back-off, framing, decoding, the transfer protocol of artifacts, the result
  documents of maintenance, Windows pipes and file handling, configuration, the contracts
  of the single commands, rendering, the MCP server's catalog and projections and the
  development tools: input and output, or pure functions of their arguments, with no state
  over time.
- `maintenance-apply` repeated after it was applied is refused, though
  `docs/MODEL_CONTEXT_PROTOCOL.md:135` lets the same call be made twice; the receipt's content is not in
  the model.

## 6. Plan

All ten state machines are modelled and have every safety property of their runs proved. What
is left:

1. The liveness properties, with a prover that knows fairness. The measures are at hand: the
   attempt budget for `EveryOperationEnds`, the length of a queue for `QueuedIsTaken`.
2. Breadth: the connection state of the agent's transport (`agent-connection/selected_author_http.rs`)
   and the transfer protocol of artifacts, which now appear as the classes of their outcomes.
3. A change to the code of a mapped definition is a change to its module first; the invariant
   named in section 4 says which step of the proof will object.
