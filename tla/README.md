# A verification project for the workflow platform

TLA+ modules that model parts of this repository, TLC runs that check them on
small instances, and TLAPS proofs about them for every instance. The reference
is the code: each definition of a module is a translation of the lines that
`PROJECT.json` lists for it under `map`. Paths below are relative to
`src/apps/sim/` unless they start with `apps/` or `packages/`.

- [What the system consists of](#what-the-system-consists-of)
- [What is modelled](#what-is-modelled): [Engine](#engine), [PauseResume](#pauseresume), [Outbox and Delivery](#outbox-and-delivery), [OperationQueue and Realtime](#operationqueue-and-realtime), [TableRuns](#tableruns), [EventStream](#eventstream)
- [The runs](#the-runs), [what the violations show](#what-the-violations-show)
- [The proofs](#the-proofs)
- [The plan](#the-plan), [what is not modelled](#what-is-not-modelled-and-why)
- [How to run it](#how-to-run-it)

## What the system consists of

The repository is a monorepo in TypeScript. Users draw workflows of blocks and
edges; the server executes them, on request, on a schedule, by webhook, or for
the rows of a table; a realtime server lets several users edit one workflow.
State lives in Postgres (rows, row locks, compare-and-set updates) and in Redis
(locks, counters with a TTL, event buffers); any number of server processes and
background workers share both, and any of them may die at any time.

| Component | State | Operations | Interacts with |
|---|---|---|---|
| Execution engine `executor/execution/engine-v2.ts`, with the edge manager `edge-manager-v2.ts` | ready queue, blocks in flight, flags, incoming and deactivated edges; one JavaScript thread | launch the queue, handle a completion, activate and deactivate edges, answer, fail, cancel, pause, resume | calls block handlers; hands its snapshot to the human-in-the-loop manager |
| Loop and parallel orchestrators `executor/orchestrators/` | iteration scopes, cloned branches | start, continue and leave an iteration or a batch | inside the engine's completion handler |
| DAG builder `executor/dag/` | none | workflow to DAG | input of the engine |
| Human-in-the-loop manager `lib/workflows/executor/human-in-the-loop-manager.ts` | `paused_executions`, `resume_queue` | store a pause, accept, queue, start, settle and drain resumes, the cancellation protocol | starts engine runs; called by routes, poller, cancel route |
| Resume route, resume job, poller, cancel route `app/api/resume/`, `background/resume-execution.ts`, `app/api/workflows/[id]/executions/[executionId]/cancel/` | none of their own | ask for a resume, dispatch due waits, cancel an execution | call the manager; write events to Redis |
| Transactional outbox `lib/core/outbox/service.ts` | `outbox_event` | enqueue, claim, handle, settle, reap | handlers of deployments, webhooks, billing |
| Idempotency service `lib/core/idempotency/service.ts` | a claim with a TTL and a result per key | claim, wait, store, release | webhooks, triggers |
| Usage reservations `lib/billing/calculations/usage-reservation.ts` | counters and members in Redis | reserve, release, expire | run preprocessing |
| Execution event buffer `lib/execution/event-buffer.ts`, reconnection stream `app/api/workflows/[id]/executions/[executionId]/stream/route.ts` | numbered events and metadata in Redis, pending events of each writer | reserve ids, write, flush, end, close, reset, poll | execute route, manager, cancel route; reconnecting clients |
| Isolated VM pool `lib/execution/isolated-vm.ts` | worker processes, queues per owner | acquire, run, retire | function blocks |
| Async job backend, schedules, webhooks `lib/core/async-jobs/`, `background/` | job and schedule rows | claim, run, settle | engine |
| Tables: requests and dispatcher `lib/table/`, cell tasks `background/workflow-column-execution.ts` | cells, dispatches, cascade locks | request, stop, dispatch windows, run the groups of a row | job backend, engine, manager |
| Leader lock, single flight, hosted-key queue, rate limiter, admission gate `lib/concurrency/`, `lib/core/` | locks and tickets in Redis, counters | acquire, poll, release | everything above |
| Client operation queue `stores/operation-queue/store.ts`, realtime server `apps/realtime/` | one operation in flight with its timers; debounced updates and their flushes, rooms | edit, coalesce, send, retry, cancel, rejoin; merge, flush, confirm, broadcast | each other, workflow tables |
| Undo and redo `stores/undo-redo/` | stacks per user | push, undo, prune | operation queue |
| Billing webhooks, copilot, MCP connections `lib/billing/`, `lib/copilot/`, `lib/mcp/` | mirrors of other services | react to calls of those services | other services |

What makes them right:

- *Engine.* A block runs once, after everything it waits for; branches that were
  not taken do not run, joins are not stranded; one answer; a cancellation is
  prompt and is reported; a run that returns leaves nothing in flight.
- *Manager, routes, poller.* One resume of an execution at a time; no resumption
  lost, none done twice; queued requests get their turn and waits their time; an
  accepted cancellation stands.
- *Outbox.* At least once, a bounded number of attempts, final verdicts, no two
  workers under one lease.
- *Idempotency, reservations, locks.* One holder while the lease lasts, no count
  that drifts when a holder dies.
- *Operation queue, realtime.* The queue neither hangs nor stalls, what was
  confirmed is in the database, and clients and database agree in the end.
- *Tables.* One task at a time works on a row; a cell starts once per request, and
  again only for new inputs; a stopped cell is not written over; a queued cell is run by
  somebody; all comes to rest.
- *Event stream.* A reader that comes back misses nothing without being told, and
  comes to its end; no event stays in memory unflushed.

Hard everywhere is the same: row locks are released between two transactions of
one operation, and what was read before is used after; processes die between two
steps; answers come after their timeout.

## What is modelled

One module per component, each with its bounds as CONSTANTS and an assumption
that names what it requires of them; an `MC` module with instances for TLC, one
`.cfg` per question, and a `Proofs` module. Definitions named in a comment that
starts with "Mutant" are wrong on purpose: each is the code with a plausible bug,
and replacing the definition it stands beside makes TLC find a property violated
(`mutants` in `PROJECT.json`). They are not part of any specification.

### Engine

`Engine.tla` is one execution by `ExecutionEngineV2` and `EdgeManagerV2`, which
`executor/execution/executor.ts` selects in production, for a DAG given as the
constants `Nodes`, `Edges` and `Start`. The engine is single-threaded: an action
is what runs between two awaits that can yield.

| State | Code |
|---|---|
| `incoming`, `deactivated`, `activated` | `node.incomingEdges`, `deactivatedEdges`, `nodesWithActivatedEdge` |
| `pc` | where `run()` is: filling the queue, waiting for a completion, draining, returning |
| `ready`, `running`, `executed` | `readyQueue`, the promises of `executing`, `context.executedBlocks` |
| `locked`, `output`, `stopped`, `skipped`, `failed`, `cancelled`, `paused` | the flags of the same names |
| `waiting` | pause points stored and not yet resumed, across the runs of one execution |
| `starts`, `settled`, `taken`, `orphans`, `cut` | history |

`Dispatch` is `processQueue`, `LeaveLoop`, `Drain` and `Return` are the rest of
`run()`; `Finish(n)` is a handler's end with the completion handler behind it
(`Throw`, `Pause`, `Respond`, `Complete` and its late, skipping and stopping
variants); `Resume(p)` is `initializeQueue` on a snapshot without the edges of
`p`. A handler is a choice among the outcomes it may have. The recursive
deactivation is defined as the least closed set (`Cascade`); `CascadeIsRecursion`
checks, in every state of `engine_routes`, that the code's depth-first recursion computes
it, so that the module needs no recursive operator and can be proved about.

Simplified: no loops, no parallels, no run-from-block, no resume triggers; a
block's state is stored when it settles, also after a run was stopped, as the
block executor does it; a resumed run starts only from the latest snapshot.

### PauseResume

`PauseResume.tla` is one row of `paused_executions` and the entries of
`resume_queue` for it. One transaction, or one statement outside a transaction,
is one action; whatever else may happen between two of them does.

| State | Code |
|---|---|
| `status`, `point`, `resumedCount`, `nextResumeAt` | columns of the row; `point[c]` is `pausePoints[c].resumeStatus` |
| `snapshot` | the contexts whose resumption `executionSnapshot` contains |
| `entry` | the queue, by `queuedAt` |
| `pc`, `base` | the step at which each resumed run or cancel request is, and the snapshot the run started from |
| `due`, `later` | the poller between its read and its write |
| `ran`, `tried`, `faults` | history |

| Actions | Code |
|---|---|
| `FirstPause`, `Persist` | the two branches of `persistPauseResult` |
| `Accept` (under `Ask`, `Dispatch`) | `enqueueOrStartResume`, called by the route and by the poller |
| `Poll`, `Dispatch`, `StoreNext` | the poller: read, dispatch one wait, `setNextResumeAt` |
| `Start`, `Pauses`, `Succeeds`, `Fails`, `Refused`, `Unpublished` | `startResumeExecution` and the outcomes of `runResumeExecution` |
| `CloseEntry`, `SaveSnapshot`, `Complete`, `MarkFailed`, `Reopen` | what each outcome stores, in the order of the code |
| `DrainStops`, `DrainDrops`, `DrainClaims` | one transaction of `processQueuedResumes` |
| `AskClaims`, `AskStatus`, `Confirm` | the two reads of `getPausedCancellationStatus`, and `completePausedCancellation` |
| `Begin`, `Publish`, `Mark`, `Block`, `Clear` | the cancel route |
| `PersistFails`, `Throws`, `Dies` | a failed transaction, an exception after the run, a dead process |

A resumed run is what `Engine` models; here it has only its outcome. Left out:
the log status (also written by other components), the editing of block outputs
inside the snapshot, table cells.

### Outbox and Delivery

`Outbox.tla` is the table and its workers: cron batches, and single calls right
after a commit. `BeginBatch`/`LeaveBatch` with the reaper, `OpenClaim` (reading
the clock), `ClaimNext`/`ClaimById` (the claiming transaction, with rows locked
by others skipped), `HandlerSettles`, `HandlerTimesOut` and `DetachedEnds` (the
promise that goes on after its timeout), and the settlements `NoHandler`,
`Complete`, `Fail`, `RecordTimeout`, each a compare-and-set on the lease.
Timestamps are numbers of one clock; `ClaimDelay` bounds the time between
reading the clock and committing a claim with it.

`Delivery.tla` is what the outbox promises its callers: performed before
acknowledged, one verdict, never taken back. `Outbox` implements it under the
mapping `Contract` (a status is mapped to its verdict, history to what was
performed).

### OperationQueue and Realtime

`OperationQueue.tla` is the queue of edits in each browser, as operators on the
state of one client. New operations go to the end and a failed one is tried again
from its place, so the order of the queue is that of the ids and a set holds it: `Added` (`addToQueue`, with what it drops as duplicate and
what it replaces), `Processed` (`processNextOperation`), `Confirmed`, `Failed`,
`Cancelled` (`cancelOperationsForBlock`), `Offline`; and as actions what the user
and the clock do. A handler runs to its end in JavaScript, so it is one step.
`Realtime.tla` EXTENDS it with the server and composes the two by messages:

| State | Code |
|---|---|
| `client` | a browser's `operations`, `isProcessing`, timeouts, retry timers, `hasOperationError` |
| `joined`, `registered`, `session` | the socket's room, what the queue knows of it, and which socket it is |
| `view`, `removed` | what a browser shows |
| `sent`, `inbox` | messages on their way, in order to each client, in any order to the server's handlers |
| `pending`, `entry`, `flush` | `pendingSubblockUpdates`, its entries (also those that only a timer or a flush still holds), running flushes |
| `store`, `deleted`, `locked` | the fields and the rows of `workflow_blocks`, and which of these are protected (`isWorkflowBlockProtected`) |
| `written`, `superseded`, `lost` | histories: updates that were stored, that a later one replaced, that their flush let go of |

`Merge`, `Timer`, `Read`, `Write`, `Answer`, `FlushFails` are the handler of an
update and `flushSubblockUpdate`, cut at its awaits; `Persist`, `Announce`,
`PersistFails` a removal; `Tell` what the server sends to sockets that are still
there; `HearsConfirmed`, `HearsFailed`, `HearsValue`, `HearsRemoved` (under
`Receive`) the client's handlers. `ToggleLock` locks a block or unlocks it: a flush
that reads a locked block writes nothing and confirms (`Read`, then `Answer`), and a
removal leaves it in place but is announced and confirmed (`Persist`). A flush that
finds the workflow gone, or locked by now, refuses the update (`FlushFails`, with the
failures of the database). Updates of a subblock and
removals of a block stand for all edits; `variables.ts` repeats `subblocks.ts`.

### TableRuns

`TableRuns.tla` is one table with workflow columns: requests to run and stops, one
dispatcher per request, the cell tasks, and the guarded writes of a cell. A step is
one statement or transaction on Postgres or Redis.

| State | Code |
|---|---|
| `cell`, `filled` | `table_row_executions` and whether the group's outputs are set |
| `disp`, `ask` | `table_run_dispatches`: status, cursor, rows counted; its scope and mode |
| `lock` | the cascade lock of a row in Redis |
| `pc`, `batch`, `seen` | where a request and its dispatcher are, and what they have read |
| `task`, `ctrl` | the cell tasks, and the abort controllers a stop finds them by |
| `draft` | what a worker is to write, between the read and the transaction of `updateRow`: the status, the outputs of the whole row, the groups whose executions it deletes |
| `overtaken`, `starts`, `rearmed`, `dropped` | history |

| Actions | Code |
|---|---|
| `Request`, `RequestStop`, `AbortCells`, `WriteCancelled`, `ClearCells` | `runWorkflowColumn`, `cancelWorkflowGroupRuns`, `bulkClearWorkflowGroupCells` |
| `ReadDispatch`, `Begin`, `TakeWindow`, `StampQueued`, `Enqueue`, `EndWindow` | `dispatcherStep` |
| `TakeLock`, `NoticeAbort`, `Check`, `Claim`, `Release`, `Recheck` | `executeWorkflowGroupCellJob`, `runRowCascadeLoop` |
| `Report`, `Finish`, `Record` | a worker's partial write and its end: `schedulePartialWrite`, `writeWorkflowGroupState`, and the transaction of `updateRow` |
| `MeetLimit`, `TakeExpired` | a usage limit met by a cell; a lock that expires under its holder |

A worker reads the row (`Report`, `Finish`) and writes it in a transaction (`Record`):
its outputs with the others as it read them, its own cell under the guard, and without
a guard the deletion of what depends on the outputs (`deriveExecClearsForDataPatch`).
`Dirtied` is the pass over the groups from left to right as the least set that is closed
under it; of these `Cleared` takes the executions that were not in flight when the row
was read, the absent ones too. So a stopped or completed cell runs again when a group to
its left has written, and a marker stamped in between is deleted. `Check` and the gate
behind it are apart: the usage limit blanks a cell that was stopped in between.

Merged: the cancellation of dispatches with the request it belongs to, the
dispatcher's read of its status with that of its window, the choice of the next
group with the end of the one before, the two reads of a worker's write, its partial
writes into one with all outputs, the read and the write of claims, stamps and limits
(whose transactions write the row's outputs back as they read them), an expiry with the
next taker. Ids of executions are their tasks; a cell that has ended has the id `Past`.
Left out: filters, deselected rows, edits by users (with the cancellation of groups that
depend on them), enrichments (their empty outputs too), paused workflows, the external
job backend.

### EventStream

`EventStream.tla` is the replay buffer of one execution: a writer each for the run
that may pause, its resume and the cancellation of its pause, and readers.

| State | Code |
|---|---|
| `stream`, `seq`, `meta` | the sorted set, the counter and the hash in Redis |
| `ids`, `pending`, `timer`, `flight`, `op` | a writer's ids, `pending`, `flushTimer`, `flushPromise`, and the call that waits for it |
| `phase`, `left`, `tries` | how far the caller of the writer is |
| `at`, `last`, `held`, `final` | a reader between its reads, `lastEventId`, what it has read, its last look |

`Write`, `WriteEnd`, `Close`, `TimerFires` are the calls of a writer. A write that
fails is logged and skipped, but for the first of a resume, `execution:started`
(`OpensResume`): the manager rethrows it ahead of its `try`, so the resume is over
without an end (`Abandons`), as it is when the metadata cannot be initialized. `EndFlush` is
what comes back from Redis (`Stored`, `Failed` before or after the script has run,
`Refused` by a budget); `ResetStream` and `StartResume` are what a resume does
first; `ReadMeta`, `ReadRange`, `Recheck` are the three reads of
`readExecutionEventsState`, `ReadStatus` what the route does between two looks.
That a paused run emits an end nobody waits for (`execution:completed`, kind
`early`) ahead of its pause is in the model, as is the resume that starts before
the paused run has written its own end; `overtaken` marks a stream that a resume has
reset under the run's writer (`Unsettled`), for whose events nothing is promised.
Left out: expiry, sizes, the
in-memory buffer, a reset that fails, the reading of `seq` apart from the reset
script, and what is started again for the same execution: a second resume, a
repeated cancellation.

## The runs

A type invariant that a theorem states for every instance is not repeated in a
run (`Outbox`, `Engine`, `PauseResume`, `TableRuns`); that of `Realtime` is, because
a mutant of the queue breaks it.

| Run | Instance | Question |
|---|---|---|
| `engine_routes` | 7 blocks: a condition with three outcomes, an error port, a join, a chain under a branch; failures, a cancellation, blocks that may hang | `RunsOnce`, `OnlyTakenRuns`, `Quiescent`, `CascadeIsRecursion`, `Termination`, `CancelIsPrompt` |
| `engine_shapes` | a condition chooses one of three workflows: branches that meet twice with an error port; two pauses before a join, one below a pause, resumed in any order; two Response blocks and a stop-after block. Failures, a skip, a cancellation | `FeedersDone`, `NoStranded`, `NoLateFeeder`, `ResponseFinal` |
| `pause_runs` | two approvals and one behind the first, 4 entries, one cancel request, one crash or failed transaction anywhere | `OneResume`, `SnapshotHasResumed`, `QueueMatchesPoints`, `CountsAgree`, `ResumedOnce`, `CancelIsKept` |
| `pause_waits` | two waits, the poller, a cancel request that may fail half-way, a clock to 3 | `WaitIsScheduled`, `QueuedRuns`, `WaitsAreDispatched` |
| `outbox` | two rows, one without a handler, two workers, two attempts, a clock to 4, one fault | `LeasesDiffer`, `CopyIsFresh`, `CompletedWasDelivered`, `DeadLetterIsExhausted`, `TerminalIsFinal`, `Delivers` |
| `collab` | two users, two fields in two blocks, one removal, three events among edits, faults (late or lost answer, lost socket, refusal, a block locked) and failures of the database or refusals at the flush | `TypeOK`, `NoHang`, `NoStall`, `ConfirmedIsKept`, `SingleWriterAgrees` |
| `tables` | two rows, two groups that run by themselves, the second on the outputs of the first, two of: a column run, an automatic run, a run of a row, a capped run, a stop; one usage limit or expiry | `OneAtATime`, `RunningIsRun`, `StartedOncePerRequest`, `HandedOver`, `StopStands`, `ComesToRest` |
| `stream` | one event of the run and one of its resume, both ends, batches and limits of two, one failure anywhere, one reader | `NoSilentGap`, `NeverStranded`, `NoneForgotten`, `EndsReachReaders` |

### Bounds, and why they are enough

- *Engine.* The state is finite without a bound. The workflows have each shape of
  join the edge manager treats differently: fed by both branches of one
  condition, by an error port, through a block of the branch not taken, by a
  pause.
- *PauseResume.* `MaxResumes` bounds the entries: one for each point, and one or
  two for points that are opened again. `Spare` (in `Fails`, `Refused` and
  `Unpublished`) keeps a run from opening its point again when no entry would be
  left to resume it with: it cuts off repetitions of the same attempt, no order of
  steps. Three entries are enough for a running, a queued and a repeated resume.
  `MaxTime` is one step after the last wait. `MaxFaults = 1`: with two, TLC finds
  nothing new, and the proof of `OneResume` has no bound.
- *Outbox.* In 4 steps of the clock a handler can time out, its lease grow stale,
  the row be claimed by the other worker, and both answer. Two rows are needed for
  the order of claims, the only way in which events influence one another.
  Workers are interchangeable, so the run uses symmetry; it checks no liveness.

- *Realtime.* Three events (`MaxEvents` counts edits, locks, faults and failures together)
  are a first update, a second that meets it in its entry or its queue, and what
  goes wrong; with four, TLC needs hours. Values are interchangeable (symmetry).
- *TableRuns.* Two requests overlap on two rows, so that a dispatcher is ahead of
  the tasks of the other; two groups, one of which reads the other's outputs, are a
  cascade and what a write may clear. TLC reaches each case of a clearing: of what was
  completed, stopped, queued since, and (after an expiry) running. The window is one row.
  The first group may end in all four ways, the second only with empty outputs. A row of
  this instance cannot spin, so `ComesToRest` holds of it without its exception.
- *EventStream.* Limits of two make pruning, full batches and dropped events happen
  with three to five events; the second reservation of ids too. The one event of the
  resume is its first, the one that may not fail. Random simulation with three events
  and three failures finds nothing more.

Every run has `CHECK_DEADLOCK FALSE`: an execution ends, a row is settled, a
bounded clock stops.

### Fairness

- `Engine!FairSpec`: the event loop runs what is runnable; nothing is promised
  about blocks. `Termination` has as its premise that each block ends
  (`BlocksEnd`), by its result, an error or its timeout; `CancelIsPrompt` has not.
- `PauseResume!FairSpec`: a process that is not killed takes its next step, a run
  ends (its timeout aborts it), the cron calls the poller, time passes. Nobody has
  to ask for a resume or to cancel, and no run has to succeed.
- `TableRuns!Spec`: what was begun goes on (`Proceed`), in whatever order; requests,
  usage limits and expiries need not come.
- `EventStream!Spec`: each writer comes to its end, its timers fire, Redis answers or
  fails, a resume that has reset the stream goes on, a reader polls (`Poll`). Its
  deadline (`GiveUp`) is not needed.
- `Outbox` and `Realtime` have no fairness: nothing there is promised to happen in a
  bounded time, and `NoHang` and `NoStall` say as invariants that a timer is set.

### What the violations show

Each of these runs checks one sentence of a document, a comment or a test that
the code does not keep; `findings` in `PROJECT.json` quotes it with its line.

| Run | Shown |
|---|---|
| `engine_stranded` | A join whose other feeder is cut off two blocks deep, after its first feeder came, is never queued; the run reports success. |
| `pause_clobber` | The poller stores the next time it computed from its read over the one that a second pause has just stored: the wait behind a wait is never polled again. |
| `pause_stop` | A cancellation accepted while a resume runs is completed only if that run is cancelled too; if it ends by itself, the other points stay in a row that is `cancelling` until somebody stops it once more. |
| `tables_stop` | A stop of the table between a dispatcher's read of `pending` and its write of `dispatching` is overwritten, and the run walks on through the table. |

Other things the models show and no run of the project repeats, either because
nothing in the repository says otherwise or because the properties leave them out
by name:

- *Engine.* Resuming a pause block launches what is behind its error port too. With
  a pause in a parallel branch, a run whose Response block has answered reports a
  pause; a run cancelled after one branch paused does too, with blocks in flight.
- *PauseResume.* A process that dies with a claim blocks the execution's queue for
  good. A pause that cannot be stored leaves its point `resuming`; an exception in
  the drain marks a resumed point `failed`; a run that cannot publish its end is done
  again; a resume that starts between the two reads of `getPausedCancellationStatus`
  is cancelled in the row while it runs.
- *Realtime.* A value switched on, off and on again while the first update is in
  flight: the third is dropped as a duplicate of the first, and `off` stays
  (`store.ts:173`). An update confirmed by a flush that had not read it is lost if its
  own flush fails. Two fields of one block flushed at once: one goes back to its old
  value. An update of a block that has just been locked is confirmed and never written
  (`subblocks.ts:309`, `370`), and the removal of one is confirmed and broadcast while the
  row stays (`database/operations.ts:915`): all canvases drop a block the database keeps.
  Whoever's update was coalesced does not hear the value that won. An update that
  joins an entry while it is flushed is confirmed twice, and the second time sets the queue
  of its client free while another operation is in flight: two are then sent at once, though
  `content/blog/multiplayer/index.mdx:70` says one at a time, and may arrive in either order.
- *TableRuns.* The outputs of a worker delete, without looking again, the executions of
  the groups that depend on them (`rows/executions.ts:166`, `237`): a stop of those groups
  does not outlast the run of a group to their left, partial or failed runs included, and
  a cell queued between the worker's read and its write loses its mark. The limit blanks a
  cell stopped since it was checked (`workflow-column-execution.ts:542`). A worker's write
  brings back outputs that were wiped after it had read the row.
  Two groups that run by themselves and complete with empty outputs
  follow each other for ever (`workflow-column-execution.ts:153`). A run of all cells
  may wipe a cell whose old worker then writes its end. A capped run of all cells is
  not wiped and re-runs nothing. A process that dies leaves its dispatch and its cells
  as they are. A queued cell that its row's owner passes over, because another group
  comes first that runs by itself and has left its outputs empty, stays queued
  (`workflow-column-execution.ts:89`, `dropped` in the model), also when a stop of that
  other group alone, as an edit of a cell issues it (`rows/service.ts:1248`), is written
  after the owner has left: nothing hides the cell then, and nobody comes for it.
- *EventStream.* An end written while a background flush is in flight is stored
  without its status. A reader may take `execution:completed` for the end of a run
  that pauses. A quick resume resets the stream under the run's writer, whose late
  events and status then land among those of the resume. An id taken by a payload that
  could not be stored makes a replay from the start look pruned. Sustained failures
  drop events without a trace. A resume whose first event cannot be written has set the
  status `active` and leaves it so, with no end: readers poll to their deadline
  (`human-in-the-loop-manager.ts:1140`, which `EndsReachReaders` excepts).

`hazards` in `PROJECT.json` lists where these bite.

## The proofs

Each module holds the invariant as a conjunction of named parts, one lemma for
each part that a step preserves with one proof step per action, and the theorems.
The assumptions are the named ones of the modules, which TLC evaluates in every
run, and, for some theorems, one named hypothesis each, given below with its reason.
The proofs cover crashes and faults without a bound on their number. Of the safety
properties that the passing runs check, all are proved but `NoStranded` and
`CascadeIsRecursion`.

| Hypothesis | Of | Why the code keeps it, or what breaks without it |
|---|---|---|
| `Pauses = {}` | `QuietReturn` | a run that is cancelled after one branch paused returns `paused` with blocks in flight |
| `NoErrorBehindPause` | `OnlyTakenIsLaunched` | a resume launches whatever its pause block leads to, an edge from its error port too |
| `~ Outages` | `CancellationStands`, `WorkIsDoneOnce` | the cancel route takes a cancellation back when it cannot publish it; a run that cannot publish its end opens its point again, to be done again |
| `OneOrigin` | `WorkIsDoneOnce`, `QueueAndPointsMatch` | a context id is the block, its branch and its loop iteration (`executor/human-in-the-loop/utils.ts:12`), so a run resumed from a point stores points that no other run stores |
| `WaitsComeFirst` | `WaitsStayScheduled` | with a wait behind another point it is false: that is `pause_clobber` |
| `AutomaticIsNew` | `StartsAreAskedFor` | every caller that sets `isManualRun: false` asks for the mode `new` (`lib/table/rows/service.ts`, `lib/table/workflow-groups/service.ts`) |

**`EngineProofs`** (any DAG, in fact any graph): `EngineTypeCorrect`;
`LaunchedOnce` (`RunsOnce`); `LaunchedBehindFeeders` (`FeedersDone`);
`NeverBehind` (`NoLateFeeder`); `AnswerStands` (`ResponseFinal`);
`NothingBehindSkip` (`SkipIsTotal`); `QuietReturn` (`Quiescent`); and
`OnlyTakenIsLaunched` (`OnlyTakenRuns`). `RunsOnce` is
not inductive: that a block is not queued again depends on its feeders having
arrived. `EdgesInv` says what the incoming edges of a node tell (a feeder missing
from them is settled), `LaunchInv` that a launched or queued node has none left
but those cut off, `OnceInv` that nothing queued has been launched. The lemmas
about `Cascade` (it contains what it starts from, is closed, and is least) stand
where an induction over the recursion would. `TakenInv` says that a node is
activated along a taken edge only; a join that a deactivation releases late is
launched because it is activated, not because it has no feeders left.

**`PauseResumeProofs`** (any points, waits, callers, requests): `PauseTypeCorrect`
and `OneResumeAtATime` (`OneResume`). Claims alone would do for the queue, but the
property speaks of the runs as well, hence `WorkIsClaimed`: a run at work has not
given up its claim; no drain, cancellation or crash takes it from a live run.
`RunsHaveEntries` is what types need: a run has a pause point.
`CancellationStands` (`CancelIsKept`): `NoneClears` says that the cancel route's own
outage is the only way in which a cancellation is taken back. With outages too,
`NoResumeLost` (`SnapshotHasResumed`). A run writes back the snapshot it has read, so nothing may
be lost only if nobody wrote in between. `Intact` says so: what is at work has
the snapshot as it is (`BaseIsCurrent`), a point is being resumed only for a claim
whose run has not stored its pause (`ResumingIsClaimed`; `Persist` counts every
such point as resumed), and a run completes its point after it is stored
(`SavedIsIn`). It rests on the claim being one, and ends with the first fault.

**`PauseQueueProofs`** (the same generality): the queue, the points and the counts.
Every step either leaves the points alone or is one of five that write them, so
each invariant goes through six cases. `WorkIsDoneOnce` (`ResumedOnce`): an entry whose
work is still to be done (`Live`) has a point that has not been resumed and that no
other live entry has, and a point that a run has led to (`Follow`) implies that the
run's own point is done (`FollowIsDone`) - otherwise a second run from there could
open it again. It holds with crashes: a claim whose process died is never taken up
again. `QueueAndPointsMatch` (`QueueMatchesPoints`): as long as nothing broke and
nobody cancels, the points `queued` are those of the pending entries, in both directions. `CountsStayRight`
(`CountsAgree`, without hypotheses): the count is that of the resumed points until
something breaks. `WaitsStayScheduled` (`WaitIsScheduled`): the next poll is never later than a
wait, across the poller's read, dispatch and write of what it had read.

**`OutboxProofs`** (any number of rows and workers, any timeouts with
`ClaimDelay < StuckThreshold`): `TypeCorrect`; `LeaseExclusion` (`LeasesDiffer`);
`FreshCopies` (`CopyIsFresh`). Two workers could share a lease if a row were
claimed, reaped and claimed again at one instant; `Timely` bounds the age of a
lease that is being claimed, so the reaper cannot take it at once, and `Fresh` and
`Apart` then follow together. Behind them `CompletedIsDelivered`
(`CompletedWasDelivered`); `DeadAfterMaxAttempts` (`DeadLetterIsExhausted`);
`VerdictsAreFinal` (`TerminalIsFinal`); `OutboxDelivers` (`Delivers`: each step is
a step of `Delivery` or a stutter). They rest on one lemma, `RowMoves`, that says
what a step may do to a row, and on the leases: since a worker whose lease stands
has an up-to-date copy (`Fresh`), the attempts it writes are the row's plus one.
`Known` (only rows that exist are handled) is what the refinement needs.

**`TableRunsProofs`** (any rows, groups, dependencies, requests, stops, windows and
outcomes): `TableTypes`; `RowsAreExclusive` (`OneAtATime`), by `HoldsLock`: who is
inside and was not overtaken holds the lock; `StopsStand` (`StopStands`), from the
guards of the writes and `DraftsFit`: what a worker is about to delete without a guard
depends on its group (`DirtiedIsDownstream`), whose outputs it writes in the same step;
and `RunningCellsRun` (`RunningIsRun`). For the last a task must
not come to a cell twice: `VisitedOnce` says that a task exists only for rows its
dispatcher's cursor or window has reached, so that the window's tasks are new and no
running task is overwritten; `RunningKept` and `RunningWork` then go through the
actions. `StartsAreAskedFor` (`StartedOncePerRequest`) counts: each request by hand
that has done its wiping (`Wipers`), each clearing by new outputs (`rearmed`) and each
usage limit allows a start, and a cell that may be claimed now (`Startable`) has one of
them to spare (`Allowed`). The claim takes the spare one, and no other write gives one
back. `QueuedCellsHandedOver`
(`HandedOver`): a row with a marker that could be run (`Waiting`) and that no task has
dropped is attended by a task under way or a dispatcher about to enqueue one
(`MarkersAttended`). Who finds the lock taken leaves the row to its holder, which is
inside and has its second look to come (`HeldInside`; `VisitedOnce` again: no enqueue
takes the holder away); who leaves after that look has taken the marker or dropped it.
Every other step stamps nothing and fills nothing, so makes no marker wait.

**`RealtimeProofs`** (any clients, blocks, fields, edits, locks, faults, retries), in layers.
First the queue of one client, handler by handler: `Well` (an operation is in the
queue once, the timeouts are those of the operations in flight, the queue is busy only
if there is one) and `Calm` (nothing waits that could be sent) come out of every
handler, which gives `NoQueueHangs` (`NoHang`) and `NoQueueStalls` (`NoStall`), and
with the server's types `RealtimeTypes` (`TypeOK`). Then `ConfirmedStays`
(`ConfirmedIsKept`): the answer of a flush goes to all who wait in its entry, also to
those it has not written, so the invariant `AllSafe` speaks of them too, and of the
answers on their way: each is written, replaced, still to be flushed, or without a block
(`Kept`), or its own flush let go of it: that found the block locked, was refused, or
failed (`lost`). Who waits in an entry is its latest update or replaced by it (`Replaced`), and
a flush keeps its promise (`FlushKeeps`), as does a timer (`TimerKeeps`). All this would
fail if an update could open an entry that a flush is reading; that it cannot is `Once`,
which needs `Newer`: what a client sends again is a later try than all messages the server
has seen of that operation.

**`AgreementProofs`** (the same generality): `SingleWriterAgreement`
(`SingleWriterAgrees`), by an invariant that speaks of every state before the end. As long
as nothing is late, lost, refused, locked or removed (`Undisturbed`), each socket is the first of its
client and nothing but confirmations and values is heard (`Peace`), which leaves a few steps
(`QuietNext`). A client that shares no field then has one operation on its way at a time
(`Serial`): in a message, or alone in its entry before its timer fires or while it is
flushed, or in an answer; so no timeout and no second confirmation comes. Hence no two flushes
of a block that it alone edits run at once (`OneFlush`), and `FieldValues` follows the values:
a flush about to write has read the row as it is (`RowIsRead`); what was written or answered is
stored; who edits shows the last edit; the last edit is stored unless it is in the queue; and
the others will show what is stored, once they have heard what is in their inboxes, except
between a flush's write and its answer (`OthersShow`). The premises are needed: of a field
that two clients edit the property is false, since a second confirmation sets a queue free
while an operation is in flight (see below what the models show).

**`EventStreamProofs`** (any sizes, limits, readers and numbers of failures), in layers,
each an invariant that the next one uses. `NothingForgotten` (`NoneForgotten`): a flush
that fails is tried again only if a timer or a full batch started it; `Roles` says that
the others run when no event of the run is to come: an end is flushed when none is left,
a closing flush behind it. `Numbered` says how ids are given out: each writer takes them
from a block of its own, in order, ends last, and a resume's are above those of the run it
follows. `Streamed` says what Redis holds of them: an event is in the stream, pruned below
`meta.earliest`, lost with its id, or still in memory, and with an event the stream has
had all before it (`NoHoles`). `Gapless` follows a reader through its three reads, which
are not atomic: what lies between two events it has is retained or was reported
pruned; hence `NoGapIsSilent` (`NoSilentGap`). `Ended` adds that the terminal status
comes with or after its end, hence `EndIsFound` (`NeverStranded`).

Model-checked only, and why:

- Liveness (`Termination`, `CancelIsPrompt`, `QueuedRuns`, `WaitsAreDispatched`,
  `ComesToRest`, `EndsReachReaders`): beyond the prover.
- `CascadeIsRecursion`: it is about a recursive operator.
- `NoStranded` holds of the workflows of `engine_shapes` and not of every workflow
  (`engine_stranded`).

## The plan

Done, in this order: `Outbox` with `Delivery` and its proofs; `Engine` with its
proofs; `PauseResume` with its proofs; `OperationQueue` with `Realtime` and their proofs;
`TableRuns` and `EventStream` with their proofs.

What would come next:

- `Loops`: loop and parallel orchestrators as a module of their own that reuses the
  edge rules of `Engine`: iterations, restored edges, batches. Every iteration runs
  once, and nothing of an iteration leaks into the next.
- `Idempotency` (claim, TTL, waiting callers, an expired claim whose holder still
  runs), `Reservations` (the count and the runs in flight), `VmPool`, `LeaderLock`,
  `Schedules`: small modules of a lease each.
- `PauseResume` as an implementation of an abstract specification of resuming.
- Proofs: the refinement of the abstract specification of resuming.

## What is not modelled, and why

`components` in `PROJECT.json` lists every part with its status; parts that are
planned are above. Left out for good: the DAG builder (a pure translation whose
result is the engine's constant), block handlers (calls of other services),
preprocessing (reads), the admission gate (one counter in one process), the older
engine `engine.ts` (not selected in production), billing webhooks, copilot and MCP
(driven by services outside the repository).

The map covers a small share of the repository, and would even if every concurrent
part were modelled: of its 1.9 million lines nearly all are connectors (`tools/`,
`blocks/`, `triggers/`: descriptions of other services' interfaces), icons, templates
and generated catalogues, database schema, documentation and user interface. They
have no protocol of their own that a model checker could explore.

## How to run it

    tlc -workers 2 -config MCPauseResumeRuns.cfg MCPauseResume
    tlapm PauseResumeProofs.tla

The `cfg` of each run is named in `PROJECT.json`; the largest
(`MCPauseResumeRuns.cfg`, 1.4 million states; `MCEventStream.cfg` and `MCTableRuns.cfg`
with their liveness) take two to three minutes.
