# Verification of update-service

TLA+ models of update-service, a Go service in which *entry* nodes take file-processing
operations over HTTP and *worker* nodes receive the files and process them. Nodes share
a MariaDB database and a NATS JetStream bus; Elasticsearch indexes finished operations.
`PROJECT.json` maps every definition to the source lines it stands for.

## Inventory

| Part | State | Operations | Hard behaviour | What makes it correct |
|---|---|---|---|---|
| Operation row (`domain/operation`, `operation_repository.go`) | status, version, input file, cancel time, retry count, current job | Create, GetByID, Update (optimistic), Transition, List | concurrent writers; a lost UPDATE is no error | status follows the transition table; a write is a change of the current row |
| Upload (`file.go`) | temporary and ingress file of the node | check CREATED, stage, Update, Append, start dispatch | two uploads race; crash between commit and dispatch | one input file per operation; a queued operation is dispatched |
| Dispatch (`dispatch.go`) | its copy of the row; transfer, chunks, job, attempt | load, select worker, transfer row, START_TRANSFER, chunks, PROCESS_UPDATE, job, attempt, Update, Append | works long on an old copy; commands before rows | no work before input; `current_job_id` never dangles |
| Cancel (`cancel.go`) | – | check, Update, Append | races upload and dispatch; nobody honours the intent | an accepted cancel is recorded |
| Retry (`retry.go`) | – | check, Update, job, attempt, Update, Append | two Updates from one copy | budget, count never falls |
| Create, idempotency (`create.go`, `handler.go`, `idempotency_repository.go`) | idempotency_keys | refuse, look up, insert, append, store | concurrent repeats; four calls without a transaction, three of their errors dropped | an accepted request names an operation created under its key; a refused one left nothing; one operation per key |
| Coordinator handlers (`role.go` 334–608) | durable consumer | decode, handle, acknowledge | duplicate events, reports that race clients, undecodable events | a recorded completion should be a completed row; it never is, see the disagreements |
| Worker commands (`role.go` 166–318, 610–635) | activeTransfers | START_TRANSFER, PROCESS_UPDATE, CANCEL_UPDATE | blocking callback, redelivery, restart | no processing before the file is complete |
| Transfer receiver (`receiver.go`) | active transfer, received chunks, staging file | accept, chunk, finalize | duplicates, reordering, cancelled context, stale version | COMPLETED only with the right file; verified is announced |
| NATS client (`nats/client.go`) | stream, consumers | publish, subscribe, close | interest retention, at-least-once delivery | a published message with a consumer arrives |
| Node registry (`role.go` 66–164, `node_repository.go`, `heartbeat_repository.go`, `scheduler.go`) | nodes, node_heartbeats | register, subscribe, heartbeat, select, publish | heartbeats before the consumer exists; restarts under one incarnation; two processes of one node; dead nodes | a command for a scheduled worker finds its consumer; health is of this life |
| Indexer (`elasticsearch/indexer.go`) | bounded channel, closed flag | Index, worker, drain, Stop | full channel, Stop races Index, two workers drain one channel | what Index took is indexed or written off; Stop leaves nothing it found, and ends when the handlers fall silent |
| HTTP, start-up, configuration, migrations, documents | – | routing, wiring | shutdown closes the database before the server | – |

The parts meet in the database (every use case and handler reads and writes the
operation row), on the bus (dispatch → worker commands and chunks; worker → coordinator
events) and, for one node, in the staging directory. There are no Go tests in the
repository; comments, API annotations and schema comments say what is meant.

## Modules

| Module | What it is |
|---|---|
| `OperationRow` | one row: statuses, `Successors`/`CanTransition` (the table of `transition.go`), the change each use case makes to its copy, `Stored` (the UPDATE with its WHERE clause), `Transitioned` |
| `OperationLifecycle` | the entry nodes at work: one action per call of upload, dispatch, cancel, retry and report handlers |
| `AtomicOperations` | what those should add up to: uploads, cancels, dispatches and retries that change the current row at one instant, and the second write of a retry, which does not |
| `TransferPipeline` | a file on its way to the worker: the dispatch's publications, JetStream, the worker's command callback, the receivers of chunks |
| `FileDelivery` | what the receivers should add up to: a staging file that fills up with one body, is recorded chunk by chunk and sealed when whole |
| `OperationCreation` | POST /operations: how the rows of `OperationLifecycle` come to be, and the idempotency keys |
| `NodeRegistry` | the lives of the nodes: registration, subscriptions, heartbeat loop, and the scheduler that reads what they wrote |
| `Indexer` | the bounded channel of documents, its workers, drain and Stop, the dead-letter file |
| `Outbox` | what the indexer should add up to: a box of `Cap` places that answers at once, writes off only for want of room, and is empty of what it held when Stop returns |
| `UpdateService` | entry nodes and worker together: `OperationLifecycle` and `TransferPipeline` as the two sides of one dispatch goroutine, and the file that uploads stage |
| `MCOperationLifecycle`, `MCTransferPipeline`, `MCNodeRegistry`, `MCOperationCreation`, `MCUpdateService` | instances for TLC (`Indexer` needs none) |
| `OperationLifecycle_proofs` | type correctness and safety, for every value of the constants |
| `OperationAtomicity_proofs` | `OperationLifecycle` implements `AtomicOperations`, whatever an outside client of `Transition` commits, and what that says of the deployed wiring |
| `TransferPipeline_proofs` | type correctness and safety of the pipeline; `TransferPipeline` implements `FileDelivery` |
| `OperationCreation_proofs`, `NodeRegistry_proofs`, `Indexer_proofs` | type correctness and every safety property of those three; `Indexer` implements `Outbox` |
| `UpdateService_proofs` | the composition keeps all that was proved of its sides, and what a worker finalizes is the file of the row |

The modules meet where the parts do: `OperationCreation` ends where `OperationLifecycle`
begins (`CreatedRow` of `OperationRow`), the dispatch of `OperationLifecycle` takes some worker,
and `NodeRegistry` says which; its START_TRANSFER, chunks and PROCESS_UPDATE are those of
`TransferPipeline`, which `UpdateService` makes one step of both; a report handler of `OperationLifecycle` hands a document to `Indexer`.

### How OperationLifecycle reads the code

- A *request* is an HTTP request or one delivery of a worker event: `req[r]` says of
  which kind, at which node, for which operation; it is chosen in `Init` and frozen. `pc[r]`
  is the next call to make, `copy[r]` the `*operation.Operation` the goroutine holds,
  `reply[r]` what the client was told. An upload goes on as its dispatch goroutine.
- `rows`, `jobs`, `attempts`, `transfers`, `facts` are the tables (`facts` is
  `operation_events`), `staged` the ingress file of each node and operation, `published`
  what went to NATS. The schema has no foreign keys, so each insert stands alone.
- Every call to MariaDB, NATS or the staging file is one action. `Begin` is GetByID with
  the checks that follow it; `Update` writes the copy back through `Stored` and, as in the
  code, goes on when no row matched. With `CallsFail` a call may fail without effect
  (`CallFails`) or fail although it had its effect (`Call`: a lost answer, a commit whose
  result is unknown, a cancelled request context). `Append` errors are ignored, as in the code.
- `NodeCrash` stops a node at any moment and loses its goroutines; tables, bus and disk
  stay. `DispatchPanic` is the nil dereference after GetByID, which has the same effect.
- A file is named by the upload that streamed it and a job by its request. Two uploads
  are taken to carry different bodies.
- Left out: the columns stage, error, timestamps and the attempt and transfer references
  (written together with those modelled, never tested); which worker is selected
  (selection may fail); the number of chunks; formatting, logging, authentication. The
  If-Match header is documented and never read, so requests have no precondition.
- The dispatch's chunk loop is one message: it reads the ingress file the node has then.
  The loop itself is in `TransferPipeline`.
- `Kinds` restricts which requests arrive, `PortTransitions` lists the status changes an
  outside client of repository method `Transition` may commit. No code calls that
  method: the deployed wiring is `PortTransitions = {}`, and only with such a client can
  a retry ever be accepted (theorem `ReportsAreLost`).
- Report handlers are modelled from the point where an event is decoded. The worker
  marshals events with Go field names and the consumer's tags do not match them, so in the
  deployed system they are not reached (`TakeEvent` of `TransferPipeline`); the model
  shows what they do when they are.

### How TransferPipeline reads the code

- `FileSize[t]` is the number of bytes that the operation's row announces; `TotalChunks` and `BytesOf`
  are the division of `dispatch.go` and what each read of the loop finds.
- `dispatch[t]` is the next call of the dispatch of transfer `t`, `next[t]` its `chunkIdx`,
  `source[t]` whose body the opened ingress file has. Every transfer is a dispatch of
  its own (the transfer's id has the time in it); `Operation[t]` says whose.
- `row` and `chunkRow` are `file_transfers` and `file_chunks` with the columns that
  something depends on. `Stored` is `Update`: it matches `version` and stores
  `version + 1`, and the caller's copy keeps the old one.
- `commands` and `unacked` are the worker's durable consumer, which exists since the
  worker first started; one callback runs at a time, so `step` and `command` are single.
  Nak, a lost acknowledgement and a restart leave a command in `unacked`, from where it
  comes again at any time the callback is free.
- `consumer` and `bus` are the chunk consumers: a chunk published before its consumer
  exists is dropped (interest retention). Chunks arrive in any order. Two receivers of one
  transfer share one durable consumer, so a chunk in one's hand is not given to another,
  except late (`Redelivers`).
- A receiver is an `ActiveTransfer` and its callback. `file[a]` is `active.file`, `disk`
  the content of `final`: the receivers of one transfer, of whatever life of the
  worker, write the same file, which is opened without truncation. A file that is
  announced and one that is not differ in every chunk, and the digest tells them apart: `Whole` asks of every byte that it came
  with a chunk of the announced body. A receiver compares the number of chunks only, as the code.
- Calls may return an error without effect or with it, as in `OperationLifecycle`.
  `FinalizeTransfer` cancels the context it was called with, which is why `Complete`
  fails for every file with chunks (`ContextLives`).
- `handleWorkerTransferVerified` is not an action: the consumer's switch never selects
  it. `CANCEL_UPDATE` is handled by the worker and published by nobody. ChunkAccepted
  events are left out: their id does not fit its column, and their publication is read
  by nobody who could decode it; the same holds for the log entry of TransferVerified.
- `Accepts` bounds how many receivers are ever made; a START_TRANSFER beyond it waits.
- One worker: another one has its own subject, callback, receivers and directory.

### How OperationCreation reads the code

- `ask[r]` is the request as it arrives: its key, a set of defects and the
  retry policy of its body, chosen in `Init`. `Receive` is the middleware and the handler up to
  the use case: `Refusal` gives the first answer of the checks in their order (415, 400, 422).
- Lookup, insert, audit entry and key are an action each. An operation is named by the
  request that made it, since its id is generated. Only the insert's error ends the request.
- `fits` says whether MariaDB takes the statements on `idempotency_keys`. As deployed it does not:
  they name a column `key`, which the schema calls otherwise and SQL reserves. Both
  values are run and proved about, so what holds does not lean on that accident.
- `coats` is how often a stored response was encoded. The use case encodes it and the
  repository encodes the resulting string once more, so that the replay's one decoding
  never finds an output (`Replayable`).
- `Expire` is the passing of `expires_at`, at any time. `Abandon` is a stop of the node or
  the client's leaving: the tables keep what was done, nobody hears an answer.
- Left out: the body's other fields, the fingerprint (stored, never compared), Delete (no caller).

### How NodeRegistry reads the code

- `Processes` are lives: each is started at most once, under the node, role and incarnation of
  its environment. An id in `Configured` is the same in all lives of a node; an id that was
  generated is of one life. Lives of one node follow each other, except of nodes in `Shared`.
- `life[p]` is where its start has come to, `beat[p]` and `seq[p]` are the goroutine of the heartbeat
  loop, which runs from the registration on, next to the start. Every call to MariaDB and
  NATS is one action, which may fail with or without effect. The ticker may fire whenever the
  loop waits, so no speed is assumed of it.
- `SameKey` is the primary key of `node_heartbeats`: the first numbers of a second life under a
  configured incarnation are taken, and the loop skips the rest of the tick.
- `by` and `ready` of a sample are history: which life inserted it, and whether its command
  consumer existed then. No action reads them.
- `Select` takes any row that ListHealthy and the role test leave; `Publish` is told apart by
  whether the durable consumer exists. It outlives its process, so a command for a dead
  worker is kept for its next life.
- Left out: `heartbeat_deadline_at`, which every heartbeat writes and no statement reads (a
  dead worker stays schedulable); the second event subscription of a hybrid, one with the
  first; statements of a killed process that are still on their way; read methods without caller.

### How Indexer reads the code

- `main` is `app.Run`: before the indexer's Start, after it, in Stop, after Stop, and the
  process gone. Handlers call `Index` in all but the last: the node consumes
  events before the workers start, and on after they ended.
- `ch` is the channel. A worker's `select` is `WorkerTakes` or `WorkerCloses`; in `drain` the test
  of the length (`DrainLooks`) and the receive (`DrainTakes`) are separate steps, since the
  other worker may take the last document in between.
- `Send` is the request to Elasticsearch, which may fail although it had its effect. `DeadLetter`
  is the file, which may not be writable; then the document is only logged (`lost`).
- `Docs` are names, and a name serves again when its document has gone (`Free`), so that calls of
  `Index` never come to an end. `fate` is that of the present document of a name.
- `early` is history: what the channel and the workers held when Stop began. Its names are not used again.
- `Outbox` treats names the same way.
- Left out: the flusher (its buffer is never filled), the documents' fields and ids, so also in
  which order two documents of one operation arrive; the context, which nobody cancels.

### How UpdateService reads the code

- A transfer is named by the request whose dispatch made it. `SameCall` says that the two
  descriptions of the goroutine are at the same call; a call that both describe is a step of
  both (`DispatchTogether`). While the chunk loop runs, `OperationLifecycle` waits at PROCESS_UPDATE.
- `OpenIngress` is where the modules have something to say to each other: the dispatch opens the file that is
  there by now, `staged`, and streams the announced body exactly if that is the file of its copy.
  `TransferPipeline` alone leaves that to chance.
- `NodeStops` ends all dispatches of the node, a panic included. The worker, the chunk loop and
  the calls that only the lifecycle describes are steps of one side.
- An outside client of `Transition` is left out, since no code calls it: the composition is the deployed wiring.
- All bodies have one size, so that sizes and chunk counts never tell them apart and only the digest does.

## Runs

The lifecycle instances have one node and one operation: requests of different operations share
no row, file or job, and a second entry node would only take the shared ingress file
away. Every request is of any admitted kind, so an instance of n requests contains all
mixes of them.

| Run | Instance | Shows |
|---|---|---|
| `lifecycle_faults` | 3 requests, uploads and cancels, failures and crashes | `TypeOK`; `TransferDescribesInput`; `WorkNeedsInput`; `CurrentJobPersisted`; `LoggedWorkHappened`; `StatusMovesAllowed` |
| `lifecycle_fair` | 3 requests, uploads and reports, no faults, `FairSpec` | `ReportsNeverStored`; `QueuedIsDispatched` |
| `lifecycle_retry` | 4 requests, two of them uploads, an outside client fails dispatched operations, budget 1 | `RetryBudget`; `CurrentJobPersisted`; `RetryCountNeverFalls`; `AtomicSpec` |
| `lost_cancel` | 2 requests | disagreement of code and documentation, below |
| `pipeline_file` | 1 transfer of 3 bytes in 2 chunks, 2 receivers, every fault | `TypeOK`; `ReceivedChunkOnDisk`; `FinalizedFileIsWhole`; `FinalizeHasEveryChunk`; `StartLeavesBusAccepted`; `DeliverySpec` |
| `pipeline_fair` | 2 transfers (2 chunks, empty), 2 receivers, no faults but another body, `FairSpec` | `TransfersNeverComplete`; `ChunksAreTaken`; `CompleteIsFinalized` |
| `waits_for_ever` | 1 transfer of 2 chunks, no faults, `FairSpec` | disagreement, below |
| `service` | 2 requests, uploads and cancels, one operation, a file of one chunk, 1 receiver, every fault but redelivery | `FinalizedIsRecorded`; `NoProcessingWhileActive` |
| `registry` | a worker under a configured incarnation started twice, an entry node, one dispatch, one failing call, stops anywhere, `FairSpec` | `TypeOK`; `CommandsReachConsumer`; `HealthyIsEarned`; `LastHeartbeatIsSampled`; `HeartbeatsGoForward`; `StartedBecomesHealthy` |
| `indexer` | a stream of documents under 3 names, 2 workers, a channel of 2, both faults, `FairSpec` | `TypeOK`; `DocumentIsSomewhere`; `StopDrains`; `OutboxSpec`; `DocumentsSettle`; `StopEnds` |
| `creation` | 2 requests, 2 keys, policies −1, 0, 5 and none, both schemas, failures and stops | `TypeOK`; `AcceptedNamesRow`; `RefusedLeavesNothing`; `TraceNamesRow`; `EveryAcceptanceCreates` |
| `repeated_create` | as `creation`, the deployed schema, no other error | disagreement, below |

Bounds. Three requests are the smallest number with a winner, a loser and a third that
undoes or repeats the winner's change; four, two of them uploads, let a dispatch run
before and after a retry, which needs a first upload, a failed dispatch, the retry and a
rival. Budget 1 makes the second retry the one to be refused. Requests are served once,
so no counter needs a bound: versions are bounded by the number of Updates. Runs whose
requests can all be over check no deadlock (the system rests). Symmetry of request and node
names is used in safety runs only.

In the pipeline, two chunks are needed for a file that is partly there, divided between
two receivers or of two orders, and with chunks of two bytes the files of three, two and no
bytes have a short last chunk, an exact one and none; two receivers for a START_TRANSFER that takes effect
twice or is refused once and accepted later. One chunk and none are the boundaries
of the loop and of the empty-file branch. Versions and chunk numbers are bounded by the steps taken.

In the service run two requests are what it takes for one to rename its body over the file that the other's row
names, or for a job to wait for another job's transfer, and one receiver is what it takes to finalize. One chunk suffices for the question which body
was opened, since all chunks of a loop come from one open file; that a file of several chunks is whole is the
question of `pipeline_file`. The run explores states up to `Observed`, which leaves out what nothing else depends
on: the rows of the transfer, jobs, attempts, answers and the log, which are written and not read again, and the
worker's events, whose reader drops them. States that agree on the rest have the same steps and the same verdict.

In the registry the second life needs more ticks than the first used numbers and the run has
errors: `MaxBeats` is 3 for it and 1 for the others, `MaxFailures` is 1, and `TicksSuffice` says
that of the processes `StartedBecomesHealthy` is about. The entry node is the row that must not be selected.
`Shared` is empty in the run; the theorems are also about shared nodes. In the indexer the
third document finds a channel of two full, and names that serve again let the stream go on for ever,
before Stop and during it: without its premise `StopEnds` has a counterexample in this instance, two
documents that take turns in the channel. Two workers are the default number and the
least that race in drain. In creation two requests meet under one key or under two; the policies lie
below, on and above the boundary of `Budget`.

Fairness. In the lifecycle `FairSpec` gives weak fairness to each request once its first call was made:
goroutines that are not blocked run on, and without faults every call returns. Nothing
is assumed of arrivals, crashes, errors or outside clients. `QueuedIsDispatched` is
checked without cancels and crashes, since the code recovers from neither: a cancel
between the dispatch's load and its Update leaves the row QUEUED for ever. In the pipeline
weak fairness goes to each dispatch that has begun, to the command callback, to the event
consumer and to each receiver, which are goroutines of their own; Nak'd and repeated
commands, errors, stops and restarts are not fair. In the registry each process that runs goes
on with its start and its ticker fires (`StartUp`, `Heartbeat`); that it is started, or ends, is
not assumed. In the indexer the workers, a handler at its dead letter, Run's Start and
the return of Stop are fair: goroutines run on, and Elasticsearch and the disk answer, be it with an error.
Nothing makes a handler call Index, or keeps it from doing so, or a process stop. That answer is needed: `wg.Wait` has no
time limit and Stop does not look at its context, so Stop hangs as long as Elasticsearch does.
`StopEnds` supposes besides that the handlers fall silent, `<>[][\A d \in Docs : ~Index(d)]_vars`. The code
does not see to that, which is the disagreement noted below; the other properties need no such premise.

### Disagreements found

- `lost_cancel`: `Update` reports zero affected rows as success, so a cancel that lost a
  race is answered 202 and stored nowhere (`handler.go:398`).
- `waits_for_ever`: without any fault, the worker that verified a file waits in its command
  callback for ever. Nothing removes an entry of `activeTransfers`: for a file with chunks
  TransferVerified is not published, because `FinalizeTransfer` has cancelled its own
  context, and no consumer could decode it (`role.go:370`).
- `repeated_create`: two accepted requests with one live key get two operations, although the
  schema calls the table a replay guard (`001_initial_schema.sql:156`). The lookup fails
  and its error is dropped; with the column repaired the replay still decodes nothing.
- `lifecycle_fair`: no report of a worker ever completes an operation. The event handlers write their copy back with the version
  they read (`role.go:409`, 536), `Update` stores only the successor of the row's version, and a row that
  does not match is no error. So the handler goes on: the audit log gets OperationCompleted, the index gets the
  document, the node logs "marked COMPLETED" or "marked TRANSFERRED" (`role.go:430`, 557), and the row stays
  QUEUED or DISPATCHED, although `role.go:371` promises a "full operation status transition".
  `ReportsNeverStored` states what the code does, and fails as soon as the handler bumps the version (its
  mutant); it passes because the code has this defect, and is the property to turn round when it is mended.
  In the deployed system the handlers are not even reached, since events are not decoded (`waits_for_ever`).

Further disagreements, which the models contain and no expected violation is spent on:

- Shutdown has a time limit (`app.go:107`) that `Indexer.Stop` ignores: it waits for the workers, which drain as
  long as the channel is not empty (`indexer.go:141`), while handlers fill it until NATS is closed, which
  comes after Stop (`app.go:112`). With a steady stream of documents, or an Elasticsearch that does not
  answer, Stop does not return, and the steps behind it are not reached (`StopEnds` and its premise).
- An upload whose Update lost still dispatches; one retry cycle gets two jobs
  (`001_initial_schema.sql:35`).
- A second upload renames its body over the ingress file in the middle of a dispatch; the
  chunks are not of the file announced (`001_initial_schema.sql:79`). The worker never finalizes
  such a file (`FinalizedIsRecorded`); the operation stays DISPATCHED with a transfer that cannot end.
- A cancel that is stored and answered 202 while a retry is on its way can be taken back: if
  the cancel's write came in the place of the retry's first, the second one lands on it with
  the copy from before the cancel (`Attach` of `AtomicOperations`). It takes a row that an
  outside client failed (`retry.go:133`, `handler.go:398`).
- A START_TRANSFER that was refused once comes again behind its PROCESS_UPDATE, which checks
  only that no transfer is active and reports success without a file (`role.go:263`).
- ListHealthy tests the stored status and not the deadline stored beside it, so a dead worker is
  selected; only its durable consumer keeps the command (`node_repository.go:171`).

## Proofs

Assumptions, all named in the modules and evaluated by TLC: in the lifecycle `None` is no request,
`MaxAttempts` is a natural number, kinds and faults have their types, an outside client
follows the transition table and does not upload (`PortAssumption`); in the pipeline
file sizes are naturals and the chunk size a positive one (the code's is 65536), `None` is no transfer and no receiver, and the switches are
Booleans; in creation policies are integers; in the registry every process has a node, a role and a
number of ticks; the indexer has a worker, and any capacity. The composition adds that every
request asks for an operation, that the file has a natural size, and that `None` is no receiver.

`OperationLifecycle_proofs` proves `Spec => []IInv`. None of the safety properties is
inductive alone; what carries them is `RequestInv`, above all `Fresh`: while a request
holds a copy it read, the copy's version is at most the row's, and equal versions mean
equal rows. So an Update that lands is a change of the current row. The second Update of
a retry is the exception: it works from a copy whose first Update may have been lost, so
`RequestInv` instead says what such a copy still guarantees (`AfterRetry`): the row's file, status
QUEUED, a job and attempt already stored, and a retry count that is within the budget and,
if the version still matches, the row's own or one more. `RowStep` (a row moves one version
at a time and keeps its file) shows that a step of one request does not disturb the copies
of the others. `LogInv` says what each request has published and stored by the call it is at, so that it is
there when the audit entry is written, and nothing takes it back. There is one lemma per
action or family of alike actions; `WriteStep` and `QuietStep` carry what all writes, and all
other actions, share. Theorems: `TypeCorrect`, `TransfersDescribeInput`, `WorkFollowsInput`,
`CurrentJobsPersisted`, `RetriesWithinBudget`, `LogIsTrue`; `Invariance` and `LogInvariance` are the two
inductive invariants, which the composition builds on.

`OperationAtomicity_proofs` shows, for any `PortTransitions` that follow the table, that each
landed write is a step of the abstract specification (`Atomicity`): an `Upload`, `Cancel`,
`Dispatch` or `Retry` of the row as it is, by `Fresh`; an `Attach`, by `AfterRetry`; or a `Port`
of the outside client. `CountsNeverFall` follows from the same two facts. For the deployed
wiring, `PortTransitions = {}`, it adds that no retry is ever begun and no row leaves CREATED,
QUEUED, DISPATCHED (`ReportsAreLost`), and that every status change is in the table (`MovesAllowed`).

`TransferPipeline_proofs` proves `Spec => []IInv` for any number of transfers, chunks and
receivers, with the parts
`LoopInv` (where the chunk loop is), `RoleInv` (commands, the receiver being accepted
and every used receiver belong to a dispatch that has begun), `FileInv` (a chunk on the
bus or on disk was sent, so its source is fixed, so whoever writes it writes the same;
recorded and finalized follow), `VersionInv` (a receiver's version is the row's only
between load and Update, and behind it ever after, so `Complete` stores nothing) and
`CommandInv` (what the callback has achieved at each step). `ChunksTile` is the arithmetic: for any file size the
chunks that the division announces are not empty, are disjoint and have every byte, so that a file that
is whole byte by byte has all its chunks, and no read of the announced body ends the loop early. `CountInv` says that what a
receiver counted are different chunks of its transfer, all on disk; by `Counting` the full number of them
is all of them (`FinalizeHasAll`). A stop ends any set of dispatches at once (`DispatchStops`). From `IInv` follow `TypeCorrect`,
`ReceivedIsOnDisk`, `FinalizedIsWhole`, `NeverComplete`, `StartStays`, `ProcessingWaits`,
and, step by step, that the pipeline implements `FileDelivery` (`DeliveryImplemented`):
writing a chunk is `Fill`, or a stutter when it was there, `RecordChunk` is `Record`,
`Finalize` is `Seal`, all else stutters; the delicate step is the dispatch's Upsert, which
never hits the row of a received chunk because a received chunk has been sent.

`Indexer_proofs` proves `Spec => []IInv` for any capacity and any number of workers and documents.
`HandInv` says that a worker has a document exactly while it sends it or writes it off, `CallInv` that what Index
has not finished with is held nowhere, which makes the places of a document disjoint. `DrainInv`
carries `StopDrains`: a worker that is done saw an empty channel after `closed`, so that whatever is
in the channel then came later and is not in `early`; a document of `early` is therefore in the channel
with no worker done, in a hand, or has a fate. `OutboxImplemented` maps every step to one of `Outbox`
or to a stutter: putting a document into the channel is `Accept`, refusing it is `Spill`, the end of a
send or of a dead letter is `Settle` or `WriteOff`. The one that needs an argument is `Spill`: the channel holds no document twice and,
by `UnsentInv`, none that has gone, so a full channel is `Cap` waiting documents. `UnsentInv` also shows
that a name is used again only when nothing of its former document is left in memory (`FreeIsNowhere`).

`NodeRegistry_proofs` proves `Spec => []IInv` with `LivesInv` (one life at a time of a node
that is not shared; behind the command subscription the consumer exists), `RowInv` (the row
of such a node is the running life's own, with its roles and incarnation), `SampleInv` (a loop
behind its insert has its sample in the table, and a sample of a worker that was ready
came with a consumer) and `DispatchInv` (a selected node has its consumer, or a sample from before
it). No property is inductive alone: the row's status says nothing about the loop that is
about to set it. `RowsGoForward` needs `ForwardInv` as well: the loop of the running life is never behind
the number its row names, so that the update of a late tick does not bring an older one back.

`OperationCreation_proofs` proves `TypeCorrect`, `AcceptedNames`, `TraceNames` and
`RefusalLeavesNothing` from `CourseInv`: what each
request has left in the tables by the call it is at, and that no defective one gets that far.
`NothingIsReplayed` adds `ReplayInv`: every stored response was encoded twice, and what a lookup has
found is such a response, so that no request leaves the lookup with an answer.

`UpdateService_proofs` first shows that a behaviour of the whole is one of either side (`LifecycleKept`,
`PipelineKept`), so that every theorem above about the lifecycle and the pipeline holds of the two at work
together. (`OnePipeline` is a matter of form: the specification and its proofs are instantiated
separately, and the two instances are one formula.) What neither side can state is which
file the bytes are of. `Link` follows it: chunks are on the bus, in the loop's hand or on the worker's disk only
if their dispatch has streamed a body, and if that body is the announced one it is the file
that the transfer's row describes (`FromFile`). It is inductive together with the invariants
of both sides. All steps but one only keep it; `OpenLinks` is the one that establishes it, from
three facts of different modules: the dispatch's copy has the file of its transfer
(`LogInv`), the file it opens is the ingress file of now (`OpenIngress`), and it opens one only
once (`SameCall`). `LinkSuffices` then reads `FinalizedIsRecorded` from the other end: what is
finalized is whole (`FinalizedIsWhole`), a file of at least one byte has a chunk on
disk, that chunk is of the announced body, and the transfer describes the row's file
(`TransferDescribesInput`), whoever's upload won the row. `JobsWait` is `ProcessingWaits`, carried over.

Only model-checked: `QueuedIsDispatched`, `ChunksAreTaken`, `CompleteIsFinalized`,
`StartedBecomesHealthy`, `DocumentsSettle` and `StopEnds`. They are liveness properties, which are
out of the prover's reach. Every safety and action property of a passing run, and every
refinement, is a theorem. What `LogIsTrue` says of retries is proved alone: the run with faults, which
checks `LoggedWorkHappened`, has uploads and cancels.

## Plan

Done: creation, the lifecycle, the pipeline, the registry, the indexer and the composition of
lifecycle and pipeline, with the proofs of all their safety and action properties and of
three refinements. A worker that acted on a cancel, or a consumer that decoded its events, would
be the next thing to model; the code has neither.

Not modelled, and why: read use cases (no state; nothing writes operation_results), the
transfer sender (no caller), configuration, wiring, HTTP formatting, generated documents
and the request collection (I/O and text). `PROJECT.json` lists every part with its
status and every hazard with the property that covers it, or a note why none does.
