# Verification of agentic-rag-ecommerce

TLA+ models of the shopping assistant's backend (FastAPI, LangGraph, Celery on
RabbitMQ, PostgreSQL, Qdrant, S3, Valkey), model-checked with TLC on small
instances and proved with TLAPS where a property matters for every size.
Paths below are relative to the repository; the application is `src/app/`.

## 1. Inventory

| Component | State it keeps | Operations | Talks to | What makes it correct |
|---|---|---|---|---|
| **Catalogue reindex**: `api/admin.py`, `tasks/run_ingestion_job.py`, `tasks/process_batch.py`, `repositories/ingestion_repo.py` | one `ingestion_jobs` row (status, totals, two counters), one `ingestion_batches` row per batch; messages in the queues `reindex` and `reindex_batches` | trigger; orchestrate (begin, fetch, totals, create and dispatch each batch, fail); process a batch (start, index, done, count, read, verdict; two kinds of failure; retry) | Saleor, Qdrant, broker | no dispatched batch is forgotten; done implies indexed; the verdict says what happened; everything comes to rest |
| **Thread lifecycle**: `api/chat.py`, `api/threads.py`, `repositories/thread_repo.py`, `tasks/delete_thread.py`, `tasks/cleanup_expired_threads.py` | `threads.status`, `last_activity_at`; messages in `cleanup` | claim, run, reset, touch; DELETE (check, mark, enqueue); sweep (find, mark); cleanup (list, S3, rows, thread) | the agent graph, S3, broker | one run at a time; a deletion completes; a thread leaves `busy` |
| **Image storage**: `agent/nodes/generate_image.py`, `services/s3_service.py`, `repositories/image_repo.py` | S3 objects, `generated_images` rows, daily quota in Valkey | upload, insert, list, delete | cleanup tasks | an object is deleted before its row |
| **Task platform**: `tasks/celery_app.py` | queues, unacknowledged messages, result backend | publish, deliver, acknowledge, redeliver, kill, Beat | all tasks | at-least-once delivery |
| **Webhook sync**: `api/webhooks.py`, `tasks/process_webhook.py`, `rag/indexer.py`, `services/saleor_client.py` | one Qdrant point per product; messages in `webhook` | accept; build a payload (from the event or from Saleor), upsert, delete, retry, give up | Saleor, reindex (same points) | no change is lost; Qdrant settles on what Saleor has |
| **Agent graph**: `agent/graph.py`, `agent/nodes/*`, `agent/subagents/*` | the checkpoint, the frames of the stream | the nodes of a turn, in supersteps; fail, time out, reach the recursion limit | models, Qdrant, Tavily, S3 | frames in order, an answer reported is kept, every run ends |
| **Titles**: `agent/nodes/generate_title.py` | `title`, attempts, the checkpoint's flag | attempt, ask, truncate, persist, announce | model, cache | the title of an answered turn stays |
| **Summaries**: `agent/nodes/summarize.py` | the messages and the summary in the checkpoint | cut and fold | model | whole turns, no request lost |
| **History pages**: `get_thread_history` in `api/threads.py` | none (reads the checkpoint) | one page by cursor | checkpointer, image rows | whole turns, each answer with its own images, the start is reached |
| **Lists**: `list_by_user`, `list_all` in the repositories | none | keyset pages | PostgreSQL | each row once |
| **Thread list cache**: `cache/keys.py`, `services/valkey_service.py` | cached pages | store, hit, clear, expire | thread endpoints, titles | no stale page after a change |
| **Rest**: auth, rate limit, profile, sessions, health, schemas, configuration, observability, scripts | none of interest | | | |

Behaviours that are hard: several processes update one row with separate
autocommitted statements; tasks are acknowledged late and hence delivered more
than once; retries publish before they acknowledge; an upload outlives the run
that started it; a status is read by one statement and written by a later one.
`PROJECT.json` lists each hazard at its line, with the property that covers it
or the module it is planned for.

## 2. Modules

| Module | Role |
|---|---|
| `Ingestion.tla` | one reindex: API, orchestrator, workers, rows, queues, Qdrant, failures |
| `ReindexJob.tla` | what the status endpoint promises of a job: the abstract specification |
| `MCIngestion.tla` | instances of `Ingestion` and its refinement of `ReindexJob` |
| `IngestionProofs.tla` | theorems about `Ingestion` |
| `ReindexProofs.tla` | counting theorems about `Ingestion`, and its refinement of `ReindexJob` |
| `ThreadLifecycle.tla` | one thread: runs, DELETE requests, sweep, cleanup, images |
| `MCThread.tla` | instances of `ThreadLifecycle` |
| `ThreadProofs.tla` | theorems about `ThreadLifecycle` |
| `ProductSync.tla` | products in Saleor, webhook tasks and reindex batches on their points |
| `MCSync.tla` | instances of `ProductSync` |
| `ProductSyncProofs.tla` | theorems about `ProductSync` |
| `Conversation.tla` | the turns of one thread: graph, checkpoint, title, images, stream |
| `HistoryPage.tla` | the history page, its cursor and its images as operators, and reference definitions |
| `MCConversation.tla` | instances of `Conversation`, with `HistoryPage` applied to each checkpoint |
| `ConversationProofs.tla` | theorem about the frames of `Conversation`, with the invariant of its title branch |
| `SummaryProofs.tla` | theorems about the messages, the title and the types of `Conversation` |
| `PageProofs.tla` | theorems about the history pages of the threads of `Conversation` |
| `ThreadList.tla` | keyset pages over changing rows, and the cache in front of them |
| `MCList.tla` | instances of `ThreadList` |
| `ListProofs.tla` | theorems about `ThreadList` |

The components meet where they share state: `Ingestion` and `ProductSync` both write
points (a reindex batch is an action of `ProductSync`, its bookkeeping is
`Ingestion`); `ThreadLifecycle` establishes that runs of a thread exclude each other,
which lets `Conversation` take them one after another; `HistoryPage` reads the
checkpoints of `Conversation`; `ThreadList` has the effect of all handlers on the
rows and on the cache.

### Ingestion

The grain is the statement another process can see. Every repository call is one
autocommitted SQL statement and one action; `worker[w].pc` names the next one. So
`process_batch` is `Start` (mark_processing), `Index` or `IndexRaises`, `MarkDone`,
`IncrementProcessed`, `ReadCounters`, `WriteVerdict`, `Ack`, and its failing branches
`IncrementFailed`, `MarkFailed`, `IncrementRetry`, `Republish`, `RepublishFails` or
`GiveUp`. The counters that `ReadCounters` sees are carried in the worker's record as
the verdict it is going to write, since the job row may change before `WriteVerdict`.

A message is a pair of a batch and a retry number; a queue counts the copies of
each. A worker that holds a message has it unacknowledged: `WorkerLost` puts it
back (`task_acks_late`, `task_reject_on_worker_lost`), `WorkerKilled` is the hard
`time_limit`, after which the pool acknowledges it and records a failure in the
result backend (`taskFailed`). `StatementFails` and `WrapperFails` are errors of
PostgreSQL: `asyncpg`'s are not in the transient list of `utils/transient.py`, so
the first leads to the permanent branch, and the second, inside an except branch, to
a failed task. `RepublishFails` is a broker that does not take the message of
`self.retry`: Celery raises `Reject(requeue=False)`, drops the message in hand and
records nothing (`rejected`). A failed row keeps why it failed (`FailedRow`: the batch
had no usable product, or an exception), because only the first kind is counted.
`OrchFetch` picks a catalogue size each time it runs: a redelivered orchestrator
may find another one. `MaxRetries` is the task's `max_retries` (2 in the code).

Abstracted: the products of a batch (indexed or not; those that `index_batch`
skips are recorded in the row and count as treated), fetch and index as one step
with a nondeterministic outcome, delays and back-off, timestamps, error texts. An
exception while the batch row is read behaves like one of `mark_processing`.

### ThreadLifecycle

One thread, a set of requests that run it, a set of DELETE requests, and workers of the
`cleanup` queue. Each awaited call is an action. `upload[r]` is the `put_object` call of
run `r`: `asyncio.to_thread` finishes it although the run was cancelled, so
`UploadLands` needs no run; `RunReset` may come while the upload is still going, and
`RunInsert` at any moment of a cleanup, since nothing stops the run of a thread that is
being deleted. A run whose API has crashed, or whose reset has failed, is `stuck`: it
owned the thread and will not hand it back. `listed` is what `list_by_thread` returned
to a cleaner, `todo` those whose object it has yet to delete. `activity` compares
`last_activity_at` with the cutoff: an aging thread may expire at any time, a touched
one does not within the run. `CleanFails` stands for every error in a cleanup task:
those of `asyncpg` and `boto3`, the only ones that occur there, are not transient, so
the task returns `failed` and is acknowledged. The sweep's `time_limit` has the same
effect.

Abstracted: the graph between claim and reset (only its image matters here, the rest is
`Conversation`), at most one image per run, creation of the thread and the list cache
(`ThreadList`), the checkpoints (the cleanup does not delete them). A failing `get` or
claim answers 500 and changes nothing, so it is a request that stops.

### ProductSync

Saleor numbers the changes of a product; a payload is the number of the change it was
taken at, a point that of the payload it was built from, 0 for no point. So "stale"
and "current" are comparisons, and nothing of a product's data is needed. `Receive` is
`receive_saleor_webhook`: a body without a product is accepted as product `"unknown"`.
`ReceiveUnanswered` is a POST whose answer is lost, which Saleor repeats. A worker
goes from `Take` to `Build` (the payload of the event if it has a price, or else what
Saleor has now), `Upsert` or `Delete`, and `Ack`; an exception leads through `Catch`,
which publishes the next attempt (`self.retry`) or gives up; `CatchFails` is the failure
of that publication, after which Celery drops the message. A call of Qdrant may fail
after it has written. `SummariseFails` is apart from the other failures because
`index_batch` turns every exception of the summariser, a rate limit too, into a
skipped product, and a batch with nothing left is a permanent error. `BatchStart`,
`BatchFetch` (one query per product) and `BatchIndex` are the part of a reindex batch
that touches points.

`stamp`, `overtaken` and `dropped` are history variables: the newest change written
to a point, the products with a write older than one before it, and the changes whose
task has ended without a write. Queues are sets: two equal messages have the same
effect as one that is redelivered.

### Conversation

LangGraph's supersteps are explicit: `EndSuperstep1` waits for both branches from
START and applies their updates; later supersteps have one node. A node that has
several effects outside the checkpoint (rows, frames) is several actions, and
`NodeFails` may come between any two: it stands for an exception and for
`chat_run_timeout_seconds`. Then the updates of the superstep are gone, while rows and
frames stay. `cp` has the fields of `AgentState` that are carried from turn to turn;
product lists, prompts and titles are the number of the turn they were made in, so
that a value of an earlier turn can be told apart. The subgraph of the retrieval is the
pcs `prepare`, `search` and `rerank`; its error handlers go to nodes that do not exist,
and `RetrievalFails` allows both readings of what LangGraph does then. `StepLimit` is
LangGraph's recursion limit, which `build_graph` leaves at its default.

`HistoryPage` has no state: `Messages`, `NextCursor` and `Attached` compute what
`get_thread_history` returns for a list of messages, `NewestTurns` and `Shown` say what
it should be.

### ThreadList

A thread is its id, a number; `stamp` is `updated_at`, and two statements may have the
same time. Handlers change a row first and clear the cache by a later step
(`clearing`); a page is read by two statements (`ReadCursor`, `ReadRows`) and stored
when the reply is made (`Reply`). `StoredAs` and `Pattern` have the form of the keys in
so far as they can fail to match. `client[c].seen` and the sets `changed` and
`disturbed` are history: what the client has been shown, and which threads have changed
since. The lists for administrators use the same query shape and no cache: a client
that always misses and stores nothing.

## 3. What is checked

Bounds are constants named in the configuration: `MaxLosses`, `MaxKills`,
`MaxFaults`, `MaxCrashes` and `MaxSweeps` cap the number of failures and of Beat's
publications, `MaxBatches` the catalogue or the batches, `MaxChanges` the changes of a
product or of rows, `MaxTurns` the requests. `CHECK_DEADLOCK FALSE` everywhere: within
these bounds each of the systems comes to an end.

| Run | Instance | Shows |
|---|---|---|
| `reindex_once` | 2 workers, 2 batches, 1 retry, 1 kill, 1 failing statement, dispatch or retry, no loss | `CountersMatchRows`: the counters are exactly the done rows and the rows failed as unusable, up to workers between two statements; rows failed by the wrapper are in neither (see below). `CompletedMeansAllIndexed`. `AllDoneCompletes`: no interleaving of increments and reads leaves the verdict to nobody. `ImplementsReindexJob`: the job row refines `ReindexJob` |
| `reindex_redelivery` | 2 workers, 1 batch, 2 retries, 1 loss, 1 kill, 1 failing statement, dispatch or retry | `TypeOK`; `NoBatchLost`: an open dispatched batch has a message, a worker or a recorded failure, unless Celery rejected its retry; `CopiesBounded`: deliveries multiply only by losses of workers, not of the orchestrator, thanks to the unique key; `DoneMeansIndexed`; `EveryBatchSettles`: retries and redeliveries end |
| `thread_safety` | 2 runs, 1 DELETE, 2 cleaners, 1 sweep, 1 loss, 1 crash, 1 fault | `TypeOK`; `RunsExclude`: one writer of the checkpoint at a time; `OnlyLateRowsLeaveObjects`: a row is dropped before its object only by a cleaner that had listed the images before the row was there. That this happens is the run `late_row` below |
| `thread_live` | 2 runs, 1 DELETE, 2 cleaners, 1 loss, 1 crash, 1 fault | `DeleteCompletes`: 202 leads to removal, unless a call fails; `BusyEnds`: a claimed thread is handed back, unless a crash of the API or a failing reset (`chat.py:269-277`, which is only logged) has taken the run away |
| `product_sync` | 1 product, 2 changes, 2 webhook workers, 1 reindex batch, 1 retry, 1 loss, 1 fault and perhaps a failing retry after it | `TypeOK`; `ChangesAccountedFor`: a change is on its way, given up, or in a write at least as new; `SettledMeansCurrent`: with nothing on its way, given up or overtaken, the point is what Saleor has; `EveryChangeSettles`: each change comes to rest |
| `conversation_turns` | 3 turns, 2 faults, summaries of 2 from 4 messages on, 1 title attempt, 8 supersteps, pages of 1 to 3 | `TypeOK` (with the limit of supersteps); `SummaryTakesWholeTurns`; `FramesInOrder`: the one order the code gives the frames; `DoneMeansKept`, of runs that send no error after it; `TitleIsFinal`: a title is replaced only if the turn that made it came to no answer; `RunEnds`; and of the history pages asked for with a cursor `CursorPagesAreWhole`, `CursorsReachTheStart`, `ImagesWithTheirAnswer` |
| `thread_list` | 3 threads, pages of 2, 1 client, 2 changes | `TypeOK`; `WalkShowsAllOnce`: a client that reaches the end was shown each undisturbed row once; `ListsCatchUp`: in the end the cache has only current pages |

Why this is enough. Two workers and two runs give every conflict between two
statements; one loss at every program point gives every redelivery; batches interact
only through the job row, which `reindex_once` has with two of them, so one is enough
for the ownership of a batch with its two retries; points interact
only through the worker that writes them, so a
second product would add nothing but products. Two changes suffice for an update
overtaken by a deletion, one retry for a retry after a newer event. Three turns let a
failed run be followed by one that meets its message, and the one after by the cut of
a summary; two faults let two runs fail in a row, so that two human messages stand
together. Eight supersteps allow a model that asks for subagents until the limit. Two
pages of two over three rows have a full page, a short page, a cursor that moves and
one that is removed; two changes disturb a cursor and a row.

`CompletedMeansAllIndexed`, `CountersMatchRows` and the refinement hold only when no
worker is lost (`MaxLosses = 0`): a worker lost after it has counted counts again.

### Where code and documents disagree

Each run below checks one statement of the repository and ends in a trace.

| Run | Statement | What the code does |
|---|---|---|
| `last_fails` | `process_batch.py:16-17`: the last batch to finish marks the job terminal | the failing branches do not look: a job whose last batch fails stays in `processing`. The permanent branch of the wrapper does not even count the failure |
| `new_run` | `02-REQUIREMENTS-SPECIFICATION.md:411`: no new runs once `deleting` | a run that was under way sets `idle` when it ends, and a new run is let in while the cleanup waits |
| `late_row` | `delete_thread.py:128-130`: image rows that still reference a live S3 key are never deleted; NFR-015 (`02-REQUIREMENTS-SPECIFICATION.md:293`) and FR-054 (`:133`): objects go before rows, and all of them go | the images are listed once, and later all rows of the thread are deleted: the row that a run inserts in between goes with them, and nothing names its object any more |
| `first_page` | `api/threads.py:394-400`: without a cursor the page is the newest end, extended back to a human message | the index of the window is taken to be 0: a page that would begin with an answer becomes the oldest messages |
| `stale_pages` | `api/threads.py:193-194`: a created or deleted thread invalidates all cached pages of the user | the pages are in another logical database and under another prefix than the ones looked for; they stay until they expire |

Observed while modelling, and without a run of their own:

- `models/ingestion.py:29`: `processed_count` is not the number of batches that
  succeeded when a worker is lost after it has counted.
- `models/ingestion.py:30` (`failed_count`: "number of batches that ended in `failed`")
  and `ingestion_repo.py:274` (called when a batch is marked permanently failed): the
  permanent branch of the wrapper, `process_batch.py:119-140`, marks the row failed and
  counts nothing. `CountersMatchRows` says which failed rows are counted and leaves
  these out; so with one such batch the counters never reach the total.
- `run_ingestion_job.py:21-25`: a failing dispatch is to be recorded against its batch,
  the orchestrator to go on, and the job not to become terminal. The code has no handler
  in the loop (169-178): the job is marked failed, the rest of the batches is neither
  created nor dispatched, and those already dispatched go on and may still write a
  verdict. `OrchFault` is that code, and `ImplementsReindexJob` holds of it; neither
  shows the promise.
- `process_batch.py:117` and `process_webhook.py:232`: when the publication in
  `self.retry` fails, Celery rejects the message in hand without requeueing it. The batch
  stays in `processing` with no failure on record (`rejected` in `NoBatchLost`), the
  change of the product is given up (`dropped` in `ChangesAccountedFor`).
- Order of the frames, as `FramesInOrder` has it and the documents do not: FR-069
  (`02-REQUIREMENTS-SPECIFICATION.md:162`) puts `image_ready` before `done`, and the table
  of frames (`:45`) has `done` end the stream, but `synthesize` sends `done` and
  `generate_image` runs after it; `generate_title.py:9-13` promises the answer first and
  the title some hundred milliseconds later, and FR-025 (`:75`) a title that waits for
  nothing, but both branches share the first superstep, so the title comes before the
  answer and the answer waits for the title; `schemas/chat.py:139-141` has no `done` in a
  run with an error, but a run may fail after `done`, and that is also why
  `DoneMeansKept` excludes runs with an error.
- FR-024 (`:74`), `generate_title.py:17-19` and `state.py:65-66` (the flag is loaded from
  the row): the flag is only in the checkpoint, so a run that fails after `update_title`
  and before the end of the superstep lets the next turn make another title.
  `TitleIsFinal` and its theorem say that a title is replaced in no other case.
- `cleanup_expired_threads.py:47`: the sweep deletes a thread that was used after the
  sweep had listed it.
- `generate_image.py:337-339`: no cleanup finds an S3 object that no row names, as when
  an upload lands after the cleanup or its run was cut off before the INSERT.
- `delete_thread.py:45-47`: `boto3`'s errors are not classified as transient, so the
  task is not retried; nor is a rate limit in the summariser of a webhook task.
- `webhooks.py:179-182`: a create or update without a product is not rejected but
  dispatched as product `"unknown"`.
- `thread_repo.py:291-292`: `update_title` does not reset the attempts.
- `graph.py:152`: `max_agent_steps` is logged as the recursion limit and not passed to
  LangGraph; `orchestrate.py:153` compares two settings, for nobody sets
  `remaining_steps`.
- `fault_tolerance.py` goes to `hybrid_search` and `llm_postprocess`; the nodes are
  named otherwise.
- `state.py`: `first_user_message` is that of every request, not of the first one, so a
  title made after a failed first turn is that of a later message; products and prompt
  of an earlier turn stay in the state.
- `synthesize.py:260-261`: an answer without text is not an empty list but an empty
  message, and is kept as one.
- `ingestion_repo.py:125-131`: pending jobs are not skipped after a pending cursor; ids
  break the tie.

### Fairness

`Ingestion`: weak fairness of the orchestrator's steps and of each worker's `Take`
and steps: Celery consumes its queues while a worker is up, and each call of a task
has a timeout (`time_limit` at the latest). No fairness for the API, which a crash
may stop between two statements, nor for losses, kills and faults. In
`ThreadLifecycle`: weak fairness of a claim, a reset (by return, exception or
`asyncio.timeout`) and a touch, of an upload in its pool thread, of the two calls
after DELETE's check, and of a cleaner's steps. A crash disables the actions of the
requests it ends. No request has to come, no image has to be made, nothing has to
expire.

`ProductSync`: Saleor repeats a POST until it is accepted, and the workers of the queue
consume it. Nobody has to change a product or to reindex. `Conversation`: each branch of
a run goes on, since each call of a node returns, raises, or is cut off by
`chat_run_timeout_seconds`; nobody has to send a request. `ThreadList`: a stored page
expires (`expire` of the decorator), and a request runs to its end. No handler has to
clear the cache, and no client has to ask.

## 4. What is proved

All proofs are for arbitrary sets of workers, runs, requests, cleaners, products,
indexers and clients and for arbitrary bounds; `BoundsAssumption` and `SyncAssumption`
only say that bounds are natural numbers (that a catalogue has room for one batch, and
what bodies there are), `LimitAssumption` says it of the page sizes that are tried,
`ConversationAssumption` that fewer messages are summarised than the threshold has, as
the default settings do, and `ListAssumption` that a table has finitely many rows and
that a page is asked for with at least one.

| Theorem | Argument |
|---|---|
| `IngestionProofs!TypeCorrect` | `TypeOK` with `LoopOK` (a dispatch happens within the loop), without which the index could pass the last batch |
| `IngestionProofs!DoneIsIndexed` | strengthened by: a worker about to mark its row done has indexed its batch; `indexed` never shrinks |
| `IngestionProofs!BatchesAreNotLost` | the exception is the message that Celery rejects when the broker does not take a retry, and no other. `NoBatchLost` with `RowsExist` (the row of a batch is created before it is dispatched, so creation never reopens a dispatched one). Each step hands the ownership of its batch on: a worker that leaves the open part has settled the row, published the retry, left a failure on record, or had its retry refused |
| `ReindexProofs!CopiesAreBounded` | `CopiesInv`: a retry is published by the worker that gives the batch up, a batch that is not dispatched has no copy, and a second orchestrator cannot create the rows again, so each action leaves the number of holders of a batch (messages and workers) as it is, and a loss alone adds one |
| `ReindexProofs!CompletedIsIndexed` | hypothesis: no process was lost so far, as in `reindex_once` (`MaxLosses = 0`). `JobInv`: there is one orchestrator; processed plus failed is at most the number of dispatched batches that nobody will count again (`Past`), and processed at most the number of indexed ones among them, so a full processed counter means that every batch is past and indexed |
| `ReindexProofs!JobRowRefines` | from `JobInv`: each step of the reindex is a step of `ReindexJob` on the job row, or leaves the row alone. The hypothesis is a property of the behaviour, `[]NothingLost`; `WithoutLosses` restates it for `MaxLosses = 0` |
| `ReindexProofs!CountersAgreeWithRows` | `RowsInv`, under `Undisturbed`: the done rows are the processed batches and those of workers between the two statements, and the rows failed as unusable are the failed count less the workers about to mark theirs; both sides are equal, and rows failed by the wrapper are on neither |
| `ThreadProofs!ThreadTypeCorrect` | inductive as it stands |
| `ThreadProofs!RunsAreExclusive` | `RunsExclude` carries its own strengthening, that an owned row is not idle: only the reset writes `idle`, and only the owner resets |
| `ThreadProofs!LateRowsOnly` | `ListedInv`: a cleaner in the S3 phase has on its list every listed image whose object it has not deleted, one past it has left none, and the upload of a listed image is over, so no object of it comes back; hence a row dropped with its object was not listed |
| `ProductSyncProofs!SyncTypeCorrect` | inductive as it stands |
| `ProductSyncProofs!NoChangeLost` | `ChangesAccountedFor` needs that a worker's payload is at least as new as its event, and that it goes the way of its kind: else a write would not account for the change (`MessagesOK`) |
| `ProductSyncProofs!SettledIsCurrent` | from `NewestWriteStands`, which needs that a payload is never that of a deletion, also when it is fetched late or by a reindex (`PointsOK`); with `NoChangeLost` the newest write is the last change |
| `SummaryProofs!TitleIsKept` | `FlagInv`: a title that belongs to a turn with an answer in the checkpoint or the summary, or to a turn past its first superstep, comes with the flag; and the flag ends the branch before it asks. Needs the messages of `SummaryInv` (a turn whose question is last has no answer) |
| `ConversationProofs!FramesAreInOrder` | `FramesInv`: for each node a rank that no frame has reached yet, and none at all while the title is not announced; a step that sends has a rank above those, one that does not only raises the bound |
| `SummaryProofs!SummaryIsWhole` | `MessagesOK`: the list is in the order of the conversation, an answer stands right after its question, and the open question is at the end; so a cut before a question parts no turn |
| `SummaryProofs!DoneIsKept` | `KeptOK`: past its answer a run has it in the checkpoint, one that failed has sent an error; with both invariants above |
| `SummaryProofs!ConversationTypeCorrect` | from the same invariant: an image is made when the list has a question to name |
| `PageProofs!PagesAreWhole` | from `SummaryProofs`: the list starts with a question and an answer stands right after its own, so a window that begins with an answer has the question one place before, and that is also the start of the shortest end with whole turns |
| `PageProofs!CursorsCoverAll` | a page is an end of what is before its cursor, and the next cursor is the place before that cursor or none. The recursion over the list has one solution, by the least place at which another could differ |
| `PageProofs!ImagesStayWithTurn` | `ImagesOK`: an image refers to the question of the turn that made it, since when it is made the answer of the turn is on the list and no question after it; in a page that question is right before the answer |
| `ListProofs!ListTypeCorrect` | with `Clean`: stored pages have threads only. `PlacesTaken`: of n rows one is the i-th, for each i up to n, by the pigeonhole principle |
| `ListProofs!WalksShowAllOnce` | `ListInv`: a page that is stored or on its way has each row that has not changed since it was read once, from its cursor to its last item (`PageOK`); a walk has each undisturbed row up to its cursor once (`WalkOK`); the time read for a cursor is its row's, or the row has changed since (`ReadOK`). A change of a row is noted wherever it matters, and a page that is received continues the walk |

The inductive invariant of `ProductSync` is `SyncInv`, the conjunction of the three parts;
`WriteKeeps` says what a write does to the points, and lemmas on a worker that takes,
moves on, raises, writes and is freed say what becomes of its message, so that the proof
of each action cites one or two of them. `LeastExists` of `SummaryProofs`, that a
nonempty set of numbers has a least one, stands in for induction: it follows from the
well-foundedness of strict inclusion, and gives the greatest cut that `Cut` chooses.

The counting arguments of `ReindexProofs` say which sets the counters count, and compare
these sets: a step that changes a counter adds one batch to one set. The strengthened
invariants of `ReindexProofs`, `PageProofs` and `ListProofs` were checked by TLC on the
instances of section 3 before they were proved. In the course of this `ThreadList` got
the i-th row by its number of newer rows in place of a library sort the provers cannot
open, and `HistoryPage` a name for the place of a message.

Every invariant and action property that a run checks is now a theorem, and so is the
refinement. Only model-checked are the liveness properties: `AllDoneCompletes`,
`EveryBatchSettles`, `DeleteCompletes`, `BusyEnds`, `EveryChangeSettles`, `RunEnds` and
`ListsCatchUp`. They rest on fairness, and with it on ENABLED, which is beyond the proof
system. `CompletedMeansAllIndexed` and the refinement are proved for behaviours without
a lost process only; with one they do not hold (section 3).

## 5. Not modelled

- The daily image quota: read before the model is called and incremented after, over all
  threads of a user. `ImageFails` has a quota that is spent; the counter itself would
  need the turns of several threads side by side.
- The tool loop of the trend agent, and cleaning, summaries and prompts: inside a library,
  or data.
- Signature checks, rate limiting, the profile document, opening and closing of clients,
  health, schemas, logging, scripts: no state of their own, or a library's.

Next: the safety part of the liveness arguments as theorems (what a dispatched batch, a
busy thread or a change of a product may still wait for, and that the measure the
retries count down never grows); the quota with two threads.
