----------------------------- MODULE Ingestion -----------------------------
(***************************************************************************)
(* One catalogue reindex: POST /admin/reindex creates an ingestion_jobs    *)
(* row and dispatches run_ingestion_job; the orchestrator fetches the      *)
(* Saleor catalogue, inserts one ingestion_batches row per batch and       *)
(* dispatches one process_batch task per row; Celery workers index the     *)
(* batches into Qdrant and count them in the job row.                      *)
(*                                                                         *)
(* Every action is one statement that another process can observe: a row   *)
(* update (each repository call is one autocommitted SQL statement), a     *)
(* message published or acknowledged, an upsert into Qdrant.  What happens *)
(* between two of them is local to the task.                               *)
(***************************************************************************)
EXTENDS Integers, FiniteSets

CONSTANTS
    Workers,     \* the processes that consume the reindex_batches queue
    MaxBatches,  \* bound: the largest number of batches a catalogue makes
    MaxRetries,  \* max_retries of the process_batch task (2 in the code)
    MaxLosses,   \* bound: worker processes lost with a message unacknowledged
    MaxKills,    \* bound: tasks killed by the hard time_limit
    MaxFaults    \* bound: statements that fail (PostgreSQL, or the broker)

ASSUME BoundsAssumption ==
    /\ MaxBatches \in Nat \ {0}
    /\ MaxRetries \in Nat
    /\ MaxLosses \in Nat
    /\ MaxKills \in Nat
    /\ MaxFaults \in Nat

VARIABLES
    api,         \* how far trigger_reindex has come
    job,         \* the ingestion_jobs row
    batch,       \* the ingestion_batches rows, by batch_index
    orchQueue,   \* messages ready in the reindex queue
    orch,        \* the orchestrator task
    queue,       \* queue[m]: copies of m ready in the reindex_batches queue
    worker,      \* the process_batch task each worker runs
    indexed,     \* batches whose products have been upserted into Qdrant
    taskFailed,  \* batches with a FAILURE in the Celery result backend
    rejected,    \* batches with a message that Celery has rejected for good
    published,   \* batches for which process_batch has been dispatched
    losses,      \* processes lost so far, of the orchestrator and of workers
    kills, faults   \* how much of the other bounds is spent

orchVars   == <<orchQueue, orch>>
workVars   == <<queue, worker>>
rowVars    == <<job, batch>>
resultVars == <<indexed, taskFailed, rejected>>
faultVars  == <<losses, kills, faults>>
vars == <<api, job, batch, orchQueue, orch, queue, worker, indexed,
          taskFailed, rejected, published, losses, kills, faults>>

-----------------------------------------------------------------------------
(* Data.  A message names its batch and how often it has been retried.     *)

Batches  == 0 .. (MaxBatches - 1)
Retries  == 0 .. MaxRetries
Messages == Batches \X Retries

JobStatus   == {"none", "pending", "processing",
                "completed", "partial_failed", "failed"}
Verdicts    == {"completed", "partial_failed"}
Terminal    == Verdicts \cup {"failed"}
BatchStatus == {"none", "pending", "processing", "done", "failed"}

Job   == [status : JobStatus, task : {"none", "placeholder", "real"},
          total : 0 .. MaxBatches, processed : Nat, failed : Nat]
Batch == [status : BatchStatus, retry : Nat,
          error : {"none", "unusable", "exception"}]  \* error_message

\* Program points of run_ingestion_job, named for the statement that is next.
OrchPC == {"idle", "begin", "fetch", "totals", "create", "dispatch",
           "abort", "ack"}
Orch   == [pc : OrchPC, n : 0 .. MaxBatches, i : 0 .. MaxBatches]

\* Program points of process_batch.  A task at one of OpenPC has yet to settle
\* its batch; at one of ClosingPC it has marked the row done and still counts.
OpenPC    == {"start", "work", "done", "incfail", "markfail",
              "retry", "republish", "pfail"}
ClosingPC == {"count", "read", "final", "ack"}
WorkPC    == OpenPC \cup ClosingPC \cup {"idle"}
Worker    == [pc : WorkPC, b : Batches, r : Retries,
              verdict : Verdicts \cup {"none"}]

IdleOrch   == [pc |-> "idle", n |-> 0, i |-> 0]
IdleWorker == [pc |-> "idle", b |-> 0, r |-> 0, verdict |-> "none"]

Put(m)  == queue' = [queue EXCEPT ![m] = @ + 1]
Msg(w)  == <<worker[w].b, worker[w].r>>
Go(w, pc) == worker' = [worker EXCEPT ![w].pc = pc]
OrchGo(pc) == orch' = [orch EXCEPT !.pc = pc]

-----------------------------------------------------------------------------
Init ==
    /\ api = "start"
    /\ job = [status |-> "none", task |-> "none",
              total |-> 0, processed |-> 0, failed |-> 0]
    /\ batch = [b \in Batches |-> [status |-> "none", retry |-> 0, error |-> "none"]]
    /\ orchQueue = 0
    /\ orch = IdleOrch
    /\ queue = [m \in Messages |-> 0]
    /\ worker = [w \in Workers |-> IdleWorker]
    /\ indexed = {} /\ taskFailed = {} /\ rejected = {} /\ published = {}
    /\ losses = [orch |-> 0, work |-> 0] /\ kills = 0 /\ faults = 0

-----------------------------------------------------------------------------
(* trigger_reindex: insert the row, dispatch, patch the task id in.        *)

TriggerCreate ==
    /\ api = "start"
    /\ api' = "created"
    /\ job' = [job EXCEPT !.status = "pending", !.task = "placeholder"]
    /\ UNCHANGED <<batch, orchVars, workVars, resultVars, published, faultVars>>

TriggerDispatch ==
    /\ api = "created"
    /\ api' = "dispatched"
    /\ orchQueue' = orchQueue + 1
    /\ UNCHANGED <<rowVars, orch, workVars, resultVars, published, faultVars>>

TriggerPatch ==
    /\ api = "dispatched"
    /\ api' = "patched"
    /\ job' = [job EXCEPT !.task = "real"]
    /\ UNCHANGED <<batch, orchVars, workVars, resultVars, published, faultVars>>

-----------------------------------------------------------------------------
(* run_ingestion_job                                                       *)

OrchTake ==
    /\ orch.pc = "idle" /\ orchQueue > 0
    /\ orchQueue' = orchQueue - 1
    /\ OrchGo("begin")
    /\ UNCHANGED <<api, rowVars, workVars, resultVars, published, faultVars>>

OrchBegin ==
    /\ orch.pc = "begin"
    /\ job' = [job EXCEPT !.status = "processing"]
    /\ OrchGo("fetch")
    /\ UNCHANGED <<api, batch, orchQueue, workVars, resultVars, published,
                   faultVars>>

\* fetch_all_products returns a catalogue of n batches, possibly none...
OrchFetch ==
    /\ orch.pc = "fetch"
    /\ \E n \in 0 .. MaxBatches :
          orch' = [orch EXCEPT !.pc = "totals", !.n = n]
    /\ UNCHANGED <<api, rowVars, orchQueue, workVars, resultVars, published,
                   faultVars>>

\* ... or raises.
OrchFetchFails ==
    /\ orch.pc = "fetch"
    /\ OrchGo("abort")
    /\ UNCHANGED <<api, rowVars, orchQueue, workVars, resultVars, published,
                   faultVars>>

\* Slip: the count is not rounded up but increased.
OrchTotalsOffByOne ==
    /\ orch.pc = "totals"
    /\ job' = [job EXCEPT !.status = "processing", !.total = orch.n + 1]
    /\ orch' = [orch EXCEPT !.pc = "create", !.i = 0]
    /\ UNCHANGED <<api, batch, orchQueue, workVars, resultVars, published,
                   faultVars>>

OrchTotals ==
    /\ orch.pc = "totals"
    /\ job' = [job EXCEPT !.status = "processing", !.total = orch.n]
    /\ orch' = [orch EXCEPT !.pc = "create", !.i = 0]
    /\ UNCHANGED <<api, batch, orchQueue, workVars, resultVars, published,
                   faultVars>>

\* Slip: the table has no unique key.
OrchCreateNoKey ==
    /\ orch.pc = "create" /\ orch.i < orch.n
    /\ batch' = [batch EXCEPT ![orch.i].status = "pending"]
    /\ OrchGo("dispatch")
    /\ UNCHANGED <<api, job, orchQueue, workVars, resultVars, published,
                   faultVars>>

OrchCreate ==
    /\ orch.pc = "create" /\ orch.i < orch.n
    /\ batch[orch.i].status = "none"
    /\ batch' = [batch EXCEPT ![orch.i].status = "pending"]
    /\ OrchGo("dispatch")
    /\ UNCHANGED <<api, job, orchQueue, workVars, resultVars, published,
                   faultVars>>

\* UNIQUE (job_id, batch_index): a second delivery of the orchestrator finds
\* the rows of the first one.
OrchCreateConflict ==
    /\ orch.pc = "create" /\ orch.i < orch.n
    /\ batch[orch.i].status # "none"
    /\ OrchGo("abort")
    /\ UNCHANGED <<api, rowVars, orchQueue, workVars, resultVars, published,
                   faultVars>>

OrchDispatch ==
    /\ orch.pc = "dispatch"
    /\ Put(<<orch.i, 0>>)
    /\ published' = published \cup {orch.i}
    /\ orch' = [orch EXCEPT !.pc = "create", !.i = @ + 1]
    /\ UNCHANGED <<api, rowVars, orchQueue, worker, resultVars, faultVars>>

OrchReturn ==
    /\ orch.pc = "create" /\ orch.i = orch.n
    /\ OrchGo("ack")
    /\ UNCHANGED <<api, rowVars, orchQueue, workVars, resultVars, published,
                   faultVars>>

\* The except branch: _mark_failed, then the exception leaves the task.
OrchAbort ==
    /\ orch.pc = "abort"
    /\ job' = [job EXCEPT !.status = "failed"]
    /\ OrchGo("ack")
    /\ UNCHANGED <<api, batch, orchQueue, workVars, resultVars, published,
                   faultVars>>

\* task_acks_late: the message leaves the broker when the task has ended,
\* by returning or by raising.
OrchAck ==
    /\ orch.pc = "ack"
    /\ orch' = IdleOrch
    /\ UNCHANGED <<api, rowVars, orchQueue, workVars, resultVars, published,
                   faultVars>>

\* An SQL statement or apply_async raises; inside _mark_failed nobody catches.
\* A dispatch that fails is no exception, whatever the docstring says of it
\* (run_ingestion_job.py:21-25): the job fails while dispatched batches run.
OrchFault ==
    /\ faults < MaxFaults
    /\ orch.pc \in {"begin", "totals", "create", "dispatch", "abort"}
    /\ orch.pc = "create" => orch.i < orch.n
    /\ faults' = faults + 1
    /\ OrchGo(IF orch.pc = "abort" THEN "ack" ELSE "abort")
    /\ UNCHANGED <<api, rowVars, orchQueue, workVars, resultVars, published,
                   losses, kills>>

\* The process dies; task_reject_on_worker_lost puts the message back.
OrchLost ==
    /\ losses.orch + losses.work < MaxLosses
    /\ orch.pc # "idle"
    /\ losses' = [losses EXCEPT !.orch = @ + 1]
    /\ orchQueue' = orchQueue + 1
    /\ orch' = IdleOrch
    /\ UNCHANGED <<api, rowVars, workVars, resultVars, published, kills, faults>>

\* time_limit=600: the task is killed and its message acknowledged.
OrchKilled ==
    /\ kills < MaxKills
    /\ orch.pc \notin {"idle", "ack"}
    /\ kills' = kills + 1
    /\ orch' = IdleOrch
    /\ UNCHANGED <<api, rowVars, orchQueue, workVars, resultVars, published,
                   losses, faults>>

OrchStep == \/ OrchTake \/ OrchBegin \/ OrchFetch \/ OrchFetchFails
            \/ OrchTotals \/ OrchCreate \/ OrchCreateConflict \/ OrchDispatch
            \/ OrchReturn \/ OrchAbort \/ OrchAck


-----------------------------------------------------------------------------
(* process_batch                                                           *)

WorkUnchanged == UNCHANGED <<api, orchVars, published>>

\* worker_prefetch_multiplier = 1: a worker holds one message at a time.
Take(w) ==
    /\ worker[w].pc = "idle"
    /\ \E m \in Messages :
          /\ queue[m] > 0
          /\ queue' = [queue EXCEPT ![m] = @ - 1]
          /\ worker' = [worker EXCEPT ![w] = [pc |-> "start", b |-> m[1],
                                              r |-> m[2], verdict |-> "none"]]
    /\ WorkUnchanged /\ UNCHANGED <<rowVars, resultVars, faultVars>>

\* mark_processing, whatever the row says: a redelivery reopens a done row.
Start(w) ==
    /\ worker[w].pc = "start"
    /\ batch' = [batch EXCEPT ![worker[w].b].status = "processing"]
    /\ Go(w, "work")
    /\ WorkUnchanged /\ UNCHANGED <<job, queue, resultVars, faultVars>>

\* Fetch from Saleor and index_batch, which upserts under ids derived from the
\* product ids: indexing a batch again changes nothing in Qdrant.
Index(w) ==
    /\ worker[w].pc = "work"
    /\ indexed' = indexed \cup {worker[w].b}
    /\ Go(w, "done")
    /\ WorkUnchanged /\ UNCHANGED <<rowVars, queue, taskFailed, rejected, faultVars>>

\* Slip: an exception of the pipeline is swallowed.
HandlersSwallow == {"incfail", "retry", "pfail", "done"}

\* PermanentProductError, a transient exception, any other exception.
Handlers == {"incfail", "retry", "pfail"}

IndexRaises(w) ==
    /\ worker[w].pc = "work"
    /\ \E pc \in Handlers : Go(w, pc)
    /\ WorkUnchanged /\ UNCHANGED <<rowVars, queue, resultVars, faultVars>>

MarkDone(w) ==
    /\ worker[w].pc = "done"
    /\ batch' = [batch EXCEPT ![worker[w].b].status = "done"]
    /\ Go(w, "count")
    /\ WorkUnchanged /\ UNCHANGED <<job, queue, resultVars, faultVars>>

IncrementProcessed(w) ==
    /\ worker[w].pc = "count"
    /\ job' = [job EXCEPT !.processed = @ + 1]
    /\ Go(w, "read")
    /\ WorkUnchanged /\ UNCHANGED <<batch, queue, resultVars, faultVars>>

\* Slips: the worker counts itself twice; it waits for one batch too many.
AllCountedEarly  == job.total > 0 /\ job.processed + job.failed + 1 >= job.total
AllCountedStrict == job.total > 0 /\ job.processed + job.failed > job.total

AllCounted == job.total > 0 /\ job.processed + job.failed >= job.total

\* The counters are read back after the increment; the verdict is written by
\* a later statement.
ReadCounters(w) ==
    /\ worker[w].pc = "read"
    /\ IF AllCounted
       THEN worker' = [worker EXCEPT
                ![w].pc = "final",
                ![w].verdict = IF job.failed = 0 THEN "completed"
                                                 ELSE "partial_failed"]
       ELSE Go(w, "ack")
    /\ WorkUnchanged
    /\ UNCHANGED <<rowVars, queue, resultVars, faultVars>>

WriteVerdict(w) ==
    /\ worker[w].pc = "final"
    /\ job' = [job EXCEPT !.status = worker[w].verdict]
    /\ Go(w, "ack")
    /\ WorkUnchanged /\ UNCHANGED <<batch, queue, resultVars, faultVars>>

\* Every product of the batch was rejected.
IncrementFailed(w) ==
    /\ worker[w].pc = "incfail"
    /\ job' = [job EXCEPT !.failed = @ + 1]
    /\ Go(w, "markfail")
    /\ WorkUnchanged /\ UNCHANGED <<batch, queue, resultVars, faultVars>>

FailedRow(w) ==
    [status |-> "failed", retry |-> worker[w].r,
     error  |-> IF worker[w].pc = "markfail" THEN "unusable" ELSE "exception"]

\* Slip: the failure is counted where the row is marked, too.
MarkFailedCounts(w) ==
    /\ worker[w].pc \in {"markfail", "pfail"}
    /\ batch' = [batch EXCEPT ![worker[w].b] = FailedRow(w)]
    /\ job' = [job EXCEPT !.failed = @ + 1]
    /\ Go(w, "ack")
    /\ WorkUnchanged /\ UNCHANGED <<queue, resultVars, faultVars>>

\* Slip: the permanent branch of the wrapper raises and the message is rejected.
MarkFailedRejects(w) ==
    /\ worker[w].pc \in {"markfail", "pfail"}
    /\ batch' = [batch EXCEPT ![worker[w].b] = FailedRow(w)]
    /\ IF worker[w].pc = "pfail"
       THEN Put(Msg(w)) /\ worker' = [worker EXCEPT ![w] = IdleWorker]
       ELSE UNCHANGED queue /\ Go(w, "ack")
    /\ WorkUnchanged /\ UNCHANGED <<job, resultVars, faultVars>>

\* mark_failed: after increment_failed, or alone in the permanent-error branch
\* of the wrapper.  Neither looks at the counters afterwards.
MarkFailed(w) ==
    /\ worker[w].pc \in {"markfail", "pfail"}
    /\ batch' = [batch EXCEPT ![worker[w].b] = FailedRow(w)]
    /\ Go(w, "ack")
    /\ WorkUnchanged /\ UNCHANGED <<job, queue, resultVars, faultVars>>

\* Slip: a batch that will be tried again is counted as failed.
IncrementRetryCounts(w) ==
    /\ worker[w].pc = "retry"
    /\ batch' = [batch EXCEPT ![worker[w].b].retry = @ + 1]
    /\ job' = [job EXCEPT !.failed = @ + 1]
    /\ Go(w, "republish")
    /\ WorkUnchanged /\ UNCHANGED <<queue, resultVars, faultVars>>

IncrementRetry(w) ==
    /\ worker[w].pc = "retry"
    /\ batch' = [batch EXCEPT ![worker[w].b].retry = @ + 1]
    /\ Go(w, "republish")
    /\ WorkUnchanged /\ UNCHANGED <<job, queue, resultVars, faultVars>>

NextTry(w) == <<worker[w].b, worker[w].r + 1>>

\* self.retry publishes a new message with the next retry number, ...
Republish(w) ==
    /\ worker[w].pc = "republish"
    /\ worker[w].r < MaxRetries
    /\ Put(NextTry(w))
    /\ Go(w, "ack")
    /\ WorkUnchanged /\ UNCHANGED <<rowVars, resultVars, faultVars>>

\* ... or, if the broker does not take it, raises Reject(requeue=False): Celery
\* drops the message in hand and records no failure.
RepublishFails(w) ==
    /\ faults < MaxFaults
    /\ worker[w].pc = "republish" /\ worker[w].r < MaxRetries
    /\ faults' = faults + 1
    /\ rejected' = rejected \cup {worker[w].b}
    /\ Go(w, "ack")
    /\ WorkUnchanged
    /\ UNCHANGED <<rowVars, queue, indexed, taskFailed, losses, kills>>

\* After max_retries it raises the error: the task fails, the row stays
\* processing.
GiveUp(w) ==
    /\ worker[w].pc = "republish"
    /\ worker[w].r = MaxRetries
    /\ taskFailed' = taskFailed \cup {worker[w].b}
    /\ Go(w, "ack")
    /\ WorkUnchanged /\ UNCHANGED <<rowVars, queue, indexed, rejected, faultVars>>

Ack(w) ==
    /\ worker[w].pc = "ack"
    /\ worker' = [worker EXCEPT ![w] = IdleWorker]
    /\ WorkUnchanged /\ UNCHANGED <<rowVars, queue, resultVars, faultVars>>

\* An SQL statement of _process raises: asyncpg's errors are not in the
\* transient list, so the wrapper marks the row failed, even a done one.
StatementFails(w) ==
    /\ faults < MaxFaults
    /\ worker[w].pc \in {"start", "done", "count", "read", "final",
                         "incfail", "markfail"}
    /\ faults' = faults + 1
    /\ Go(w, "pfail")
    /\ WorkUnchanged
    /\ UNCHANGED <<rowVars, queue, resultVars, losses, kills>>

\* A statement of the except branch raises: the task itself fails.
WrapperFails(w) ==
    /\ faults < MaxFaults
    /\ worker[w].pc \in {"retry", "pfail"}
    /\ faults' = faults + 1
    /\ taskFailed' = taskFailed \cup {worker[w].b}
    /\ Go(w, "ack")
    /\ WorkUnchanged
    /\ UNCHANGED <<rowVars, queue, indexed, rejected, losses, kills>>

\* Slip: the message was acknowledged when the task began.
RequeueNothing(w) == UNCHANGED queue

Requeue(w) == Put(Msg(w))

\* The process dies before the acknowledgement: the broker delivers again.
WorkerLost(w) ==
    /\ losses.orch + losses.work < MaxLosses
    /\ worker[w].pc # "idle"
    /\ losses' = [losses EXCEPT !.work = @ + 1]
    /\ Requeue(w)
    /\ worker' = [worker EXCEPT ![w] = IdleWorker]
    /\ WorkUnchanged
    /\ UNCHANGED <<rowVars, resultVars, kills, faults>>

\* time_limit=600: the pool records a failure and acknowledges the message.
WorkerKilled(w) ==
    /\ kills < MaxKills
    /\ worker[w].pc \notin {"idle", "ack"}
    /\ kills' = kills + 1
    /\ taskFailed' = taskFailed \cup {worker[w].b}
    /\ worker' = [worker EXCEPT ![w] = IdleWorker]
    /\ WorkUnchanged
    /\ UNCHANGED <<rowVars, queue, indexed, rejected, losses, faults>>

WorkStep(w) == \/ Start(w) \/ Index(w) \/ IndexRaises(w)
               \/ MarkDone(w) \/ IncrementProcessed(w) \/ ReadCounters(w)
               \/ WriteVerdict(w) \/ IncrementFailed(w) \/ MarkFailed(w)
               \/ IncrementRetry(w) \/ Republish(w) \/ GiveUp(w) \/ Ack(w)

-----------------------------------------------------------------------------
Next == \/ TriggerCreate \/ TriggerDispatch \/ TriggerPatch
        \/ OrchStep \/ OrchFault \/ OrchLost \/ OrchKilled
        \/ \E w \in Workers : \/ Take(w) \/ WorkStep(w)
                              \/ StatementFails(w) \/ WrapperFails(w)
                              \/ RepublishFails(w)
                              \/ WorkerLost(w) \/ WorkerKilled(w)

\* Celery consumes its queues as long as a worker is up, and a task that has
\* begun runs on: every call it makes has a timeout or ends.  Nobody has to
\* press the button, and nothing has to go wrong.
Fairness == /\ WF_vars(OrchStep)
            /\ \A w \in Workers : WF_vars(Take(w)) /\ WF_vars(WorkStep(w))

Spec == Init /\ [][Next]_vars /\ Fairness

-----------------------------------------------------------------------------
(* Properties                                                              *)

TypeOK ==
    /\ api \in {"start", "created", "dispatched", "patched"}
    /\ job \in Job
    /\ batch \in [Batches -> Batch]
    /\ orchQueue \in Nat
    /\ orch \in Orch
    /\ queue \in [Messages -> Nat]
    /\ worker \in [Workers -> Worker]
    /\ indexed \in SUBSET Batches
    /\ taskFailed \in SUBSET Batches /\ rejected \in SUBSET Batches
    /\ published \in SUBSET Batches
    /\ losses \in [orch : Nat, work : Nat]
    /\ kills \in 0 .. MaxKills
    /\ faults \in 0 .. MaxFaults

Planned    == {b \in Batches : b < job.total}
Rows(s)    == {b \in Batches : batch[b].status = s}
At(pc)     == {w \in Workers : worker[w].pc = pc}
Holders(b) == {w \in Workers : worker[w].pc # "idle" /\ worker[w].b = b}
Ready(b)   == {m \in Messages : m[1] = b /\ queue[m] > 0}
Quiet      == /\ api = "patched" /\ orchQueue = 0 /\ orch.pc = "idle"
              /\ \A m \in Messages : queue[m] = 0
              /\ \A w \in Workers : worker[w].pc = "idle"

\* Somebody will see to the batch, or Celery has recorded that its task failed,
\* or has dropped its message for want of a broker.
Owned(b) == \/ Ready(b) # {}
            \/ \E w \in Workers : worker[w].b = b /\ worker[w].pc \in OpenPC
            \/ b \in taskFailed
            \/ b \in rejected

(* A dispatched batch whose row is still open has somebody to finish it: a *)
(* message in the queue or a worker that has yet to settle it; otherwise   *)
(* Celery has recorded the failure.  This is what acks_late, reject on     *)
(* worker lost and republishing before the acknowledgement are for.  One   *)
(* way out is silent, and the property allows no other: a broker that does *)
(* not take the message of self.retry (process_batch.py:117) makes Celery  *)
(* drop the one in hand, and nothing but the log tells of the batch.       *)
NoBatchLost ==
    \A b \in published :
        batch[b].status \in {"pending", "processing"} => Owned(b)

(* A row is marked done only once its products are in Qdrant, whatever was *)
(* lost, killed, redelivered or retried on the way.                        *)
DoneMeansIndexed == \A b \in Batches :
    batch[b].status = "done" => b \in indexed

(* Only the loss of a worker can multiply the deliveries of a batch: the   *)
(* unique key (job_id, batch_index) keeps a redelivered orchestrator from  *)
(* dispatching again, and self.retry replaces the message it retries.      *)
\* (The copy a worker has republished is counted in place of its own.)
Copies(b) ==
    Cardinality({w \in Holders(b) : worker[w].pc # "ack"})
    + Cardinality({c \in Messages \X (1 .. MaxLosses + 2) :
                      c[1][1] = b /\ c[2] <= queue[c[1]]})
CopiesBounded == \A b \in Batches : Copies(b) <= 1 + losses.work

(* When each batch is delivered once, a job reported as completed has every *)
(* batch of the catalogue in Qdrant: the counters are only read after all   *)
(* the increments they stand for.                                           *)
CompletedMeansAllIndexed ==
    job.status = "completed" => Planned # {} /\ Planned \subseteq indexed

Undisturbed == kills = 0 /\ faults = 0 /\ losses.orch = 0 /\ losses.work = 0

(* Without failures of the platform the counters of the job are exactly    *)
(* what its rows say, up to the workers between the two statements: a done *)
(* row is counted once, and so is a row that failed because no product of  *)
(* the batch was usable.  A row that the wrapper failed after any other    *)
(* exception (process_batch.py:129-140) is not counted at all, though the  *)
(* field is documented as the "number of batches that ended in `failed`"    *)
(* (models/ingestion.py:30): failed_count may stay below the failed rows.  *)
FailedAs(e) == {b \in Rows("failed") : batch[b].error = e}

CountersMatchRows ==
    Undisturbed =>
        /\ job.processed + Cardinality(At("count")) = Cardinality(Rows("done"))
        /\ job.failed = Cardinality(FailedAs("unusable"))
                           + Cardinality(At("markfail"))
        /\ job.processed + job.failed <= job.total

(* Whichever worker counts last, a job all of whose batches are done is    *)
(* eventually reported as completed: no interleaving of increments and     *)
(* reads lets every worker believe that another one will write it.  Only a *)
(* failure of the platform in between can keep the verdict from the row.   *)
AllDoneCompletes ==
    (Planned # {} /\ Planned \subseteq Rows("done"))
        ~> (job.status = "completed" \/ ~Undisturbed)

(* Every dispatched batch is settled in the end: its retries run out, its  *)
(* redeliveries stop, and no message of it is left.                        *)
EveryBatchSettles == \A b \in Batches :
    b \in published ~> (Ready(b) = {} /\ Holders(b) = {})

-----------------------------------------------------------------------------
(* What the sources say of this component and the code does not do.        *)

(* "If this is the last batch to finish, mark the job completed (no        *)
(* failures) or partial_failed": with every row settled and nothing left   *)
(* to run, the job is terminal.  A batch that fails last leaves it open.   *)
LastBatchConcludes ==
    (Quiet /\ Planned # {} /\ Planned \subseteq Rows("done") \cup Rows("failed"))
        => job.status \in Terminal
=============================================================================
