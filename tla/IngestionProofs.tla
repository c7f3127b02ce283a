-------------------------- MODULE IngestionProofs --------------------------
(***************************************************************************)
(* Theorems about Ingestion for every number of workers, batches, retries, *)
(* losses, kills and failing statements.                                   *)
(***************************************************************************)
EXTENDS Ingestion, TLAPS

\* What TypeOK lacks to be inductive: a batch is dispatched within the loop.
LoopOK == orch.pc = "dispatch" => orch.i < orch.n

OrchNext == \/ TriggerCreate \/ TriggerDispatch \/ TriggerPatch
            \/ OrchStep \/ OrchFault \/ OrchLost \/ OrchKilled

WorkNext(w) == \/ Take(w) \/ WorkStep(w) \/ StatementFails(w)
               \/ WrapperFails(w) \/ RepublishFails(w)
               \/ WorkerLost(w) \/ WorkerKilled(w)

-----------------------------------------------------------------------------
(* Type correctness                                                        *)

(* Publishing a message keeps the queue a bag of messages. *)
LEMMA PutType ==
  ASSUME queue \in [Messages -> Nat], NEW m, Put(m)
  PROVE  queue' \in [Messages -> Nat]
<1>1. CASE m \in Messages
  BY <1>1 DEF Put
<1>2. CASE m \notin Messages
  BY <1>2 DEF Put
<1> QED
  BY <1>1, <1>2

(* A row with one more retry is a row. *)
LEMMA RetryRow ==
  ASSUME NEW row \in Batch
  PROVE  [row EXCEPT !.retry = row.retry + 1] \in Batch
<1>1. row.retry \in Nat
  BY DEF Batch
<1>2. row.retry + 1 \in Nat
  BY <1>1
<1>3. ASSUME NEW n \in Nat
      PROVE  [row EXCEPT !.retry = n] \in Batch
  BY DEF Batch
<1> QED
  BY <1>2, <1>3

(* So is the row of a batch that has failed. *)
LEMMA FailedRowOK ==
  ASSUME NEW w, worker[w].r \in Retries
  PROVE  FailedRow(w) \in Batch
<1>1. worker[w].r \in Nat
  BY BoundsAssumption DEF Retries
<1> QED
  BY <1>1 DEF FailedRow, Batch, BatchStatus

(* What process_batch writes into a row keeps it a row. *)
LEMMA RowsTyped ==
  ASSUME TypeOK, NEW w \in Workers, worker[w].b \in Batches, worker[w].r \in Retries,
         Start(w) \/ MarkDone(w) \/ MarkFailed(w) \/ IncrementRetry(w)
  PROVE  batch' \in [Batches -> Batch]
<1> DEFINE b == worker[w].b
<1>0. batch \in [Batches -> Batch]
  BY DEF TypeOK
<1>1. CASE Start(w) \/ MarkDone(w)
  <2>1. CASE Start(w)
    BY <1>0, <2>1 DEF Start, Batch, BatchStatus
  <2>2. CASE MarkDone(w)
    BY <1>0, <2>2 DEF MarkDone, Batch, BatchStatus
  <2> QED
    BY <1>1, <2>1, <2>2
<1>2. CASE MarkFailed(w)
  <2>1. FailedRow(w) \in Batch
    BY FailedRowOK
  <2> QED
    BY <1>0, <1>2, <2>1 DEF MarkFailed
<1>3. CASE IncrementRetry(w)
  <2>1. batch' = [batch EXCEPT ![b] = [batch[b] EXCEPT !.retry = batch[b].retry + 1]]
    BY <1>3 DEF IncrementRetry
  <2>2. [batch[b] EXCEPT !.retry = batch[b].retry + 1] \in Batch
    BY <1>0, RetryRow
  <2> QED
    BY <1>0, <2>1, <2>2
<1> QED
  BY <1>1, <1>2, <1>3

(* The initial rows, queues and tasks have their types. *)
LEMMA InitTypeOK == Init => TypeOK /\ LoopOK
  BY BoundsAssumption
  DEF Init, TypeOK, LoopOK, Job, JobStatus, Verdicts, Batch, BatchStatus, Orch, OrchPC,
      IdleOrch, Worker, WorkPC, OpenPC, ClosingPC, IdleWorker, Batches, Retries

(* The steps of trigger_reindex and of the orchestrator preserve the types: *)
(* the loop index never passes the number of batches.                       *)
LEMMA OrchTypeOK ==
  ASSUME TypeOK, LoopOK, OrchNext
  PROVE  TypeOK' /\ LoopOK'
<1> USE BoundsAssumption DEF TypeOK, LoopOK, orchVars, workVars, rowVars, resultVars, faultVars
<1>1. CASE TriggerCreate \/ TriggerPatch
  BY <1>1 DEF TriggerCreate, TriggerPatch, Job, JobStatus, Verdicts
<1>2. CASE TriggerDispatch
  BY <1>2 DEF TriggerDispatch
<1>3. CASE OrchTake \/ OrchReturn \/ OrchAck
  BY <1>3 DEF OrchTake, OrchReturn, OrchAck, OrchGo, Orch, OrchPC, IdleOrch
<1>4. CASE OrchBegin \/ OrchAbort
  BY <1>4 DEF OrchBegin, OrchAbort, OrchGo, Orch, OrchPC, Job, JobStatus
<1>5. CASE OrchTotals
  <2>1. job' \in Job
    BY <1>5 DEF OrchTotals, Orch, Job, JobStatus
  <2>2. orch' \in Orch /\ orch'.pc = "create"
    <3>1. orch' = [pc |-> "create", n |-> orch.n, i |-> 0]
      BY <1>5 DEF OrchTotals, Orch
    <3> QED
      BY <3>1 DEF Orch, OrchPC
  <2> QED
    BY <1>5, <2>1, <2>2 DEF OrchTotals
<1>6. CASE OrchFetch \/ OrchFetchFails \/ OrchCreateConflict
  BY <1>6 DEF OrchFetch, OrchFetchFails, OrchCreateConflict, OrchGo, Orch, OrchPC
<1>7. CASE OrchCreate
  <2>1. batch' \in [Batches -> Batch]
    BY <1>7 DEF OrchCreate, Batch, BatchStatus
  <2> QED
    BY <1>7, <2>1 DEF OrchCreate, OrchGo, Orch, OrchPC
<1>8. CASE OrchDispatch
  <2>1. orch' \in Orch /\ orch'.pc = "create"
    <3>1. orch' = [pc |-> "create", n |-> orch.n, i |-> orch.i + 1]
      BY <1>8 DEF OrchDispatch, Orch
    <3>2. orch.i + 1 \in 0 .. MaxBatches
      BY <1>8 DEF OrchDispatch, Orch
    <3> QED
      BY <3>1, <3>2 DEF Orch, OrchPC
  <2>2. orch.i \in Batches
    BY <1>8 DEF OrchDispatch, Orch, Batches
  <2>3. queue' \in [Messages -> Nat]
    BY <1>8, PutType DEF OrchDispatch
  <2> QED
    BY <1>8, <2>1, <2>2, <2>3 DEF OrchDispatch
<1>9. CASE OrchFault \/ OrchLost \/ OrchKilled
  BY <1>9 DEF OrchFault, OrchLost, OrchKilled, OrchGo, Orch, OrchPC, IdleOrch
<1> QED
  BY <1>1, <1>2, <1>3, <1>4, <1>5, <1>6, <1>7, <1>8, <1>9 DEF OrchNext, OrchStep

(* The steps of a worker preserve the types: the counters stay natural     *)
(* numbers, and a retry never carries a number past max_retries.           *)
LEMMA WorkTypeOK ==
  ASSUME TypeOK, LoopOK, NEW w \in Workers, WorkNext(w)
  PROVE  TypeOK' /\ LoopOK'
<1> USE BoundsAssumption DEF TypeOK, LoopOK, WorkUnchanged,
        orchVars, workVars, rowVars, resultVars, faultVars
<1>0. /\ worker[w].b \in Batches
      /\ worker[w].r \in Retries
      /\ worker[w].verdict \in Verdicts \cup {"none"}
  BY DEF Worker
<1>1. CASE Take(w)
  <2> PICK m \in Messages :
        /\ queue[m] > 0
        /\ queue' = [queue EXCEPT ![m] = @ - 1]
        /\ worker' = [worker EXCEPT ![w] = [pc |-> "start", b |-> m[1],
                                            r |-> m[2], verdict |-> "none"]]
    BY <1>1 DEF Take
  <2>1. queue' \in [Messages -> Nat]
    OBVIOUS
  <2>2. worker' \in [Workers -> Worker]
    BY DEF Worker, WorkPC, OpenPC, Messages
  <2> QED
    BY <1>1, <2>1, <2>2 DEF Take
<1>2. CASE Start(w) \/ MarkDone(w) \/ MarkFailed(w) \/ IncrementRetry(w)
  <2>1. worker' \in [Workers -> Worker]
    BY <1>2 DEF Start, MarkDone, MarkFailed, IncrementRetry, Go, Worker, WorkPC,
                OpenPC, ClosingPC
  <2>2. batch' \in [Batches -> Batch]
    BY <1>0, <1>2, RowsTyped
  <2> QED
    BY <1>2, <2>1, <2>2 DEF Start, MarkDone, MarkFailed, IncrementRetry
<1>3. CASE Index(w) \/ IndexRaises(w)
  BY <1>0, <1>3 DEF Index, IndexRaises, Handlers, Go, Worker, WorkPC, OpenPC
<1>4. CASE IncrementProcessed(w) \/ IncrementFailed(w)
  <2>1. worker' \in [Workers -> Worker]
    BY <1>4 DEF IncrementProcessed, IncrementFailed, Go, Worker, WorkPC, OpenPC, ClosingPC
  <2>2. job' \in Job
    BY <1>4 DEF IncrementProcessed, IncrementFailed, Job
  <2> QED
    BY <1>4, <2>1, <2>2 DEF IncrementProcessed, IncrementFailed
<1>5. CASE ReadCounters(w)
  BY <1>5 DEF ReadCounters, Go, Worker, WorkPC, OpenPC, ClosingPC, Verdicts
<1>6. CASE WriteVerdict(w)
  <2>1. worker' \in [Workers -> Worker]
    BY <1>6 DEF WriteVerdict, Go, Worker, WorkPC, ClosingPC
  <2>2. job' \in Job
    BY <1>0, <1>6 DEF WriteVerdict, Job, JobStatus, Verdicts
  <2> QED
    BY <1>6, <2>1, <2>2 DEF WriteVerdict
<1>7. CASE Republish(w)
  <2>1. worker' \in [Workers -> Worker]
    BY <1>7 DEF Republish, Go, Worker, WorkPC, ClosingPC
  <2>2. queue' \in [Messages -> Nat]
    BY <1>7, PutType DEF Republish
  <2> QED
    BY <1>7, <2>1, <2>2 DEF Republish
<1>8. CASE GiveUp(w) \/ WrapperFails(w) \/ RepublishFails(w)
  BY <1>0, <1>8 DEF GiveUp, WrapperFails, RepublishFails, Go, Worker, WorkPC, ClosingPC
<1>9. CASE Ack(w)
  BY <1>9 DEF Ack, IdleWorker, Worker, WorkPC, Batches, Retries
<1>10. CASE StatementFails(w)
  BY <1>10 DEF StatementFails, Go, Worker, WorkPC, OpenPC
<1>11. CASE WorkerLost(w)
  <2>1. worker' \in [Workers -> Worker]
    BY <1>11 DEF WorkerLost, IdleWorker, Worker, WorkPC, Batches, Retries
  <2>2. queue' \in [Messages -> Nat]
    BY <1>11, PutType DEF WorkerLost, Requeue
  <2> QED
    BY <1>11, <2>1, <2>2 DEF WorkerLost
<1>12. CASE WorkerKilled(w)
  <2>1. worker' \in [Workers -> Worker]
    BY <1>12 DEF WorkerKilled, IdleWorker, Worker, WorkPC, Batches, Retries
  <2>2. kills' \in 0 .. MaxKills
    BY <1>12 DEF WorkerKilled
  <2> QED
    BY <1>0, <1>12, <2>1, <2>2 DEF WorkerKilled
<1> QED
  BY <1>1, <1>2, <1>3, <1>4, <1>5, <1>6, <1>7, <1>8, <1>9, <1>10, <1>11, <1>12
  DEF WorkNext, WorkStep

(* Type correctness is an invariant of the specification.                  *)
THEOREM TypeCorrect == Spec => [](TypeOK /\ LoopOK)
<1>1. TypeOK /\ LoopOK /\ [Next]_vars => TypeOK' /\ LoopOK'
  <2> SUFFICES ASSUME TypeOK, LoopOK, [Next]_vars
               PROVE  TypeOK' /\ LoopOK'
    OBVIOUS
  <2>1. CASE OrchNext
    BY <2>1, OrchTypeOK
  <2>2. CASE \E w \in Workers : WorkNext(w)
    BY <2>2, WorkTypeOK
  <2>3. CASE UNCHANGED vars
    BY <2>3 DEF vars, TypeOK, LoopOK
  <2> QED
    BY <2>1, <2>2, <2>3 DEF Next, OrchNext, WorkNext
<1> QED
  BY <1>1, InitTypeOK, PTL DEF Spec

-----------------------------------------------------------------------------
(* What a step of one worker leaves alone                                  *)

\* A task never touches the state of another worker.
LEMMA WorkerFrame ==
  ASSUME NEW w \in Workers, worker \in [Workers -> Worker], WorkNext(w)
  PROVE  \A v \in Workers : v # w => worker'[v] = worker[v]
<1> USE DEF Go
<1>1. CASE Take(w) \/ Start(w) \/ Index(w) \/ IndexRaises(w) \/ MarkDone(w)
  BY <1>1 DEF Take, Start, Index, IndexRaises, MarkDone
<1>2. CASE IncrementProcessed(w) \/ ReadCounters(w) \/ WriteVerdict(w) \/ IncrementFailed(w)
  BY <1>2 DEF IncrementProcessed, ReadCounters, WriteVerdict, IncrementFailed
<1>3. CASE MarkFailed(w) \/ IncrementRetry(w) \/ Republish(w) \/ GiveUp(w) \/ Ack(w)
  BY <1>3 DEF MarkFailed, IncrementRetry, Republish, GiveUp, Ack
<1>4. CASE \/ StatementFails(w) \/ WrapperFails(w) \/ RepublishFails(w)
          \/ WorkerLost(w) \/ WorkerKilled(w)
  BY <1>4 DEF StatementFails, WrapperFails, RepublishFails, WorkerLost, WorkerKilled
<1> QED
  BY <1>1, <1>2, <1>3, <1>4 DEF WorkNext, WorkStep

\* Four statements of process_batch update the row of the batch.
LEMMA RowFrame ==
  ASSUME NEW w \in Workers, WorkNext(w)
  PROVE  batch' = batch \/ Start(w) \/ MarkDone(w) \/ MarkFailed(w) \/ IncrementRetry(w)
  BY DEF WorkNext, WorkStep, Take, Index, IndexRaises, IncrementProcessed, ReadCounters,
         WriteVerdict, IncrementFailed, Republish, GiveUp, Ack, StatementFails,
         WrapperFails, RepublishFails, WorkerLost, WorkerKilled, rowVars

-----------------------------------------------------------------------------
(* A row marked done is in Qdrant                                          *)

\* A worker about to mark its row done has run the upsert.
DoneInv == /\ DoneMeansIndexed
           /\ \A w \in Workers : worker[w].pc = "done" => worker[w].b \in indexed

(* Whatever a worker does, indexed never shrinks, and it comes to mark a   *)
(* row done only from the upsert.                                          *)
LEMMA WorkDoneInv ==
  ASSUME TypeOK, DoneInv, NEW w \in Workers, WorkNext(w)
  PROVE  DoneInv'
<1> USE DEF rowVars, resultVars, Go
<1>0. /\ worker \in [Workers -> Worker]
      /\ batch \in [Batches -> Batch]
  BY DEF TypeOK
<1>1. indexed \subseteq indexed'
  BY DEF WorkNext, WorkStep, Take, Start, Index, IndexRaises, MarkDone, IncrementProcessed,
         ReadCounters, WriteVerdict, IncrementFailed, MarkFailed, IncrementRetry, Republish,
         GiveUp, Ack, StatementFails, WrapperFails, RepublishFails, WorkerLost, WorkerKilled
<1>2. \A v \in Workers : v # w => worker'[v] = worker[v]
  BY <1>0, WorkerFrame
<1>3. worker'[w].pc = "done" => worker'[w].b \in indexed'
  <2>1. CASE Index(w)
    BY <1>0, <2>1 DEF Index, Worker
  <2>2. CASE Take(w) \/ Start(w) \/ MarkDone(w) \/ MarkFailed(w) \/ IncrementRetry(w)
    BY <1>0, <2>2 DEF Take, Start, MarkDone, MarkFailed, IncrementRetry, Worker
  <2>3. CASE IndexRaises(w) \/ ReadCounters(w) \/ StatementFails(w)
    BY <1>0, <2>3 DEF IndexRaises, Handlers, ReadCounters, StatementFails, Worker
  <2>4. CASE IncrementProcessed(w) \/ IncrementFailed(w) \/ WriteVerdict(w)
    BY <1>0, <2>4 DEF IncrementProcessed, IncrementFailed, WriteVerdict, Worker
  <2>5. CASE Republish(w) \/ GiveUp(w) \/ WrapperFails(w) \/ RepublishFails(w)
    BY <1>0, <2>5 DEF Republish, GiveUp, WrapperFails, RepublishFails, Worker
  <2>6. CASE Ack(w) \/ WorkerLost(w) \/ WorkerKilled(w)
    BY <1>0, <2>6 DEF Ack, WorkerLost, WorkerKilled, IdleWorker
  <2> QED
    BY <2>1, <2>2, <2>3, <2>4, <2>5, <2>6 DEF WorkNext, WorkStep
<1>4. \A b \in Batches : batch'[b].status = "done" => b \in indexed
  <2>1. CASE batch' = batch
    BY <2>1 DEF DoneInv, DoneMeansIndexed
  <2>2. CASE MarkDone(w)
    BY <1>0, <2>2 DEF MarkDone, DoneInv, DoneMeansIndexed, Batch
  <2>3. CASE Start(w) \/ MarkFailed(w)
    <3>1. ASSUME NEW b \in Batches, b # worker[w].b
          PROVE  batch'[b] = batch[b]
      BY <1>0, <2>3, <3>1 DEF Start, MarkFailed
    <3>2. CASE Start(w)
      BY <1>0, <3>1, <3>2 DEF Start, DoneInv, DoneMeansIndexed, Batch
    <3>3. CASE MarkFailed(w)
      BY <1>0, <3>1, <3>3 DEF MarkFailed, FailedRow, DoneInv, DoneMeansIndexed, Batch
    <3> QED
      BY <2>3, <3>2, <3>3
  <2>4. CASE IncrementRetry(w)
    BY <1>0, <2>4 DEF IncrementRetry, DoneInv, DoneMeansIndexed, Batch
  <2> QED
    BY <2>1, <2>2, <2>3, <2>4, RowFrame
<1> QED
  BY <1>1, <1>2, <1>3, <1>4 DEF DoneInv, DoneMeansIndexed

(* The orchestrator inserts rows as pending and touches no other.          *)
LEMMA OrchDoneInv ==
  ASSUME TypeOK, DoneInv, OrchNext
  PROVE  DoneInv'
<1>1. /\ worker' = worker /\ indexed' = indexed
      /\ batch' = batch \/ OrchCreate
  BY DEF OrchNext, OrchStep, TriggerCreate, TriggerDispatch, TriggerPatch, OrchTake,
         OrchBegin, OrchFetch, OrchFetchFails, OrchTotals, OrchCreate, OrchCreateConflict,
         OrchDispatch, OrchReturn, OrchAbort, OrchAck, OrchFault, OrchLost, OrchKilled,
         workVars, rowVars, resultVars
<1>2. \A b \in Batches : batch'[b].status = "done" => batch[b].status = "done"
  <2>1. CASE OrchCreate
    BY <2>1 DEF OrchCreate, TypeOK, Batch
  <2>2. CASE batch' = batch
    BY <2>2
  <2> QED
    BY <1>1, <2>1, <2>2
<1> QED
  BY <1>1, <1>2 DEF DoneInv, DoneMeansIndexed

(* A batch whose row says done has been upserted into Qdrant, whatever was *)
(* lost, killed, retried or redelivered.                                   *)
THEOREM DoneIsIndexed == Spec => []DoneMeansIndexed
<1>1. Init => DoneInv
  BY DEF Init, DoneInv, DoneMeansIndexed, IdleWorker
<1>2. TypeOK /\ DoneInv /\ [Next]_vars => DoneInv'
  <2> SUFFICES ASSUME TypeOK, DoneInv, [Next]_vars
               PROVE  DoneInv'
    OBVIOUS
  <2>1. CASE OrchNext
    BY <2>1, OrchDoneInv
  <2>2. CASE \E w \in Workers : WorkNext(w)
    BY <2>2, WorkDoneInv
  <2>3. CASE UNCHANGED vars
    BY <2>3 DEF vars, DoneInv, DoneMeansIndexed
  <2> QED
    BY <2>1, <2>2, <2>3 DEF Next, OrchNext, WorkNext
<1>3. DoneInv => DoneMeansIndexed
  BY DEF DoneInv
<1> QED
  BY <1>1, <1>2, <1>3, TypeCorrect, PTL DEF Spec

-----------------------------------------------------------------------------
(* No dispatched batch is lost                                             *)

(* A step of worker w leaves alone who owns a batch w is not working on.   *)
LEMMA OwnedKept ==
  ASSUME TypeOK, NEW w \in Workers, NEW b, Owned(b),
         worker[w].b # b \/ worker[w].pc \notin OpenPC,
         \A v \in Workers : v # w => worker'[v] = worker[v],
         \A m \in Messages : queue'[m] \in Nat /\ queue'[m] >= queue[m],
         taskFailed \subseteq taskFailed', rejected \subseteq rejected'
  PROVE  Owned(b)'
<1>1. CASE Ready(b) # {}
  <2>1. PICK m \in Messages : m[1] = b /\ queue[m] > 0
    BY <1>1 DEF Ready
  <2>2. queue'[m] > 0
    BY <2>1 DEF TypeOK
  <2>3. m \in Ready(b)'
    BY <2>1, <2>2 DEF Ready
  <2> QED
    BY <2>3 DEF Owned
<1>2. CASE \E v \in Workers : worker[v].b = b /\ worker[v].pc \in OpenPC
  BY <1>2 DEF Owned
<1>3. CASE b \in taskFailed \cup rejected
  BY <1>3 DEF Owned
<1> QED
  BY <1>1, <1>2, <1>3 DEF Owned

(* Publishing removes no message and makes its batch owned.                *)
LEMMA PutOwns ==
  ASSUME TypeOK, NEW m \in Messages, Put(m)
  PROVE  /\ \A n \in Messages : queue'[n] \in Nat /\ queue'[n] >= queue[n]
         /\ Owned(m[1])'
<1>1. \A n \in Messages : queue'[n] \in Nat /\ queue'[n] >= queue[n]
  BY DEF Put, TypeOK
<1>2. queue'[m] > 0
  BY DEF Put, TypeOK
<1> QED
  BY <1>1, <1>2 DEF Owned, Ready

\* A batch is dispatched after its row was inserted.
RowsExist == /\ \A b \in published : batch[b].status # "none"
             /\ orch.pc = "dispatch" => batch[orch.i].status # "none"

\* The loop is within the batches when it dispatches one.
LEMMA LoopIndex == ASSUME TypeOK, LoopOK, orch.pc = "dispatch" PROVE orch.i \in Batches
  BY BoundsAssumption DEF TypeOK, LoopOK, Orch, Batches

(* No worker deletes a row, and the orchestrator inserts before it sends.  *)
LEMMA RowsExistInv ==
  ASSUME TypeOK, LoopOK, RowsExist, [Next]_vars
  PROVE  RowsExist'
<1> USE DEF orchVars, workVars, rowVars, resultVars
<1>1. CASE OrchDispatch
  BY <1>1 DEF OrchDispatch, RowsExist, TypeOK, Orch
<1>2. CASE OrchCreate
  <2>1. orch.i \in Batches
    BY <1>2, BoundsAssumption DEF OrchCreate, TypeOK, Orch, Batches
  <2>2. batch'[orch.i].status = "pending" /\ orch'.i = orch.i
    BY <1>2, <2>1 DEF OrchCreate, OrchGo, TypeOK, Orch, Batch
  <2>3. \A b \in Batches : b # orch.i => batch'[b] = batch[b]
    BY <1>2 DEF OrchCreate, TypeOK
  <2> QED
    BY <1>2, <2>2, <2>3 DEF OrchCreate, RowsExist, TypeOK
<1>3. CASE OrchNext /\ ~OrchDispatch /\ ~OrchCreate
  <2>1. batch' = batch /\ published' = published
    BY <1>3
    DEF OrchNext, OrchStep, TriggerCreate, TriggerDispatch, TriggerPatch, OrchTake,
        OrchBegin, OrchFetch, OrchFetchFails, OrchTotals, OrchCreateConflict,
        OrchReturn, OrchAbort, OrchAck, OrchFault, OrchLost, OrchKilled
  <2>2. orch' = orch \/ orch'.pc # "dispatch"
    <3>1. orch \in Orch
      BY DEF TypeOK
    <3>2. CASE TriggerCreate \/ TriggerDispatch \/ TriggerPatch
      BY <3>2 DEF TriggerCreate, TriggerDispatch, TriggerPatch
    <3>3. CASE OrchStep
      <4>1. CASE OrchTake \/ OrchBegin \/ OrchFetchFails \/ OrchCreateConflict
        BY <3>1, <4>1 DEF OrchTake, OrchBegin, OrchFetchFails, OrchCreateConflict, OrchGo, Orch
      <4>2. CASE OrchReturn \/ OrchAbort \/ OrchAck
        BY <3>1, <4>2 DEF OrchReturn, OrchAbort, OrchAck, OrchGo, IdleOrch, Orch
      <4>3. CASE OrchFetch
        BY <3>1, <4>3 DEF OrchFetch, Orch
      <4>4. CASE OrchTotals
        BY <3>1, <4>4 DEF OrchTotals, Orch
      <4> QED
        BY <1>3, <3>3, <4>1, <4>2, <4>3, <4>4 DEF OrchStep
    <3>4. CASE OrchFault \/ OrchLost \/ OrchKilled
      BY <3>1, <3>4 DEF OrchFault, OrchLost, OrchKilled, OrchGo, IdleOrch, Orch
    <3> QED
      BY <1>3, <3>2, <3>3, <3>4 DEF OrchNext
  <2> QED
    BY <2>1, <2>2 DEF RowsExist
<1>4. ASSUME NEW w \in Workers, WorkNext(w)
      PROVE  RowsExist'
  <2>1. orch' = orch /\ published' = published
    BY <1>4 DEF WorkNext, WorkStep, Take, Start, Index, IndexRaises, MarkDone,
         IncrementProcessed, ReadCounters, WriteVerdict, IncrementFailed, MarkFailed,
         IncrementRetry, Republish, GiveUp, Ack, StatementFails, WrapperFails,
         RepublishFails, WorkerLost, WorkerKilled, WorkUnchanged
  <2>2. \A b \in Batches : batch[b].status # "none" => batch'[b].status # "none"
    <3>1. batch \in [Batches -> Batch]
      BY DEF TypeOK
    <3>2. CASE Start(w) \/ MarkDone(w)
      BY <3>1, <3>2 DEF Start, MarkDone, Batch
    <3>3. CASE MarkFailed(w)
      BY <3>1, <3>3 DEF MarkFailed, FailedRow, Batch
    <3>4. CASE IncrementRetry(w)
      BY <3>1, <3>4 DEF IncrementRetry, Batch
    <3> QED
      BY <1>4, <3>2, <3>3, <3>4, RowFrame
  <2>3. orch.pc = "dispatch" => orch.i \in Batches
    BY LoopIndex
  <2> QED
    BY <2>1, <2>2, <2>3 DEF RowsExist, TypeOK
<1>5. CASE UNCHANGED vars
  BY <1>5 DEF vars, RowsExist
<1> QED
  BY <1>1, <1>2, <1>3, <1>4, <1>5 DEF Next, OrchNext, WorkNext

\* The statements after which the task goes on working at its batch.
Working(w) == Start(w) \/ Index(w) \/ IndexRaises(w) \/ IncrementFailed(w)
              \/ IncrementRetry(w) \/ StatementFails(w)

\* Those that come after the row has been settled.
Closing(w) == IncrementProcessed(w) \/ ReadCounters(w) \/ WriteVerdict(w) \/ Ack(w)

(* Taking a message makes its worker the owner of the batch.               *)
LEMMA TakeOwned ==
  ASSUME TypeOK, NEW w \in Workers, Take(w), NEW b, Owned(b)
  PROVE  Owned(b)'
<1> PICK m \in Messages :
      /\ queue' = [queue EXCEPT ![m] = @ - 1]
      /\ worker' = [worker EXCEPT ![w] = [pc |-> "start", b |-> m[1],
                                          r |-> m[2], verdict |-> "none"]]
  BY DEF Take
<1>1. worker[w].pc = "idle" /\ taskFailed' = taskFailed /\ rejected' = rejected
  BY DEF Take, resultVars
<1>2. CASE Ready(b) # {}
  <2>1. PICK n \in Messages : n[1] = b /\ queue[n] > 0
    BY <1>2 DEF Ready
  <2>2. CASE n = m
    BY <2>1, <2>2 DEF TypeOK, Owned, OpenPC
  <2>3. CASE n # m
    <3>1. n \in Ready(b)'
      BY <2>1, <2>3 DEF TypeOK, Ready
    <3> QED
      BY <3>1 DEF Owned
  <2> QED
    BY <2>2, <2>3
<1>3. CASE \E v \in Workers : worker[v].b = b /\ worker[v].pc \in OpenPC
  <2>1. PICK v \in Workers : worker[v].b = b /\ worker[v].pc \in OpenPC
    BY <1>3
  <2>2. v # w
    BY <1>1, <2>1 DEF OpenPC
  <2> QED
    BY <2>1, <2>2 DEF Owned, TypeOK
<1>4. CASE b \in taskFailed \cup rejected
  BY <1>1, <1>4 DEF Owned
<1> QED
  BY <1>2, <1>3, <1>4 DEF Owned

(* A batch that is still open after a step of a worker that held it, or of *)
(* any other, is owned after it.                                           *)
LEMMA WorkOwned ==
  ASSUME TypeOK, TypeOK', NEW w \in Workers, WorkNext(w), ~Take(w),
         NEW b \in Batches, batch'[b].status \in {"pending", "processing"},
         batch[b].status \in {"pending", "processing"} => Owned(b)
  PROVE  Owned(b)'
<1> USE DEF resultVars, Go
<1>0. /\ worker \in [Workers -> Worker]
      /\ batch \in [Batches -> Batch]
      /\ queue \in [Messages -> Nat]
      /\ worker[w].b \in Batches /\ worker[w].r \in Retries
  BY DEF TypeOK, Worker
<1>1. \A v \in Workers : v # w => worker'[v] = worker[v]
  BY <1>0, WorkerFrame
<1>2. taskFailed \subseteq taskFailed' /\ rejected \subseteq rejected'
  BY DEF WorkNext, WorkStep, Take, Start, Index, IndexRaises, MarkDone, IncrementProcessed,
         ReadCounters, WriteVerdict, IncrementFailed, MarkFailed, IncrementRetry, Republish,
         GiveUp, Ack, StatementFails, WrapperFails, RepublishFails, WorkerLost, WorkerKilled
<1>3. \A m \in Messages : queue'[m] \in Nat /\ queue'[m] >= queue[m]
  <2>1. CASE queue' = queue
    BY <1>0, <2>1
  <2>2. CASE Republish(w)
    <3>1. NextTry(w) \in Messages
      BY <1>0, <2>2, BoundsAssumption DEF Republish, NextTry, Messages, Retries
    <3> QED
      BY <2>2, <3>1, PutOwns DEF Republish
  <2>3. CASE WorkerLost(w)
    <3>1. Msg(w) \in Messages
      BY <1>0 DEF Msg, Messages
    <3> QED
      BY <2>3, <3>1, PutOwns DEF WorkerLost, Requeue
  <2> QED
    BY <2>1, <2>2, <2>3
    DEF WorkNext, WorkStep, Start, Index, IndexRaises, MarkDone, IncrementProcessed,
        ReadCounters, WriteVerdict, IncrementFailed, MarkFailed, IncrementRetry,
        GiveUp, Ack, StatementFails, WrapperFails, RepublishFails, WorkerKilled
<1>4. CASE b # worker[w].b
  <2>1. batch'[b] = batch[b]
    BY <1>0, <1>4, RowFrame DEF Start, MarkDone, MarkFailed, IncrementRetry
  <2> QED
    BY <1>1, <1>2, <1>3, <1>4, <2>1, OwnedKept
<1>5. CASE b = worker[w].b
  <2>1. CASE Working(w)
    <3>1. worker'[w].b = b /\ worker'[w].pc \in OpenPC
      BY <1>0, <1>5, <2>1 DEF Working, Start, Index, IndexRaises, Handlers, IncrementFailed,
                              IncrementRetry, StatementFails, OpenPC, Worker
    <3> QED
      BY <3>1 DEF Owned
  <2>2. CASE MarkDone(w) \/ MarkFailed(w)
    <3>1. CASE MarkDone(w)
      BY <1>0, <1>5, <3>1 DEF MarkDone, Batch
    <3>2. CASE MarkFailed(w)
      BY <1>0, <1>5, <3>2 DEF MarkFailed, FailedRow, Batch
    <3> QED
      BY <2>2, <3>1, <3>2
  <2>3. CASE Closing(w)
    <3>1. worker[w].pc \notin OpenPC
      BY <2>3 DEF Closing, IncrementProcessed, ReadCounters, WriteVerdict, Ack, OpenPC
    <3>2. batch' = batch
      BY <2>3 DEF Closing, IncrementProcessed, ReadCounters, WriteVerdict, Ack, rowVars
    <3> QED
      BY <1>1, <1>2, <1>3, <3>1, <3>2, OwnedKept
  <2>4. CASE Republish(w)
    <3>1. NextTry(w) \in Messages /\ NextTry(w)[1] = b
      BY <1>0, <1>5, <2>4, BoundsAssumption DEF Republish, NextTry, Messages, Retries
    <3> QED
      BY <2>4, <3>1, PutOwns DEF Republish
  <2>5. CASE WorkerLost(w)
    <3>1. Msg(w) \in Messages /\ Msg(w)[1] = b
      BY <1>0, <1>5 DEF Msg, Messages
    <3> QED
      BY <2>5, <3>1, PutOwns DEF WorkerLost, Requeue
  <2>6. CASE GiveUp(w) \/ WrapperFails(w) \/ RepublishFails(w) \/ WorkerKilled(w)
    BY <1>5, <2>6 DEF GiveUp, WrapperFails, RepublishFails, WorkerKilled, Owned
  <2> QED
    BY <2>1, <2>2, <2>3, <2>4, <2>5, <2>6 DEF WorkNext, WorkStep, Working, Closing
<1> QED
  BY <1>4, <1>5

(* The orchestrator owns a batch to the workers by publishing it; it       *)
(* inserts rows only where there is none, and takes no message of theirs.  *)
LEMMA OrchOwned ==
  ASSUME TypeOK, LoopOK, RowsExist, NoBatchLost, OrchNext
  PROVE  NoBatchLost'
<1> USE DEF orchVars, workVars, rowVars, resultVars
<1>1. worker' = worker /\ taskFailed' = taskFailed /\ rejected' = rejected
  BY DEF OrchNext, OrchStep, TriggerCreate, TriggerDispatch, TriggerPatch, OrchTake,
         OrchBegin, OrchFetch, OrchFetchFails, OrchTotals, OrchCreate, OrchCreateConflict,
         OrchDispatch, OrchReturn, OrchAbort, OrchAck, OrchFault, OrchLost, OrchKilled
<1>2. CASE OrchDispatch
  <2>1. PICK c \in Batches : c = orch.i
    BY <1>2, LoopIndex DEF OrchDispatch
  <2>2. /\ \A m \in Messages : queue'[m] \in Nat /\ queue'[m] >= queue[m]
        /\ Owned(c)'
    <3>1. <<c, 0>> \in Messages /\ <<c, 0>>[1] = c
      BY <2>1, BoundsAssumption DEF Messages, Retries
    <3>2. Put(<<c, 0>>)
      BY <1>2, <2>1 DEF OrchDispatch
    <3> QED
      BY <3>1, <3>2, PutOwns
  <2>3. ASSUME NEW b, Owned(b)
        PROVE  Owned(b)'
    <3>1. CASE Ready(b) # {}
      <4>1. PICK m \in Messages : m[1] = b /\ queue[m] > 0
        BY <3>1 DEF Ready
      <4>2. m \in Ready(b)'
        BY <2>2, <4>1 DEF Ready, TypeOK
      <4> QED
        BY <4>2 DEF Owned
    <3>2. CASE Ready(b) = {}
      BY <1>1, <2>3, <3>2 DEF Owned
    <3> QED
      BY <3>1, <3>2
  <2> QED
    BY <1>2, <2>1, <2>2, <2>3 DEF OrchDispatch, NoBatchLost
<1>3. CASE ~OrchDispatch
  <2>1. queue' = queue /\ published' = published
    BY <1>3
    DEF OrchNext, OrchStep, TriggerCreate, TriggerDispatch, TriggerPatch, OrchTake,
        OrchBegin, OrchFetch, OrchFetchFails, OrchTotals, OrchCreate, OrchCreateConflict,
        OrchReturn, OrchAbort, OrchAck, OrchFault, OrchLost, OrchKilled
  <2>2. \A b : Owned(b)' <=> Owned(b)
    BY <1>1, <2>1 DEF Owned, Ready
  <2>3. \A b \in published : batch'[b] = batch[b]
    <3>1. CASE OrchCreate
      BY <3>1 DEF OrchCreate, RowsExist, TypeOK
    <3>2. CASE ~OrchCreate
      BY <1>3, <3>2
      DEF OrchNext, OrchStep, TriggerCreate, TriggerDispatch, TriggerPatch, OrchTake,
          OrchBegin, OrchFetch, OrchFetchFails, OrchTotals, OrchCreateConflict,
          OrchReturn, OrchAbort, OrchAck, OrchFault, OrchLost, OrchKilled
    <3> QED
      BY <3>1, <3>2
  <2> QED
    BY <2>1, <2>2, <2>3 DEF NoBatchLost
<1> QED
  BY <1>2, <1>3

(* A dispatched batch that is neither done nor failed has a message, a     *)
(* worker, or a failure recorded for it, whatever is lost, killed or fails *)
(* in any statement; only a broker that refuses the message of self.retry  *)
(* can take a batch away without any of them.                              *)
THEOREM BatchesAreNotLost == Spec => []NoBatchLost
<1>1. Init => NoBatchLost /\ RowsExist
  BY DEF Init, NoBatchLost, RowsExist, IdleOrch
<1>2. TypeOK /\ LoopOK /\ TypeOK' /\ RowsExist /\ NoBatchLost /\ [Next]_vars
        => NoBatchLost' /\ RowsExist'
  <2> SUFFICES ASSUME TypeOK, LoopOK, TypeOK', RowsExist, NoBatchLost, [Next]_vars
               PROVE  NoBatchLost'
    BY RowsExistInv
  <2>1. CASE OrchNext
    BY <2>1, OrchOwned
  <2>2. ASSUME NEW w \in Workers, Take(w)
        PROVE  NoBatchLost'
    BY <2>2, TakeOwned DEF NoBatchLost, Take, WorkUnchanged, rowVars
  <2>3. ASSUME NEW w \in Workers, WorkNext(w), ~Take(w)
        PROVE  NoBatchLost'
    <3>1. published' = published /\ published \in SUBSET Batches
      BY <2>3 DEF TypeOK, WorkNext, WorkStep, Start, Index, IndexRaises, MarkDone,
         IncrementProcessed, ReadCounters, WriteVerdict, IncrementFailed, MarkFailed,
         IncrementRetry, Republish, GiveUp, Ack, StatementFails, WrapperFails,
         RepublishFails, WorkerLost, WorkerKilled, WorkUnchanged
    <3> QED
      BY <2>3, <3>1, WorkOwned DEF NoBatchLost
  <2>4. CASE UNCHANGED vars
    BY <2>4 DEF vars, NoBatchLost, Owned, Ready
  <2> QED
    BY <2>1, <2>2, <2>3, <2>4 DEF Next, OrchNext, WorkNext
<1> QED
  BY <1>1, <1>2, TypeCorrect, PTL DEF Spec
=============================================================================
