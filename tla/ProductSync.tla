----------------------------- MODULE ProductSync -----------------------------
(***************************************************************************)
(* How the points in Qdrant follow the products in Saleor: lifecycle       *)
(* webhooks, the process_webhook task with its retries, and the batches of *)
(* a reindex that write the same points.                                   *)
(*                                                                         *)
(* A payload is abstracted to the number of the change it was taken at:    *)
(* Saleor numbers the changes of a product 1, 2, ..., the last of which    *)
(* may be its deletion.                                                    *)
(***************************************************************************)
EXTENDS Integers

CONSTANTS
    Products,
    Workers,     \* worker processes on the queue webhook
    Indexers,    \* workers on the queue of reindex batches
    Bodies,      \* what subscription queries put into an event, see Event
    MaxRetries,  \* max_retries of the task
    MaxChanges,  \* bound: changes of one product in Saleor
    MaxBatches,  \* bound: batch deliveries of a reindex
    MaxLosses,   \* bound: worker processes lost with an unacknowledged message
    MaxFaults    \* bound: calls that fail, POSTs whose answer is lost

ASSUME SyncAssumption ==
    /\ MaxRetries \in Nat /\ MaxChanges \in Nat /\ MaxBatches \in Nat
    /\ MaxLosses \in Nat /\ MaxFaults \in Nat
    /\ Bodies \subseteq {"full", "bare", "empty"}

VARIABLES
    seq, live,   \* Saleor: number of the last change, does the product exist
    posts,       \* events for which Saleor has no 2xx yet
    tasks,       \* process_webhook messages ready, each with its retry number
    worker,      \* what each worker of the queue webhook does
    indexer,     \* what each batch worker does
    point,       \* Qdrant: the change the point was built from, 0 without point
    stamp,       \* history: the newest change written to the point so far
    overtaken,   \* history: products with a write older than one before it
    dropped,     \* history: changes whose task ended without writing them
    batches, losses, faults   \* how much of each bound is spent

saleor  == <<seq, live>>
qdrant  == <<point, stamp, overtaken>>
bounds  == <<batches, losses, faults>>
vars == <<seq, live, posts, tasks, worker, indexer, point, stamp, overtaken,
          dropped, batches, losses, faults>>

-----------------------------------------------------------------------------
Changes == 0 .. MaxChanges

\* "full": the payload has a price, at the product or in a channel listing;
\* "bare": it has none; "empty": the body has no product at all.
Event   == [p : Products, n : Changes, kind : {"upsert", "delete"}, body : Bodies]
Message == [ev : Event, tries : 0 .. MaxRetries]
OpenPC  == {"build", "index", "delete", "raised"}
Worker  == [pc : OpenPC \cup {"idle", "ack"}, held : SUBSET Message,
            data : Changes,                        \* the change in the payload
            error : {"none", "transient", "permanent"}]  \* what the task catches
Indexer == [pc : {"idle", "fetch"}, todo : SUBSET Products,
            data : [Products -> Changes]]

IdleWorker  == [pc |-> "idle", held |-> {}, data |-> 0, error |-> "none"]
IdleIndexer == [pc |-> "idle", todo |-> {}, data |-> [p \in Products |-> 0]]

GoWork(w, pc) == worker' = [worker EXCEPT ![w].pc = pc]
Raise(w, error) == worker' = [worker EXCEPT ![w].pc = "raised", ![w].error = error]
Fault == faults < MaxFaults /\ faults' = faults + 1 /\ UNCHANGED <<batches, losses>>

\* data[p] is the change to write for p, 0 for none; the points are overwritten,
\* for to_qdrant_point_id gives a product the same point each time.
Write(data, value) ==
    /\ point' = [p \in Products |-> IF data[p] = 0 THEN point[p] ELSE value[p]]
    /\ stamp' = [p \in Products |-> IF data[p] > stamp[p] THEN data[p] ELSE stamp[p]]
    /\ overtaken' = overtaken
          \cup {p \in Products : data[p] # 0 /\ data[p] < stamp[p]}

Only(q, n) == [p \in Products |-> IF p = q THEN n ELSE 0]

\* Slip: a point that exists is left as it is.
UpsertIfAbsent(data) ==
    Write(data, [p \in Products |-> IF point[p] = 0 THEN data[p] ELSE point[p]])

UpsertPoints(data) == Write(data, data)
DeletePoint(p, n)  == Write(Only(p, n), Only(p, 0))

Init ==
    /\ seq = [p \in Products |-> 0] /\ live = [p \in Products |-> FALSE]
    /\ posts = {} /\ tasks = {}
    /\ worker = [w \in Workers |-> IdleWorker]
    /\ indexer = [i \in Indexers |-> IdleIndexer]
    /\ point = [p \in Products |-> 0] /\ stamp = [p \in Products |-> 0]
    /\ overtaken = {} /\ dropped = {}
    /\ batches = 0 /\ losses = 0 /\ faults = 0

-----------------------------------------------------------------------------
(* Saleor                                                                  *)

Change(p, kind) ==
    /\ seq[p] < MaxChanges
    /\ live[p] \/ (seq[p] = 0 /\ kind = "upsert")
    /\ seq' = [seq EXCEPT ![p] = @ + 1]
    /\ live' = [live EXCEPT ![p] = (kind = "upsert")]
    /\ \E body \in Bodies : posts' = posts \cup
          {[p |-> p, n |-> seq[p] + 1, kind |-> kind, body |-> body]}
    /\ UNCHANGED <<tasks, worker, indexer, qdrant, dropped, bounds>>

-----------------------------------------------------------------------------
(* POST /webhooks/saleor                                                   *)

\* Slip: deletions are not among the known event types.
ReceiveUpsertsOnly(e) ==
    /\ e \in posts /\ e.kind = "upsert"
    /\ tasks' = tasks \cup {[ev |-> e, tries |-> 0]} /\ posts' = posts \ {e}
    /\ UNCHANGED <<saleor, worker, indexer, qdrant, dropped, bounds>>

\* The signature, the event header and the body are in order; a body without
\* a product is let through as product "unknown".
Receive(e) ==
    /\ e \in posts
    /\ tasks' = tasks \cup {[ev |-> e, tries |-> 0]} /\ posts' = posts \ {e}
    /\ UNCHANGED <<saleor, worker, indexer, qdrant, dropped, bounds>>

\* The task is published but the answer does not arrive: Saleor posts again.
\* (A refused or failed POST changes nothing.)
ReceiveUnanswered(e) ==
    /\ Fault /\ e \in posts
    /\ tasks' = tasks \cup {[ev |-> e, tries |-> 0]}
    /\ UNCHANGED <<saleor, posts, worker, indexer, qdrant, dropped>>

-----------------------------------------------------------------------------
(* The task process_webhook                                                *)

Take(w, m) ==
    /\ worker[w].pc = "idle" /\ m \in tasks
    /\ tasks' = tasks \ {m}
    /\ worker' = [worker EXCEPT ![w] =
          [pc |-> IF m.ev.kind = "upsert" THEN "build" ELSE "delete",
           held |-> {m}, data |-> 0, error |-> "none"]]
    /\ UNCHANGED <<saleor, posts, indexer, qdrant, dropped, bounds>>

\* The change a payload is taken at, 0 if there is none: from the event, if it
\* has a price, or from Saleor as it is now, if it has the product.
FromEvent(e)  == IF e.body = "full" THEN e.n ELSE 0
FromSaleor(e) == IF e.body # "empty" /\ live[e.p] THEN seq[e.p] ELSE 0
Payload(e)    == IF FromEvent(e) # 0 THEN FromEvent(e) ELSE FromSaleor(e)

\* Slip: the answer that there is no such product is taken for a payload.
BuildUnchecked(w) ==
    /\ worker[w].pc = "build"
    /\ \E m \in worker[w].held :
          worker' = [worker EXCEPT ![w].pc = "index", ![w].data = Payload(m.ev)]
    /\ UNCHANGED <<saleor, posts, tasks, indexer, qdrant, dropped, bounds>>

Build(w) ==
    /\ worker[w].pc = "build"
    /\ \E m \in worker[w].held :
          IF Payload(m.ev) = 0 THEN Raise(w, "permanent")
          ELSE worker' = [worker EXCEPT ![w].pc = "index", ![w].data = Payload(m.ev)]
    /\ UNCHANGED <<saleor, posts, tasks, indexer, qdrant, dropped, bounds>>

BuildFails(w) ==
    /\ Fault /\ worker[w].pc = "build"
    /\ \E m \in worker[w].held : m.ev.body # "full"
    /\ \E error \in {"transient", "permanent"} : Raise(w, error)
    /\ UNCHANGED <<saleor, posts, tasks, indexer, qdrant, dropped>>

\* index_batch takes any exception of the summariser, a rate limit too, for a
\* skipped product, and with its only product skipped the batch fails for good.
SummariseFails(w) ==
    /\ Fault /\ worker[w].pc = "index" /\ Raise(w, "permanent")
    /\ UNCHANGED <<saleor, posts, tasks, indexer, qdrant, dropped>>

Upsert(w) ==
    /\ worker[w].pc = "index"
    /\ \E m \in worker[w].held : UpsertPoints(Only(m.ev.p, worker[w].data))
    /\ GoWork(w, "ack")
    /\ UNCHANGED <<saleor, posts, tasks, indexer, dropped, bounds>>

\* The embedding fails, or Qdrant answers with an error after it has written.
UpsertFails(w) ==
    /\ Fault /\ worker[w].pc = "index"
    /\ \/ UNCHANGED qdrant
       \/ \E m \in worker[w].held : UpsertPoints(Only(m.ev.p, worker[w].data))
    /\ \E error \in {"transient", "permanent"} : Raise(w, error)
    /\ UNCHANGED <<saleor, posts, tasks, indexer, dropped>>

\* No point has the product id "unknown": the task succeeds and deletes nothing.
Delete(w) ==
    /\ worker[w].pc = "delete"
    /\ \E m \in worker[w].held :
          IF m.ev.body = "empty"
          THEN dropped' = dropped \cup {<<m.ev.p, m.ev.n>>} /\ UNCHANGED qdrant
          ELSE DeletePoint(m.ev.p, m.ev.n) /\ UNCHANGED dropped
    /\ GoWork(w, "ack")
    /\ UNCHANGED <<saleor, posts, tasks, indexer, bounds>>

DeleteFails(w) ==
    /\ Fault /\ worker[w].pc = "delete"
    /\ \/ UNCHANGED qdrant
       \/ \E m \in worker[w].held : m.ev.body # "empty" /\ DeletePoint(m.ev.p, m.ev.n)
    /\ \E error \in {"transient", "permanent"} : Raise(w, error)
    /\ UNCHANGED <<saleor, posts, tasks, indexer, dropped>>

\* self.retry publishes the next attempt, unless the attempts are used up; a
\* permanent error is logged, and the task returns "failed".
Catch(w) ==
    /\ worker[w].pc = "raised"
    /\ \E m \in worker[w].held :
          IF worker[w].error = "transient" /\ m.tries < MaxRetries
          THEN /\ tasks' = tasks \cup {[m EXCEPT !.tries = @ + 1]}
               /\ UNCHANGED dropped
          ELSE /\ dropped' = dropped \cup {<<m.ev.p, m.ev.n>>}
               /\ UNCHANGED tasks
    /\ GoWork(w, "ack")
    /\ UNCHANGED <<saleor, posts, indexer, qdrant, bounds>>

\* If the broker does not take the next attempt, self.retry raises Reject, and
\* Celery drops the message in hand.  (The fault that raised the error bounds it.)
CatchFails(w) ==
    /\ worker[w].pc = "raised" /\ worker[w].error = "transient"
    /\ \E m \in worker[w].held :
          /\ m.tries < MaxRetries
          /\ dropped' = dropped \cup {<<m.ev.p, m.ev.n>>}
    /\ GoWork(w, "ack")
    /\ UNCHANGED <<saleor, posts, tasks, indexer, qdrant, bounds>>

Ack(w) ==
    /\ worker[w].pc = "ack"
    /\ worker' = [worker EXCEPT ![w] = IdleWorker]
    /\ UNCHANGED <<saleor, posts, tasks, indexer, qdrant, dropped, bounds>>

\* Slip: the message was acknowledged when it was taken.
RequeueNothing(w) == UNCHANGED tasks

Requeue(w) == tasks' = tasks \cup worker[w].held

WorkerLost(w) ==
    /\ losses < MaxLosses /\ losses' = losses + 1
    /\ worker[w].pc # "idle" /\ Requeue(w)
    /\ worker' = [worker EXCEPT ![w] = IdleWorker]
    /\ UNCHANGED <<saleor, posts, indexer, qdrant, dropped, batches, faults>>

\* time_limit: the message of a killed task is acknowledged.
WorkerKilled(w) ==
    /\ Fault /\ worker[w].pc \in OpenPC
    /\ dropped' = dropped \cup {<<m.ev.p, m.ev.n>> : m \in worker[w].held}
    /\ worker' = [worker EXCEPT ![w] = IdleWorker]
    /\ UNCHANGED <<saleor, posts, tasks, indexer, qdrant>>

WorkStep(w) == \/ \E m \in tasks : Take(w, m)
               \/ Build(w) \/ Upsert(w) \/ Delete(w) \/ Catch(w) \/ Ack(w)

WorkFault(w) == BuildFails(w) \/ SummariseFails(w) \/ UpsertFails(w) \/ DeleteFails(w)
                \/ CatchFails(w) \/ WorkerLost(w) \/ WorkerKilled(w)

-----------------------------------------------------------------------------
(* A reindex batch, as far as it touches the points                        *)

BatchStart(i) ==
    /\ batches < MaxBatches /\ batches' = batches + 1
    /\ indexer[i].pc = "idle"
    /\ indexer' = [indexer EXCEPT ![i] =
          [IdleIndexer EXCEPT !.pc = "fetch", !.todo = {p \in Products : seq[p] > 0}]]
    /\ UNCHANGED <<saleor, posts, tasks, worker, qdrant, dropped, losses, faults>>

\* One query for each id; a product that is gone is left out.
BatchFetch(i) ==
    /\ indexer[i].pc = "fetch"
    /\ \E p \in indexer[i].todo :
          indexer' = [indexer EXCEPT ![i] =
              [pc   |-> "fetch", todo |-> indexer[i].todo \ {p},
               data |-> [indexer[i].data EXCEPT ![p] = IF live[p] THEN seq[p] ELSE 0]]]
    /\ UNCHANGED <<saleor, posts, tasks, worker, qdrant, dropped, bounds>>

\* Products whose description cannot be cleaned or summarised are skipped, the
\* others are written at once, with what was fetched.
BatchIndex(i) ==
    /\ indexer[i].pc = "fetch" /\ indexer[i].todo = {}
    /\ \E skipped \in SUBSET Products :
          UpsertPoints([p \in Products |->
              IF p \in skipped THEN 0 ELSE indexer[i].data[p]])
    /\ indexer' = [indexer EXCEPT ![i] = IdleIndexer]
    /\ UNCHANGED <<saleor, posts, tasks, worker, dropped, bounds>>

\* Whatever fails, is lost or killed: a retry or redelivery is a new BatchStart.
BatchEnds(i) ==
    /\ indexer[i].pc = "fetch"
    /\ indexer' = [indexer EXCEPT ![i] = IdleIndexer]
    /\ UNCHANGED <<saleor, posts, tasks, worker, qdrant, dropped, bounds>>

-----------------------------------------------------------------------------
Next == \/ \E p \in Products, kind \in {"upsert", "delete"} : Change(p, kind)
        \/ \E e \in posts : Receive(e) \/ ReceiveUnanswered(e)
        \/ \E w \in Workers : WorkStep(w) \/ WorkFault(w)
        \/ \E i \in Indexers : BatchStart(i) \/ BatchFetch(i) \/ BatchIndex(i)
                               \/ BatchEnds(i)

\* Saleor posts an event until it is accepted, and Celery consumes the queue.
\* Nobody has to change a product or to reindex.
Fairness == /\ WF_vars(\E e \in posts : Receive(e))
            /\ WF_vars(\E w \in Workers : WorkStep(w))

Spec == Init /\ [][Next]_vars /\ Fairness

-----------------------------------------------------------------------------
(* Properties                                                              *)

TypeOK ==
    /\ seq \in [Products -> Changes] /\ live \in [Products -> BOOLEAN]
    /\ posts \in SUBSET Event /\ tasks \in SUBSET Message
    /\ worker \in [Workers -> Worker] /\ indexer \in [Indexers -> Indexer]
    /\ point \in [Products -> Changes] /\ stamp \in [Products -> Changes]
    /\ overtaken \in SUBSET Products /\ dropped \in SUBSET (Products \X Changes)
    /\ batches \in 0 .. MaxBatches /\ losses \in 0 .. MaxLosses
    /\ faults \in 0 .. MaxFaults
    /\ \A w \in Workers : /\ worker[w].pc = "idle" <=> worker[w].held = {}
                          /\ worker[w].pc = "index" => worker[w].data # 0

Is(e, p, n) == e.p = p /\ e.n = n

\* Somebody still has the change to write.
InFlight(p, n) ==
    \/ \E e \in posts : Is(e, p, n)
    \/ \E m \in tasks : Is(m.ev, p, n)
    \/ \E w \in Workers : /\ worker[w].pc \in OpenPC
                          /\ \E m \in worker[w].held : Is(m.ev, p, n)

(* Every change in Saleor is on its way, or its task has ended without      *)
(* effect, or the point was written from it or from a newer one: no event   *)
(* gets lost between the acceptance, the queue, a retry and a lost worker.  *)
ChangesAccountedFor ==
    \A p \in Products : \A n \in 1 .. seq[p] :
        InFlight(p, n) \/ <<p, n>> \in dropped \/ n <= stamp[p]

\* What the point holds after change n was the last one written.
Image(p, n) == IF n = seq[p] /\ ~live[p] THEN 0 ELSE n

(* As long as no write has been overtaken by an older one, the point is     *)
(* what the newest write left: an upsert replaces, a deletion removes, and  *)
(* doing either again changes nothing.                                      *)
NewestWriteStands ==
    \A p \in Products \ overtaken : point[p] = Image(p, stamp[p])

Settled(p) ==
    /\ \A n \in 1 .. seq[p] : ~InFlight(p, n) /\ <<p, n>> \notin dropped
    /\ p \notin overtaken

(* When nothing is on its way and nothing was dropped or overtaken, Qdrant  *)
(* has the product as Saleor has it: a point of the last change, or none    *)
(* after a deletion.                                                        *)
SettledMeansCurrent ==
    \A p \in Products : Settled(p) =>
        point[p] = IF live[p] THEN seq[p] ELSE 0

(* When the products no longer change, nothing stays on its way: each event *)
(* is accepted, and its task writes or gives up, whatever fails, is retried *)
(* or delivered again.  With SettledMeansCurrent, Qdrant comes to show what *)
(* Saleor has, of each product with nothing given up or overtaken.          *)
EveryChangeSettles ==
    <>[](\A p \in Products : \A n \in 1 .. seq[p] : ~InFlight(p, n))

=============================================================================
