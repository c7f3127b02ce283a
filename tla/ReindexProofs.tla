--------------------------- MODULE ReindexProofs ---------------------------
(***************************************************************************)
(* Counting theorems about Ingestion: how often a batch is delivered, what *)
(* the counters of the job row stand for, and that the job row behaves as  *)
(* ReindexJob says, for every number of workers, batches and retries.      *)
(***************************************************************************)
EXTENDS IngestionProofs, MCIngestion, FiniteSetTheorems

-----------------------------------------------------------------------------
(* How often a batch is delivered                                          *)

Busy    == {w \in Workers : worker[w].pc # "idle"}
Slots   == 1 .. (MaxLosses + 2)
Held(b) == {w \in Holders(b) : worker[w].pc # "ack"}
Queued(b) == {c \in Messages \X Slots : c[1][1] = b /\ c[2] <= queue[c[1]]}

\* A batch the orchestrator has not dispatched is known to nobody, and the
\* one it is about to dispatch is new: the row it has just inserted says so.
Unsent == /\ \A b \in Batches \ published : Ready(b) = {} /\ Holders(b) = {}
          /\ orch.pc = "dispatch" => orch.i \notin published

CopiesInv == /\ IsFiniteSet(Busy)
             /\ losses.orch + losses.work <= MaxLosses
             /\ Unsent
             /\ CopiesBounded

LEMMA SlotsFinite == IsFiniteSet(Messages \X Slots)
<1>1. IsFiniteSet(Batches) /\ IsFiniteSet(Retries) /\ IsFiniteSet(Slots)
  BY BoundsAssumption, FS_Interval DEF Batches, Retries, Slots
<1>2. IsFiniteSet(Messages)
  BY <1>1, FS_Product DEF Messages
<1> QED
  BY <1>1, <1>2, FS_Product

\* Both parts of Copies are finite, so it is a number.
LEMMA CopiesFinite ==
  ASSUME IsFiniteSet(Busy), NEW b
  PROVE  /\ IsFiniteSet(Held(b)) /\ IsFiniteSet(Queued(b))
         /\ Cardinality(Held(b)) \in Nat /\ Cardinality(Queued(b)) \in Nat
         /\ Copies(b) = Cardinality(Held(b)) + Cardinality(Queued(b))
<1>1. Held(b) \subseteq Busy
  BY DEF Held, Holders, Busy
<1>2. Queued(b) \subseteq Messages \X Slots
  BY DEF Queued
<1>3. IsFiniteSet(Held(b)) /\ IsFiniteSet(Queued(b))
  BY <1>1, <1>2, SlotsFinite, FS_Subset
<1> QED
  BY <1>3, FS_CardinalityType DEF Copies, Held, Queued, Slots

\* Publishing a message adds one copy to its batch and none to another.
LEMMA PutQueued ==
  ASSUME TypeOK, IsFiniteSet(Busy), IsFiniteSet(Busy'), NEW m \in Messages, Put(m), NEW b
  PROVE  Cardinality(Queued(b)') <= Cardinality(Queued(b)) + (IF m[1] = b THEN 1 ELSE 0)
<1> DEFINE new == <<m, queue[m] + 1>>
<1>0. queue \in [Messages -> Nat] /\ queue' = [queue EXCEPT ![m] = @ + 1]
  BY DEF TypeOK, Put
<1>1. IsFiniteSet(Queued(b)) /\ Cardinality(Queued(b)) \in Nat
  BY CopiesFinite
<1>2. CASE m[1] # b
  <2>1. Queued(b)' = Queued(b)
    BY <1>0, <1>2 DEF Queued
  <2> QED
    BY <1>1, <1>2, <2>1
<1>3. CASE m[1] = b
  <2>1. Queued(b)' \subseteq Queued(b) \cup {new}
    <3> SUFFICES ASSUME NEW n \in Messages, NEW k \in Slots, n[1] = b, k <= queue'[n],
                        <<n, k>> # new
                 PROVE  k <= queue[n]
      BY DEF Queued
    <3>1. CASE n = m
      <4>1. queue'[n] = queue[n] + 1 /\ k # queue[n] + 1 /\ k \in Nat /\ queue[n] \in Nat
        BY <1>0, <3>1 DEF Slots
      <4> QED
        BY <4>1
    <3>2. CASE n # m
      BY <1>0, <3>2
    <3> QED
      BY <3>1, <3>2
  <2>2. /\ IsFiniteSet(Queued(b) \cup {new})
        /\ Cardinality(Queued(b) \cup {new}) \in Nat
        /\ Cardinality(Queued(b) \cup {new}) <= Cardinality(Queued(b)) + 1
    <3> HIDE DEF new
    <3>1. /\ IsFiniteSet(Queued(b) \cup {new})
          /\ \/ Cardinality(Queued(b) \cup {new}) = Cardinality(Queued(b))
             \/ Cardinality(Queued(b) \cup {new}) = Cardinality(Queued(b)) + 1
      BY <1>1, FS_AddElement
    <3> QED
      BY <1>1, <3>1
  <2>3. /\ Cardinality(Queued(b)') <= Cardinality(Queued(b) \cup {new})
        /\ Cardinality(Queued(b)') \in Nat
    BY <2>1, <2>2, FS_Subset, FS_CardinalityType
  <2> QED
    BY <1>1, <1>3, <2>2, <2>3
<1> QED
  BY <1>2, <1>3

\* The bound MaxLosses + 2 of Copies is never reached: it counts every copy.
LEMMA QueueBounded ==
  ASSUME TypeOK, CopiesInv, NEW m \in Messages
  PROVE  queue[m] \in Slots \cup {0}
<1> DEFINE all == {m} \X Slots
<1>0. /\ m[1] \in Batches /\ queue[m] \in Nat
      /\ losses.orch \in Nat /\ losses.work \in Nat
      /\ losses.orch + losses.work <= MaxLosses /\ MaxLosses \in Nat
  BY BoundsAssumption DEF TypeOK, Messages, CopiesInv
<1>1. /\ IsFiniteSet(Queued(m[1]))
      /\ Cardinality(Queued(m[1])) \in Nat /\ Cardinality(Held(m[1])) \in Nat
      /\ Copies(m[1]) = Cardinality(Held(m[1])) + Cardinality(Queued(m[1]))
  BY CopiesFinite DEF CopiesInv
<1>2. Copies(m[1]) <= 1 + losses.work
  BY <1>0 DEF CopiesInv, CopiesBounded
<1>3. Cardinality(all) = MaxLosses + 2
  <2>1. IsFiniteSet({m}) /\ Cardinality({m}) = 1
    BY FS_Singleton
  <2>2. IsFiniteSet(Slots) /\ Cardinality(Slots) = MaxLosses + 2
    BY <1>0, FS_Interval DEF Slots
  <2>3. Cardinality(all) = 1 * (MaxLosses + 2)
    BY <2>1, <2>2, FS_Product
  <2> QED
    BY <1>0, <2>3
<1>4. ASSUME queue[m] > MaxLosses + 2
      PROVE  FALSE
  <2>1. all \subseteq Queued(m[1])
    <3> SUFFICES ASSUME NEW k \in Slots
                 PROVE  k <= queue[m]
      BY DEF Queued
    <3> QED
      BY <1>0, <1>4 DEF Slots
  <2>2. Cardinality(all) <= Cardinality(Queued(m[1]))
    BY <1>1, <2>1, FS_Subset
  <2> QED
    BY <1>0, <1>1, <1>2, <1>3, <2>2
<1> QED
  BY <1>0, <1>4 DEF Slots

\* Taking a message removes one copy from the queue.
LEMMA TakeQueued ==
  ASSUME TypeOK, CopiesInv, NEW m \in Messages, queue[m] > 0,
         queue' = [queue EXCEPT ![m] = @ - 1], NEW b
  PROVE  Cardinality(Queued(b)') = Cardinality(Queued(b)) - (IF m[1] = b THEN 1 ELSE 0)
<1> DEFINE old == <<m, queue[m]>>
<1>0. queue \in [Messages -> Nat]
  BY DEF TypeOK
<1>1. IsFiniteSet(Queued(b)) /\ Cardinality(Queued(b)) \in Nat
  BY CopiesFinite DEF CopiesInv
<1>2. CASE m[1] # b
  <2>1. Queued(b)' = Queued(b)
    BY <1>0, <1>2 DEF Queued
  <2> QED
    BY <1>1, <1>2, <2>1
<1>3. CASE m[1] = b
  <2>1. old \in Queued(b)
    BY <1>0, <1>3, QueueBounded DEF Queued, Slots
  <2>2. Queued(b)' = Queued(b) \ {old}
    <3> SUFFICES ASSUME NEW n \in Messages, NEW k \in Slots, n[1] = b
                 PROVE  k <= queue'[n] <=> k <= queue[n] /\ <<n, k>> # old
      BY DEF Queued
    <3>1. CASE n = m
      <4>1. queue'[n] = queue[n] - 1 /\ k \in Nat /\ queue[n] \in Nat
        BY <1>0, <3>1 DEF Slots
      <4> QED
        BY <3>1, <4>1
    <3>2. CASE n # m
      BY <1>0, <3>2
    <3> QED
      BY <3>1, <3>2
  <2> QED
    BY <1>1, <1>3, <2>1, <2>2, FS_RemoveElement
<1> QED
  BY <1>2, <1>3

\* What a step of a task other than Take does to its worker and to the queue.
LEMMA WorkShape ==
  ASSUME TypeOK, NEW w \in Workers, WorkNext(w), ~Take(w)
  PROVE  /\ worker[w].pc # "idle"
         /\ worker[w].pc = "ack" => worker'[w].pc = "idle"
         /\ worker'[w].pc # "idle" => worker'[w].b = worker[w].b
         /\ \/ queue' = queue
            \/ Republish(w) /\ Put(NextTry(w)) /\ worker'[w].pc = "ack"
            \/ WorkerLost(w) /\ Put(Msg(w)) /\ worker'[w].pc = "idle"
<1> USE DEF Go
<1>0. worker \in [Workers -> Worker]
  BY DEF TypeOK
<1>1. CASE Start(w) \/ Index(w) \/ IndexRaises(w) \/ MarkDone(w)
  BY <1>0, <1>1 DEF Start, Index, IndexRaises, Handlers, MarkDone, Worker
<1>2. CASE IncrementProcessed(w) \/ ReadCounters(w) \/ WriteVerdict(w) \/ IncrementFailed(w)
  BY <1>0, <1>2 DEF IncrementProcessed, ReadCounters, WriteVerdict, IncrementFailed, Worker
<1>3. CASE MarkFailed(w) \/ IncrementRetry(w) \/ GiveUp(w)
  BY <1>0, <1>3 DEF MarkFailed, IncrementRetry, GiveUp, Worker
<1>4. CASE Republish(w)
  BY <1>0, <1>4 DEF Republish, Worker
<1>5. CASE Ack(w) \/ WorkerKilled(w)
  BY <1>0, <1>5 DEF Ack, WorkerKilled, IdleWorker
<1>6. CASE WorkerLost(w)
  BY <1>0, <1>6 DEF WorkerLost, Requeue, IdleWorker
<1>7. CASE StatementFails(w) \/ WrapperFails(w) \/ RepublishFails(w)
  BY <1>0, <1>7 DEF StatementFails, WrapperFails, RepublishFails, Worker
<1> QED
  BY <1>1, <1>2, <1>3, <1>4, <1>5, <1>6, <1>7 DEF WorkNext, WorkStep

\* A worker leaves the trigger, the orchestrator and the dispatched set alone,
\* and its loss is the only one it can cause.
LEMMA WorkLeaves ==
  ASSUME TypeOK, NEW w \in Workers, WorkNext(w)
  PROVE  /\ UNCHANGED <<api, orchQueue, orch, published>>
         /\ \/ losses' = losses
            \/ /\ WorkerLost(w) /\ losses.orch + losses.work < MaxLosses
               /\ losses'.orch = losses.orch /\ losses'.work = losses.work + 1
<1>1. UNCHANGED <<api, orchQueue, orch, published>>
  BY DEF WorkNext, WorkStep, Take, Start, Index, IndexRaises, MarkDone, IncrementProcessed,
         ReadCounters, WriteVerdict, IncrementFailed, MarkFailed, IncrementRetry, Republish,
         GiveUp, Ack, StatementFails, WrapperFails, RepublishFails, WorkerLost, WorkerKilled,
         WorkUnchanged, orchVars
<1>2. CASE WorkerLost(w)
  BY <1>1, <1>2 DEF WorkerLost, TypeOK
<1>3. CASE ~WorkerLost(w)
  <2>1. losses' = losses
    BY <1>3 DEF WorkNext, WorkStep, Take, Start, Index, IndexRaises, MarkDone,
         IncrementProcessed, ReadCounters, WriteVerdict, IncrementFailed, MarkFailed,
         IncrementRetry, Republish, GiveUp, Ack, StatementFails, WrapperFails,
         RepublishFails, WorkerKilled, faultVars
  <2> QED
    BY <1>1, <2>1
<1> QED
  BY <1>2, <1>3

\* What the orchestrator and the trigger leave alone.
LEMMA OrchLeaves ==
  ASSUME TypeOK, OrchNext
  PROVE  /\ UNCHANGED <<worker, indexed, taskFailed, rejected>>
         /\ OrchDispatch \/ UNCHANGED <<queue, published>>
         /\ \/ losses' = losses
            \/ /\ OrchLost /\ losses.orch + losses.work < MaxLosses
               /\ losses'.orch = losses.orch + 1 /\ losses'.work = losses.work
<1>1. CASE OrchLost
  BY <1>1 DEF OrchLost, TypeOK, workVars, resultVars
<1>2. CASE OrchDispatch
  BY <1>2 DEF OrchDispatch, resultVars, faultVars
<1>3. CASE ~OrchLost /\ ~OrchDispatch
  BY <1>3 DEF OrchNext, OrchStep, TriggerCreate, TriggerDispatch, TriggerPatch, OrchTake,
         OrchBegin, OrchFetch, OrchFetchFails, OrchTotals, OrchCreate, OrchCreateConflict,
         OrchReturn, OrchAbort, OrchAck, OrchFault, OrchKilled, workVars, resultVars, faultVars
<1> QED
  BY <1>1, <1>2, <1>3

\* Only a worker that takes a message becomes busy.
LEMMA BusyFinite ==
  ASSUME TypeOK, IsFiniteSet(Busy), [Next]_vars
  PROVE  IsFiniteSet(Busy')
<1>1. CASE OrchNext \/ UNCHANGED vars
  BY <1>1, OrchLeaves DEF Busy, vars
<1>2. ASSUME NEW w \in Workers, WorkNext(w)
      PROVE  IsFiniteSet(Busy')
  <2>1. Busy' \subseteq Busy \cup {w}
    BY <1>2, WorkerFrame DEF TypeOK, Busy
  <2>2. IsFiniteSet(Busy \cup {w})
    BY FS_AddElement
  <2> QED
    BY <2>1, <2>2, FS_Subset
<1> QED
  BY <1>1, <1>2 DEF Next, OrchNext, WorkNext

\* The message a task publishes next, or gives back, is one of its batch.
LEMMA OwnMessages ==
  ASSUME TypeOK, NEW w \in Workers
  PROVE  /\ worker[w].b \in Batches
         /\ Msg(w) \in Messages /\ Msg(w)[1] = worker[w].b
         /\ Republish(w) => NextTry(w) \in Messages /\ NextTry(w)[1] = worker[w].b
<1>1. worker[w].b \in Batches /\ worker[w].r \in Retries
  BY DEF TypeOK, Worker
<1> QED
  BY <1>1, BoundsAssumption DEF Msg, Messages, Republish, NextTry, Retries

\* An undispatched batch stays unknown, and the orchestrator comes to dispatch
\* only a batch whose row it could insert.
LEMMA UnsentInv ==
  ASSUME TypeOK, LoopOK, RowsExist, Unsent, [Next]_vars
  PROVE  Unsent'
<1>0. /\ worker \in [Workers -> Worker] /\ queue \in [Messages -> Nat] /\ orch \in Orch
      /\ published \subseteq Batches
  BY DEF TypeOK
<1>1. CASE OrchDispatch
  <2>1. /\ UNCHANGED worker /\ published' = published \cup {orch.i}
        /\ orch'.pc = "create" /\ Put(<<orch.i, 0>>)
    BY <1>0, <1>1 DEF OrchDispatch, Orch
  <2>2. \A m \in Messages : m[1] # orch.i => queue'[m] = queue[m]
    BY <1>0, <2>1 DEF Put
  <2> QED
    BY <2>1, <2>2 DEF Unsent, Ready, Holders
<1>2. CASE OrchNext /\ ~OrchDispatch
  <2>1. UNCHANGED <<worker, queue, published>>
    BY <1>2, OrchLeaves
  <2>2. orch' = orch \/ orch'.pc # "dispatch" \/ (OrchCreate /\ orch'.i = orch.i)
    <3>1. CASE TriggerCreate \/ TriggerDispatch \/ TriggerPatch
      BY <3>1 DEF TriggerCreate, TriggerDispatch, TriggerPatch, orchVars
    <3>2. CASE OrchTake \/ OrchBegin \/ OrchFetchFails \/ OrchCreateConflict
      BY <1>0, <3>2 DEF OrchTake, OrchBegin, OrchFetchFails, OrchCreateConflict, OrchGo, Orch
    <3>3. CASE OrchReturn \/ OrchAbort \/ OrchAck
      BY <1>0, <3>3 DEF OrchReturn, OrchAbort, OrchAck, OrchGo, IdleOrch, Orch
    <3>4. CASE OrchFetch \/ OrchTotals \/ OrchCreate
      BY <1>0, <3>4 DEF OrchFetch, OrchTotals, OrchCreate, OrchGo, Orch
    <3>5. CASE OrchFault \/ OrchLost \/ OrchKilled
      BY <1>0, <3>5 DEF OrchFault, OrchLost, OrchKilled, OrchGo, IdleOrch, Orch
    <3> QED
      BY <1>2, <3>1, <3>2, <3>3, <3>4, <3>5 DEF OrchNext, OrchStep
  <2>3. OrchCreate => orch.i \notin published
    BY DEF OrchCreate, RowsExist
  <2> QED
    BY <2>1, <2>2, <2>3 DEF Unsent, Ready, Holders
<1>3. ASSUME NEW w \in Workers, WorkNext(w)
      PROVE  Unsent'
  <2>1. UNCHANGED <<orch, published>>
    BY <1>3, WorkLeaves
  <2>2. \A v \in Workers : v # w => worker'[v] = worker[v]
    BY <1>0, <1>3, WorkerFrame
  <2>3. CASE Take(w)
    <3> PICK m \in Messages :
          /\ queue[m] > 0
          /\ queue' = [queue EXCEPT ![m] = @ - 1]
          /\ worker' = [worker EXCEPT ![w] = [pc |-> "start", b |-> m[1],
                                              r |-> m[2], verdict |-> "none"]]
      BY <2>3 DEF Take
    <3>1. m[1] \in published
      BY DEF Unsent, Ready, Messages
    <3>2. \A n \in Messages : queue'[n] > 0 => queue[n] > 0
      BY <1>0
    <3>3. worker'[w].b = m[1]
      BY <1>0
    <3> QED
      BY <2>1, <2>2, <3>1, <3>2, <3>3 DEF Unsent, Ready, Holders
  <2>4. CASE ~Take(w)
    <3>1. worker[w].b \in published /\ worker[w].pc # "idle"
      <4>1. worker[w].pc # "idle" /\ worker[w].b \in Batches
        BY <1>3, <2>4, WorkShape, OwnMessages
      <4> QED
        BY <4>1 DEF Unsent, Holders
    <3>2. worker'[w].pc # "idle" => worker'[w].b = worker[w].b
      BY <1>3, <2>4, WorkShape
    <3>3. \A n \in Messages : n[1] # worker[w].b => queue'[n] = queue[n]
      BY <1>0, <1>3, <2>4, WorkShape, OwnMessages DEF Put
    <3> QED
      BY <2>1, <2>2, <3>1, <3>2, <3>3 DEF Unsent, Ready, Holders
  <2> QED
    BY <2>3, <2>4
<1>4. CASE UNCHANGED vars
  BY <1>4 DEF vars, Unsent, Ready, Holders
<1> QED
  BY <1>1, <1>2, <1>3, <1>4 DEF Next, OrchNext, WorkNext

\* A task that is not taking a message keeps its own or gives it up.
LEMMA HeldShrinks ==
  ASSUME TypeOK, NEW w \in Workers, WorkNext(w), ~Take(w), NEW b
  PROVE  Held(b)' \subseteq Held(b)
<1>1. \A v \in Workers : v # w => worker'[v] = worker[v]
  BY WorkerFrame DEF TypeOK
<1>2. w \in Held(b)' => w \in Held(b)
  BY WorkShape DEF Held, Holders
<1> QED
  BY <1>1, <1>2 DEF Held, Holders

(* A step of a worker moves a copy between queue and worker, or drops it;   *)
(* only its loss makes one more, and that loss is counted.                  *)
LEMMA WorkCopies ==
  ASSUME TypeOK, TypeOK', CopiesInv, IsFiniteSet(Busy'), NEW w \in Workers, WorkNext(w),
         NEW b \in Batches
  PROVE  Copies(b)' <= 1 + losses'.work
<1> DEFINE h == Cardinality(Held(b))
           q == Cardinality(Queued(b))
           H == Cardinality(Held(b)')
           Q == Cardinality(Queued(b)')
<1>1. h \in Nat /\ q \in Nat /\ IsFiniteSet(Held(b)) /\ Copies(b) = h + q
  BY CopiesFinite DEF CopiesInv
<1>2. H \in Nat /\ Q \in Nat /\ IsFiniteSet(Held(b)') /\ Copies(b)' = H + Q
  <2>1. Held(b)' \subseteq Busy' /\ Queued(b)' \subseteq Messages \X Slots
    BY DEF Held, Holders, Busy, Queued
  <2>2. IsFiniteSet(Held(b)') /\ IsFiniteSet(Queued(b)')
    BY <2>1, SlotsFinite, FS_Subset
  <2> QED
    BY <2>2, FS_CardinalityType DEF Copies, Held, Queued, Slots
<1>3. Copies(b) <= 1 + losses.work
  BY DEF CopiesInv, CopiesBounded
<1>4. losses.work \in Nat
  BY DEF TypeOK
<1> HIDE DEF h, q, H, Q
<1>5. CASE Take(w)
  <2> PICK m \in Messages :
        /\ queue[m] > 0
        /\ queue' = [queue EXCEPT ![m] = @ - 1]
        /\ worker' = [worker EXCEPT ![w] = [pc |-> "start", b |-> m[1],
                                            r |-> m[2], verdict |-> "none"]]
    BY <1>5 DEF Take
  <2>1. losses' = losses
    BY <1>5 DEF Take, faultVars
  <2>2. Q = q - (IF m[1] = b THEN 1 ELSE 0)
    BY TakeQueued DEF Q, q
  <2>3. CASE m[1] = b
    <3>1. Held(b)' \subseteq Held(b) \cup {w}
      BY DEF TypeOK, Held, Holders
    <3>2. IsFiniteSet(Held(b) \cup {w}) /\ Cardinality(Held(b) \cup {w}) \in {h, h + 1}
      BY <1>1, FS_AddElement DEF h
    <3>3. H <= h + 1
      BY <1>1, <1>2, <3>1, <3>2, FS_Subset DEF H
    <3> QED
      BY <1>1, <1>2, <1>3, <1>4, <2>1, <2>2, <2>3, <3>3
  <2>4. CASE m[1] # b
    <3>1. Held(b)' \subseteq Held(b)
      BY <2>4 DEF TypeOK, Held, Holders
    <3>2. H <= h
      BY <1>1, <3>1, FS_Subset DEF H, h
    <3> QED
      BY <1>1, <1>2, <1>3, <1>4, <2>1, <2>2, <2>4, <3>2
  <2> QED
    BY <2>3, <2>4
<1>6. CASE ~Take(w)
  <2>1. H <= h
    BY <1>1, <1>6, HeldShrinks, FS_Subset DEF H, h
  <2>2. CASE queue' = queue
    <3>1. Q = q
      BY <2>2 DEF Q, q, Queued
    <3> QED
      BY <1>1, <1>2, <1>3, <1>4, <2>1, <3>1, WorkLeaves
  <2>3. CASE Republish(w) /\ Put(NextTry(w)) /\ worker'[w].pc = "ack"
    <3>1. Q <= q + (IF worker[w].b = b THEN 1 ELSE 0)
      BY <2>3, OwnMessages, PutQueued DEF CopiesInv, Q, q
    <3>2. worker[w].b = b => H <= h - 1
      <4> SUFFICES ASSUME worker[w].b = b
                   PROVE  H <= h - 1
        OBVIOUS
      <4>1. w \in Held(b) /\ Held(b)' \subseteq Held(b) \ {w}
        BY <1>6, <2>3, HeldShrinks DEF Republish, Held, Holders
      <4>2. IsFiniteSet(Held(b) \ {w}) /\ Cardinality(Held(b) \ {w}) = h - 1
        BY <1>1, <4>1, FS_RemoveElement DEF h
      <4> QED
        BY <4>1, <4>2, FS_Subset DEF H
    <3> QED
      BY <1>1, <1>2, <1>3, <1>4, <2>1, <3>1, <3>2, WorkLeaves
  <2>4. CASE WorkerLost(w) /\ Put(Msg(w))
    <3>1. Q <= q + (IF worker[w].b = b THEN 1 ELSE 0)
      BY <2>4, OwnMessages, PutQueued DEF CopiesInv, Q, q
    <3>2. losses'.work = losses.work + 1
      BY <2>4 DEF WorkerLost, TypeOK
    <3> QED
      BY <1>1, <1>2, <1>3, <1>4, <2>1, <3>1, <3>2
  <2> QED
    BY <1>6, <2>2, <2>3, <2>4, WorkShape
<1> QED
  BY <1>5, <1>6

(* The orchestrator dispatches a batch nobody has a copy of; a second       *)
(* orchestrator stops at the rows of the first.                             *)
LEMMA OrchCopies ==
  ASSUME TypeOK, LoopOK, CopiesInv, OrchNext, IsFiniteSet(Busy'), NEW b \in Batches
  PROVE  Copies(b)' <= 1 + losses'.work
<1>1. losses'.work = losses.work /\ losses.work \in Nat
  BY OrchLeaves DEF TypeOK
<1>2. Held(b)' = Held(b)
  BY OrchLeaves DEF Held, Holders
<1>3. Copies(b) <= 1 + losses.work
  BY DEF CopiesInv, CopiesBounded
<1>4. CASE OrchDispatch /\ b = orch.i
  <2>1. b \notin published
    BY <1>4 DEF OrchDispatch, CopiesInv, Unsent
  <2>2. Held(b) = {}
    BY <2>1 DEF CopiesInv, Unsent, Held
  <2>3. \A m \in Messages : m[1] = b => queue[m] = 0
    BY <2>1 DEF CopiesInv, Unsent, Ready, TypeOK
  <2>4. Queued(b)' \subseteq {<<<<b, 0>>, 1>>}
    <3> SUFFICES ASSUME NEW m \in Messages, NEW k \in Slots, m[1] = b, k <= queue'[m]
                 PROVE  m = <<b, 0>> /\ k = 1
      BY DEF Queued
    <3>1. queue' = [queue EXCEPT ![<<b, 0>>] = @ + 1] /\ queue[m] = 0
      BY <1>4, <2>3 DEF OrchDispatch, Put
    <3>2. k \in Int /\ k >= 1
      BY DEF Slots
    <3>3. m = <<b, 0>>
      BY <3>1, <3>2 DEF TypeOK
    <3> QED
      BY <3>1, <3>2, <3>3 DEF TypeOK
  <2>5. IsFiniteSet(Queued(b)') /\ Cardinality(Queued(b)') \in Nat /\ Cardinality(Queued(b)') <= 1
    <3> DEFINE only == <<<<b, 0>>, 1>>
    <3>1. Queued(b)' \subseteq {only}
      BY <2>4
    <3> HIDE DEF only
    <3>2. IsFiniteSet({only}) /\ Cardinality({only}) = 1
      BY FS_Singleton
    <3>3. IsFiniteSet(Queued(b)') /\ Cardinality(Queued(b)') <= 1
      BY <3>1, <3>2, FS_Subset
    <3> QED
      BY <3>3, FS_CardinalityType
  <2>6. Copies(b)' = Cardinality({}) + Cardinality(Queued(b)')
    BY <1>2, <2>2 DEF Copies, Held, Queued, Slots
  <2> QED
    BY <1>1, <2>5, <2>6, FS_EmptySet
<1>5. CASE ~(OrchDispatch /\ b = orch.i)
  <2>1. Queued(b)' = Queued(b)
    <3>1. CASE OrchDispatch
      BY <1>5, <3>1 DEF OrchDispatch, Put, TypeOK, Queued
    <3>2. CASE ~OrchDispatch
      BY <3>2, OrchLeaves DEF Queued
    <3> QED
      BY <3>1, <3>2
  <2>2. Copies(b)' = Copies(b)
    BY <1>2, <2>1 DEF Copies, Held, Queued, Slots
  <2> QED
    BY <1>1, <1>3, <2>2
<1> QED
  BY <1>4, <1>5

LEMMA CopiesStep ==
  ASSUME TypeOK, TypeOK', LoopOK, RowsExist, CopiesInv, [Next]_vars
  PROVE  CopiesInv'
<1>1. IsFiniteSet(Busy') /\ Unsent'
  BY BusyFinite, UnsentInv DEF CopiesInv
<1>2. losses'.orch + losses'.work <= MaxLosses
  <2>1. CASE OrchNext
    BY <2>1, OrchLeaves, BoundsAssumption DEF CopiesInv, TypeOK
  <2>2. ASSUME NEW w \in Workers, WorkNext(w)
        PROVE  losses'.orch + losses'.work <= MaxLosses
    BY <2>2, WorkLeaves, BoundsAssumption DEF CopiesInv, TypeOK
  <2>3. CASE UNCHANGED vars
    BY <2>3 DEF CopiesInv, vars
  <2> QED
    BY <2>1, <2>2, <2>3 DEF Next, OrchNext, WorkNext
<1>3. CopiesBounded'
  <2>1. CASE OrchNext
    BY <1>1, <2>1, OrchCopies DEF CopiesBounded
  <2>2. ASSUME NEW w \in Workers, WorkNext(w)
        PROVE  CopiesBounded'
    BY <1>1, <2>2, WorkCopies DEF CopiesBounded
  <2>3. CASE UNCHANGED vars
    <3>1. \A b \in Batches : Copies(b)' = Copies(b)
      BY <2>3 DEF vars, Copies, Holders
    <3> QED
      BY <2>3, <3>1 DEF CopiesInv, CopiesBounded, vars
  <2> QED
    BY <2>1, <2>2, <2>3 DEF Next, OrchNext, WorkNext
<1> QED
  BY <1>1, <1>2, <1>3 DEF CopiesInv

LEMMA CopiesInit == Init => CopiesInv
<1> SUFFICES ASSUME Init
             PROVE  CopiesInv
  OBVIOUS
<1>1. Busy = {} /\ \A b : Held(b) = {}
  BY DEF Init, IdleWorker, Busy, Held, Holders
<1>2. \A b : Queued(b) = {}
  BY DEF Init, Queued, Slots
<1>3. \A b : Copies(b) = 0
  <2>1. \A b : Copies(b) = Cardinality({}) + Cardinality({})
    BY <1>1, <1>2 DEF Copies, Held, Queued, Slots
  <2>2. Cardinality({}) = 0
    BY FS_EmptySet
  <2> QED
    BY <2>1, <2>2
<1>4. losses.work = 0 /\ losses.orch = 0
  BY DEF Init
<1> QED
  BY <1>1, <1>3, <1>4, FS_EmptySet, BoundsAssumption
  DEF Init, IdleOrch, IdleWorker, CopiesInv, Unsent, CopiesBounded, Ready, Holders

(* Only the loss of a worker multiplies the deliveries of a batch: with k  *)
(* workers lost a batch has at most 1 + k copies, whatever is killed,      *)
(* retried or redelivered to a second orchestrator.                        *)
THEOREM CopiesAreBounded == Spec => [](CopiesInv /\ CopiesBounded)
<1>1. Init => RowsExist
  BY DEF Init, RowsExist, IdleOrch
<1>2. /\ TypeOK /\ LoopOK /\ TypeOK' /\ RowsExist /\ CopiesInv /\ [Next]_vars
      => CopiesInv' /\ RowsExist'
  BY CopiesStep, RowsExistInv
<1>3. CopiesInv => CopiesBounded
  BY DEF CopiesInv
<1> QED
  BY <1>1, <1>2, <1>3, CopiesInit, TypeCorrect, PTL DEF Spec

-----------------------------------------------------------------------------
(* What the counters stand for, as long as no process is lost              *)

NothingLost == losses.orch = 0 /\ losses.work = 0

\* A task that may still count its batch, now or on a later try.
CountsPC   == {"start", "work", "done", "count", "incfail", "retry", "republish"}
Awaited(b) == \/ Ready(b) # {}
              \/ \E w \in Workers : worker[w].b = b /\ worker[w].pc \in CountsPC

\* The dispatched batches that nobody will count any more.
Past == {b \in published : ~Awaited(b)}

CountInv ==
    /\ job.processed + job.failed <= Cardinality(Past)
    /\ job.processed <= Cardinality(Past \cap indexed)
    /\ \A w \in Workers : worker[w].pc = "count" => worker[w].b \in indexed

\* A set of at most one element has no two.
LEMMA NoTwo ==
  ASSUME NEW S, IsFiniteSet(S), Cardinality(S) <= 1, NEW x \in S, NEW y \in S
  PROVE  x = y
<1>1. IsFiniteSet({x}) /\ Cardinality({x}) = 1
  BY FS_Singleton
<1>2. Cardinality({x}) <= Cardinality(S) /\ Cardinality(S) \in Nat
  BY FS_Subset, FS_CardinalityType
<1>3. Cardinality(S) = 1
  BY <1>1, <1>2
<1>4. S = {x}
  BY <1>1, <1>3, FS_Subset
<1> QED
  BY <1>4

\* A set with an element has at least one.
LEMMA AtLeastOne ==
  ASSUME NEW S, IsFiniteSet(S), NEW x \in S
  PROVE  Cardinality(S) \in Nat \ {0}
  BY FS_EmptySet, FS_CardinalityType

(* While no worker is lost, a batch a task is working on has no message    *)
(* waiting and no other task.                                              *)
LEMMA AtMostOnce ==
  ASSUME TypeOK, CopiesInv, losses.work = 0, NEW b \in Batches, NEW w \in Held(b)
  PROVE  Ready(b) = {} /\ Held(b) = {w}
<1>1. /\ IsFiniteSet(Held(b)) /\ IsFiniteSet(Queued(b))
      /\ Cardinality(Held(b)) \in Nat /\ Cardinality(Queued(b)) \in Nat
      /\ Cardinality(Held(b)) + Cardinality(Queued(b)) <= 1
  BY CopiesFinite DEF CopiesInv, CopiesBounded
<1>2. Cardinality(Held(b)) # 0
  BY <1>1, AtLeastOne
<1>3. Cardinality(Held(b)) <= 1 /\ Cardinality(Queued(b)) = 0
  BY <1>1, <1>2
<1>4. Held(b) = {w}
  BY <1>1, <1>3, NoTwo
<1>5. Queued(b) = {}
  BY <1>1, <1>3, FS_EmptySet
<1>6. ASSUME NEW m \in Messages, m[1] = b, queue[m] > 0
      PROVE  FALSE
  <2>1. 1 \in Slots /\ queue[m] \in Nat
    BY BoundsAssumption DEF Slots, TypeOK
  <2>2. <<m, 1>> \in Queued(b)
    BY <1>6, <2>1 DEF Queued
  <2> QED
    BY <1>5, <2>2
<1> QED
  BY <1>4, <1>6 DEF Ready

\* A step of a worker that is not its loss makes no batch awaited again.
LEMMA WorkAwaited ==
  ASSUME TypeOK, NEW w \in Workers, WorkNext(w), ~WorkerLost(w), NEW b, Awaited(b)'
  PROVE  Awaited(b)
<1> USE DEF Go
<1>0. worker \in [Workers -> Worker] /\ queue \in [Messages -> Nat]
  BY DEF TypeOK
<1>1. \A v \in Workers : v # w => worker'[v] = worker[v]
  BY <1>0, WorkerFrame
<1>2. CASE Take(w)
  <2> PICK m \in Messages :
        /\ queue[m] > 0
        /\ queue' = [queue EXCEPT ![m] = @ - 1]
        /\ worker' = [worker EXCEPT ![w] = [pc |-> "start", b |-> m[1],
                                            r |-> m[2], verdict |-> "none"]]
    BY <1>2 DEF Take
  <2>1. \A n \in Messages : queue'[n] > 0 => queue[n] > 0
    BY <1>0
  <2>2. worker'[w].b = m[1]
    BY <1>0
  <2> QED
    BY <1>1, <2>1, <2>2 DEF Awaited, Ready
<1>3. CASE ~Take(w)
  <2>1. worker'[w].pc \in CountsPC => worker[w].pc \in CountsPC /\ worker'[w].b = worker[w].b
    <3>1. CASE Start(w) \/ Index(w) \/ IndexRaises(w) \/ MarkDone(w)
      BY <1>0, <3>1 DEF Start, Index, IndexRaises, Handlers, MarkDone, CountsPC, Worker
    <3>2. CASE IncrementProcessed(w) \/ WriteVerdict(w) \/ IncrementFailed(w)
      BY <1>0, <3>2 DEF IncrementProcessed, WriteVerdict, IncrementFailed, CountsPC, Worker
    <3>3. CASE ReadCounters(w)
      BY <1>0, <3>3 DEF ReadCounters, CountsPC, Worker
    <3>4. CASE MarkFailed(w) \/ IncrementRetry(w) \/ Republish(w) \/ GiveUp(w)
      BY <1>0, <3>4 DEF MarkFailed, IncrementRetry, Republish, GiveUp, CountsPC, Worker
    <3>5. CASE \/ Ack(w) \/ WorkerKilled(w) \/ StatementFails(w)
                \/ WrapperFails(w) \/ RepublishFails(w)
      BY <1>0, <3>5 DEF Ack, WorkerKilled, StatementFails, WrapperFails, RepublishFails, IdleWorker,
                        CountsPC, Worker
    <3> QED
      BY <1>3, <3>1, <3>2, <3>3, <3>4, <3>5 DEF WorkNext, WorkStep
  <2>2. Ready(b)' # {} => Awaited(b)
    <3>1. CASE queue' = queue
      BY <3>1 DEF Ready, Awaited
    <3>2. CASE Republish(w) /\ Put(NextTry(w))
      <4>1. worker[w].pc \in CountsPC
        BY <3>2 DEF Republish, CountsPC
      <4>2. \A n \in Messages : n[1] # worker[w].b => queue'[n] = queue[n]
        BY <1>0, <3>2, OwnMessages DEF Put
      <4> QED
        BY <4>1, <4>2 DEF Ready, Awaited
    <3> QED
      BY <1>3, <3>1, <3>2, WorkShape
  <2> QED
    BY <1>1, <2>1, <2>2 DEF Awaited
<1> QED
  BY <1>2, <1>3

\* Two statements of a worker write the counters, one writes the status.
LEMMA WorkJob ==
  ASSUME TypeOK, NEW w \in Workers, WorkNext(w)
  PROVE  job' = job \/ IncrementProcessed(w) \/ IncrementFailed(w) \/ WriteVerdict(w)
  BY DEF WorkNext, WorkStep, Take, Start, Index, IndexRaises, MarkDone, ReadCounters,
         MarkFailed, IncrementRetry, Republish, GiveUp, Ack, StatementFails,
         WrapperFails, RepublishFails, WorkerLost, WorkerKilled, rowVars

\* The orchestrator and the trigger write status and total, never a counter.
LEMMA OrchJob ==
  ASSUME TypeOK, OrchNext
  PROVE  /\ job'.processed = job.processed /\ job'.failed = job.failed
         /\ OrchTotals \/ job'.total = job.total
<1>1. job \in Job
  BY DEF TypeOK
<1>2. CASE TriggerCreate \/ TriggerPatch \/ OrchBegin \/ OrchTotals \/ OrchAbort
  BY <1>1, <1>2 DEF TriggerCreate, TriggerPatch, OrchBegin, OrchTotals, OrchAbort, Job
<1>3. CASE ~(TriggerCreate \/ TriggerPatch \/ OrchBegin \/ OrchTotals \/ OrchAbort)
  BY <1>3 DEF OrchNext, OrchStep, TriggerDispatch, OrchTake, OrchFetch, OrchFetchFails,
         OrchCreate, OrchCreateConflict, OrchDispatch, OrchReturn, OrchAck, OrchFault,
         OrchLost, OrchKilled, rowVars
<1> QED
  BY <1>2, <1>3

LEMMA BatchesFinite == IsFiniteSet(Batches)
  BY BoundsAssumption, FS_Interval DEF Batches

LEMMA PastFinite ==
  ASSUME TypeOK
  PROVE  /\ IsFiniteSet(Past) /\ IsFiniteSet(Past \cap indexed)
         /\ Cardinality(Past) \in Nat /\ Cardinality(Past \cap indexed) \in Nat
<1>1. Past \subseteq Batches /\ Past \cap indexed \subseteq Batches
  BY DEF Past, TypeOK
<1> QED
  BY <1>1, BatchesFinite, FS_Subset, FS_CardinalityType

\* A larger set that is finite has at least as many elements, and one more
\* when it holds something new.
LEMMA Grows ==
  ASSUME NEW S, NEW T, IsFiniteSet(T), S \subseteq T
  PROVE  /\ IsFiniteSet(S) /\ Cardinality(S) \in Nat /\ Cardinality(T) \in Nat
         /\ Cardinality(S) <= Cardinality(T)
         /\ \A x \in T : x \notin S => Cardinality(S) + 1 <= Cardinality(T)
<1>1. /\ IsFiniteSet(S) /\ Cardinality(S) \in Nat /\ Cardinality(T) \in Nat
      /\ Cardinality(S) <= Cardinality(T)
  BY FS_Subset, FS_CardinalityType
<1>2. ASSUME NEW x \in T, x \notin S
      PROVE  Cardinality(S) + 1 <= Cardinality(T)
  <2>1. IsFiniteSet(S \cup {x}) /\ Cardinality(S \cup {x}) = Cardinality(S) + 1
    BY <1>1, <1>2, FS_AddElement
  <2>2. S \cup {x} \subseteq T
    BY <1>2
  <2> QED
    BY <2>1, <2>2, FS_Subset
<1> QED
  BY <1>1, <1>2

\* A worker that counts its batch settles it: nobody else was to count it.
LEMMA CountSettles ==
  ASSUME TypeOK, CopiesInv, losses.work = 0, NEW w \in Workers,
         IncrementProcessed(w) \/ IncrementFailed(w)
  PROVE  worker[w].b \in Past' /\ worker[w].b \notin Past
<1> USE DEF Go
<1> PICK b \in Batches : b = worker[w].b
  BY OwnMessages
<1>1. worker[w].pc \in {"count", "incfail"}
  BY DEF IncrementProcessed, IncrementFailed
<1>2. w \in Held(b)
  BY <1>1 DEF Held, Holders
<1>3. Ready(b) = {} /\ Held(b) = {w}
  BY <1>1, <1>2, AtMostOnce
<1>4. b \notin Past
  BY <1>1 DEF Past, Awaited, CountsPC
<1>5. b \in published'
  <2>1. published' = published
    BY DEF IncrementProcessed, IncrementFailed, WorkUnchanged
  <2> QED
    BY <1>1, <1>2, <2>1 DEF CopiesInv, Unsent, Held
<1>6. ~Awaited(b)'
  <2>1. queue' = queue /\ worker' = [worker EXCEPT ![w].pc = worker'[w].pc]
        /\ worker'[w].pc \in {"read", "markfail"}
    BY DEF IncrementProcessed, IncrementFailed, TypeOK, Worker
  <2>2. \A v \in Workers : worker[v].b = b /\ worker[v].pc \in CountsPC => v = w
    BY <1>3 DEF Held, Holders, CountsPC
  <2> QED
    BY <1>3, <2>1, <2>2 DEF Awaited, Ready, CountsPC, TypeOK
<1> QED
  BY <1>4, <1>5, <1>6 DEF Past

(* Every increment of a counter is of a batch that is past afterwards and  *)
(* was not before, and processed counts only batches that are in Qdrant.   *)
LEMMA WorkCount ==
  ASSUME TypeOK, TypeOK', CopiesInv, DoneInv, CountInv, losses.work = 0, losses'.work = 0,
         NEW w \in Workers, WorkNext(w)
  PROVE  CountInv'
<1> DEFINE b == worker[w].b
<1>0. /\ job \in Job /\ worker \in [Workers -> Worker]
      /\ job.processed \in Nat /\ job.failed \in Nat
  BY DEF TypeOK, Job
<1>1. ~WorkerLost(w)
  BY DEF WorkerLost, TypeOK
<1>2. published' = published /\ indexed \subseteq indexed'
  <2>1. indexed \subseteq indexed'
    BY DEF WorkNext, WorkStep, Take, Start, Index, IndexRaises, MarkDone, IncrementProcessed,
         ReadCounters, WriteVerdict, IncrementFailed, MarkFailed, IncrementRetry, Republish,
         GiveUp, Ack, StatementFails, WrapperFails, RepublishFails, WorkerLost, WorkerKilled,
         resultVars
  <2> QED
    BY <2>1, WorkLeaves
<1>3. Past \subseteq Past'
  BY <1>1, <1>2, WorkAwaited DEF Past
<1>4. IsFiniteSet(Past') /\ IsFiniteSet((Past \cap indexed)')
  <2>1. Past' \subseteq Batches /\ (Past \cap indexed)' \subseteq Batches
    BY DEF Past, TypeOK
  <2> QED
    BY <2>1, BatchesFinite, FS_Subset
<1>5. Past \cap indexed \subseteq (Past \cap indexed)'
  BY <1>2, <1>3
<1>6. /\ Cardinality(Past) \in Nat /\ Cardinality(Past') \in Nat
      /\ Cardinality(Past) <= Cardinality(Past')
      /\ \A x \in Past' : x \notin Past => Cardinality(Past) + 1 <= Cardinality(Past')
  BY <1>3, <1>4, Grows
<1>7. /\ Cardinality(Past \cap indexed) \in Nat /\ Cardinality((Past \cap indexed)') \in Nat
      /\ Cardinality(Past \cap indexed) <= Cardinality((Past \cap indexed)')
      /\ \A x \in (Past \cap indexed)' : x \notin Past \cap indexed
            => Cardinality(Past \cap indexed) + 1 <= Cardinality((Past \cap indexed)')
  BY <1>4, <1>5, Grows
<1>8. /\ job'.processed + job'.failed <= Cardinality(Past')
      /\ job'.processed <= Cardinality((Past \cap indexed)')
  <2>1. CASE IncrementProcessed(w)
    <3>1. job'.processed = job.processed + 1 /\ job'.failed = job.failed
      BY <1>0, <2>1 DEF IncrementProcessed, Job
    <3>2. b \in Past' /\ b \notin Past
      BY <2>1, CountSettles
    <3>3. b \in indexed'
      BY <1>2, <2>1 DEF IncrementProcessed, CountInv
    <3>4. /\ Cardinality(Past) + 1 <= Cardinality(Past')
          /\ Cardinality(Past \cap indexed) + 1 <= Cardinality((Past \cap indexed)')
      BY <1>6, <1>7, <3>2, <3>3
    <3> QED
      BY <1>0, <1>6, <1>7, <3>1, <3>4 DEF CountInv
  <2>2. CASE IncrementFailed(w)
    <3>1. job'.processed = job.processed /\ job'.failed = job.failed + 1
      BY <1>0, <2>2 DEF IncrementFailed, Job
    <3>2. b \in Past' /\ b \notin Past
      BY <2>2, CountSettles
    <3>3. Cardinality(Past) + 1 <= Cardinality(Past')
      BY <1>6, <3>2
    <3> QED
      BY <1>0, <1>6, <1>7, <3>1, <3>3 DEF CountInv
  <2>3. CASE job' = job \/ WriteVerdict(w)
    <3>1. job'.processed = job.processed /\ job'.failed = job.failed
      BY <1>0, <2>3 DEF WriteVerdict, Job
    <3> QED
      BY <1>0, <1>6, <1>7, <3>1 DEF CountInv
  <2> QED
    BY <2>1, <2>2, <2>3, WorkJob
<1>9. \A v \in Workers : worker'[v].pc = "count" => worker'[v].b \in indexed'
  <2>1. \A v \in Workers : v # w => worker'[v] = worker[v]
    BY <1>0, WorkerFrame
  <2>2. worker'[w].pc = "count" => MarkDone(w) /\ worker[w].pc = "done" /\ worker'[w].b = b
    <3> USE DEF Go
    <3>1. CASE Take(w) \/ Start(w) \/ Index(w) \/ IndexRaises(w)
      BY <1>0, <3>1 DEF Take, Start, Index, IndexRaises, Handlers, Worker
    <3>2. CASE MarkDone(w)
      BY <1>0, <3>2 DEF MarkDone, Worker
    <3>3. CASE IncrementProcessed(w) \/ ReadCounters(w) \/ WriteVerdict(w) \/ IncrementFailed(w)
      BY <1>0, <3>3 DEF IncrementProcessed, ReadCounters, WriteVerdict, IncrementFailed, Worker
    <3>4. CASE MarkFailed(w) \/ IncrementRetry(w) \/ Republish(w) \/ GiveUp(w)
      BY <1>0, <3>4 DEF MarkFailed, IncrementRetry, Republish, GiveUp, Worker
    <3>5. CASE Ack(w) \/ WorkerKilled(w)
      BY <1>0, <3>5 DEF Ack, WorkerKilled, IdleWorker
    <3>6. CASE StatementFails(w) \/ WrapperFails(w) \/ RepublishFails(w)
      BY <1>0, <3>6 DEF StatementFails, WrapperFails, RepublishFails, Worker
    <3> QED
      BY <1>1, <3>1, <3>2, <3>3, <3>4, <3>5, <3>6 DEF WorkNext, WorkStep
  <2>3. worker[w].pc = "done" => b \in indexed
    BY DEF DoneInv
  <2> QED
    BY <1>2, <2>1, <2>2, <2>3 DEF CountInv
<1> QED
  BY <1>8, <1>9 DEF CountInv

(* The orchestrator dispatches only batches that are not past.             *)
LEMMA OrchCount ==
  ASSUME TypeOK, TypeOK', CopiesInv, CountInv, OrchNext
  PROVE  CountInv'
<1>0. job.processed \in Nat /\ job.failed \in Nat
  BY DEF TypeOK, Job
<1>1. /\ UNCHANGED <<worker, indexed>> /\ published \subseteq published'
      /\ \A b \in published : Ready(b)' = Ready(b)
  <2>1. CASE OrchDispatch
    <3>1. orch.i \notin published
      BY <2>1 DEF OrchDispatch, CopiesInv, Unsent
    <3>2. \A m \in Messages : m[1] # orch.i => queue'[m] = queue[m]
      BY <2>1 DEF OrchDispatch, Put, TypeOK
    <3> QED
      BY <2>1, <3>1, <3>2, OrchLeaves DEF OrchDispatch, Ready
  <2>2. CASE ~OrchDispatch
    BY <2>2, OrchLeaves DEF Ready
  <2> QED
    BY <2>1, <2>2
<1>2. Past \subseteq Past' /\ Past \cap indexed \subseteq (Past \cap indexed)'
  BY <1>1 DEF Past, Awaited
<1>3. IsFiniteSet(Past') /\ IsFiniteSet((Past \cap indexed)')
  <2>1. Past' \subseteq Batches /\ (Past \cap indexed)' \subseteq Batches
    BY DEF Past, TypeOK
  <2> QED
    BY <2>1, BatchesFinite, FS_Subset
<1>4. /\ Cardinality(Past) \in Nat /\ Cardinality(Past') \in Nat
      /\ Cardinality(Past) <= Cardinality(Past')
  BY <1>2, <1>3, Grows
<1>5. /\ Cardinality(Past \cap indexed) \in Nat /\ Cardinality((Past \cap indexed)') \in Nat
      /\ Cardinality(Past \cap indexed) <= Cardinality((Past \cap indexed)')
  BY <1>2, <1>3, Grows
<1>6. job'.processed = job.processed /\ job'.failed = job.failed
  BY OrchJob
<1> QED
  BY <1>0, <1>1, <1>4, <1>5, <1>6 DEF CountInv

-----------------------------------------------------------------------------
(* One orchestrator, as long as no orchestrator is lost                    *)

Fresh == published = {} /\ job.total = 0

OneOrchestrator ==
    /\ orchQueue > 0 => orchQueue = 1 /\ orch.pc = "idle"
    /\ api \in {"start", "created"} => orchQueue = 0 /\ orch.pc = "idle"
    /\ (\/ api \in {"start", "created"} \/ orchQueue > 0
        \/ orch.pc \in {"begin", "fetch", "totals"}) => Fresh
    /\ orch.pc \in {"create", "dispatch"} =>
          job.total = orch.n /\ \A b \in published : b < orch.i
    /\ published \subseteq Planned
    /\ orch.pc = "abort" => Planned = {} \/ ~(Planned \subseteq published)

\* A worker never writes the plan.
LEMMA WorkPlan ==
  ASSUME TypeOK, NEW w \in Workers, WorkNext(w)
  PROVE  job'.total = job.total
<1>1. CASE IncrementProcessed(w) \/ IncrementFailed(w) \/ WriteVerdict(w)
  BY <1>1 DEF IncrementProcessed, IncrementFailed, WriteVerdict, TypeOK, Job
<1> QED
  BY <1>1, WorkJob

(* The one message of the reindex queue starts the one orchestrator, which  *)
(* plans once, dispatches in order, and gives up only with a batch left.    *)
LEMMA OrchOnce ==
  ASSUME TypeOK, LoopOK, CopiesInv, OneOrchestrator, OrchNext, losses'.orch = 0
  PROVE  OneOrchestrator'
<1> USE DEF OneOrchestrator, orchVars, workVars, rowVars, OrchGo
<1>0. /\ orch \in Orch /\ orchQueue \in Nat /\ job \in Job /\ published \subseteq Batches
      /\ orch.n \in 0 .. MaxBatches /\ orch.i \in 0 .. MaxBatches /\ losses.orch \in Nat
  BY DEF TypeOK, Orch
<1>1. CASE TriggerCreate \/ TriggerPatch
  <2>1. /\ UNCHANGED <<orchQueue, orch, published>> /\ job'.total = job.total
        /\ api' \in {"start", "created"} => api \in {"start", "created"}
    BY <1>0, <1>1 DEF TriggerCreate, TriggerPatch, Job
  <2>2. Planned' = Planned
    BY <2>1 DEF Planned
  <2> QED
    BY <2>1, <2>2 DEF Fresh
<1>2. CASE TriggerDispatch
  BY <1>0, <1>2 DEF TriggerDispatch, Fresh, Planned
<1>3. CASE OrchTake
  BY <1>0, <1>3 DEF OrchTake, Fresh, Planned, Orch
<1>4. CASE OrchBegin
  BY <1>0, <1>4 DEF OrchBegin, Fresh, Planned, Orch, Job
<1>5. CASE OrchFetch
  BY <1>0, <1>5 DEF OrchFetch, Fresh, Planned, Orch
<1>6. CASE OrchFetchFails
  <2>1. Planned = {}
    BY <1>6 DEF OrchFetchFails, Fresh, Planned, Batches
  <2> QED
    BY <1>0, <1>6, <2>1 DEF OrchFetchFails, Fresh, Planned, Orch
<1>7. CASE OrchTotals
  <2>1. /\ orch' = [orch EXCEPT !.pc = "create", !.i = 0]
        /\ job' = [job EXCEPT !.status = "processing", !.total = orch.n]
        /\ UNCHANGED <<api, orchQueue, published>> /\ orch.pc = "totals"
    BY <1>7 DEF OrchTotals
  <2>2. /\ orch'.pc = "create" /\ orch'.n = orch.n /\ job'.total = orch.n
    BY <1>0, <2>1 DEF Orch, Job
  <2>3. published = {} /\ orchQueue = 0 /\ api \notin {"start", "created"}
    BY <1>0, <2>1 DEF Fresh
  <2> QED
    BY <2>1, <2>2, <2>3
<1>8. CASE OrchCreate
  BY <1>0, <1>8 DEF OrchCreate, Fresh, Planned, Orch
<1>9. CASE OrchCreateConflict
  <2>1. orch.i \in Planned /\ orch.i \notin published
    BY <1>0, <1>9, BoundsAssumption DEF OrchCreateConflict, Planned, Batches
  <2> QED
    BY <1>0, <1>9, <2>1 DEF OrchCreateConflict, Fresh, Planned, Orch
<1>10. CASE OrchDispatch
  <2>1. /\ orch' = [orch EXCEPT !.pc = "create", !.i = @ + 1]
        /\ published' = published \cup {orch.i}
        /\ UNCHANGED <<api, orchQueue, job>> /\ orch.pc = "dispatch"
    BY <1>10 DEF OrchDispatch
  <2>2. orch'.pc = "create" /\ orch'.n = orch.n /\ orch'.i = orch.i + 1
    BY <1>0, <2>1 DEF Orch
  <2>3. orch.i \in Planned
    BY <1>0, <2>1, LoopIndex DEF Planned, LoopOK
  <2>4. \A b \in published' : b < orch.i + 1
    BY <1>0, <2>1, <2>3 DEF Batches
  <2>5. Planned' = Planned
    BY <2>1 DEF Planned
  <2> QED
    BY <2>1, <2>2, <2>3, <2>4, <2>5
<1>11. CASE OrchReturn
  BY <1>0, <1>11 DEF OrchReturn, Fresh, Planned, Orch
<1>12. CASE OrchAbort
  BY <1>0, <1>12 DEF OrchAbort, Fresh, Planned, Orch, Job
<1>13. CASE OrchAck \/ OrchKilled
  BY <1>0, <1>13 DEF OrchAck, OrchKilled, IdleOrch, Fresh, Planned, Orch
<1>14. CASE OrchFault
  <2>1. /\ orch' = [orch EXCEPT !.pc = IF orch.pc = "abort" THEN "ack" ELSE "abort"]
        /\ UNCHANGED <<api, orchQueue, job, published>>
        /\ orch.pc \in {"begin", "totals", "create", "dispatch", "abort"}
        /\ orch.pc = "create" => orch.i < orch.n
    BY <1>14 DEF OrchFault
  <2>2. Planned' = Planned
    BY <2>1 DEF Planned
  <2>3. orch.pc \in {"begin", "totals"} => Planned = {}
    BY DEF Fresh, Planned, Batches
  <2>4. orch.pc \in {"create", "dispatch"} => orch.i \in Planned /\ orch.i \notin published
    BY <1>0, <2>1, BoundsAssumption DEF Planned, Batches, LoopOK
  <2>5. orch'.pc \in {"ack", "abort"} /\ (orch'.pc = "abort" => orch.pc # "abort")
    BY <1>0, <2>1 DEF Orch
  <2> QED
    BY <1>0, <2>1, <2>2, <2>3, <2>4, <2>5 DEF Fresh
<1>15. CASE OrchLost
  BY <1>0, <1>15 DEF OrchLost, TypeOK
<1> QED
  BY <1>1, <1>2, <1>3, <1>4, <1>5, <1>6, <1>7, <1>8, <1>9, <1>10, <1>11, <1>12, <1>13, <1>14,
     <1>15 DEF OrchNext, OrchStep

LEMMA WorkOnce ==
  ASSUME TypeOK, OneOrchestrator, NEW w \in Workers, WorkNext(w)
  PROVE  OneOrchestrator'
<1>1. UNCHANGED <<api, orchQueue, orch, published>> /\ job'.total = job.total
  BY WorkLeaves, WorkPlan
<1>2. Planned' = Planned
  BY <1>1 DEF Planned
<1> QED
  BY <1>1, <1>2 DEF OneOrchestrator, Fresh

\* The plan has as many batches as the job row says.
LEMMA PlanSize ==
  ASSUME TypeOK
  PROVE  IsFiniteSet(Planned) /\ Cardinality(Planned) = job.total /\ job.total \in Nat
<1>1. job.total \in 0 .. MaxBatches
  BY DEF TypeOK, Job
<1>2. Planned = 0 .. (job.total - 1)
  BY <1>1, BoundsAssumption DEF Planned, Batches
<1> DEFINE top == job.total - 1
<1>3. job.total \in Nat /\ top \in Int /\ 0 \in Int
  BY <1>1, BoundsAssumption
<1>4. IsFiniteSet(0 .. top) /\ Cardinality(0 .. top) = IF 0 > top THEN 0 ELSE top - 0 + 1
  <2> HIDE DEF top
  <2> QED
    BY <1>3, FS_Interval
<1> QED
  BY <1>2, <1>3, <1>4

(* The counters never exceed the plan; when they reach it every batch is   *)
(* dispatched and past, and if none was counted failed, all are in Qdrant. *)
LEMMA CountersWithinPlan ==
  ASSUME TypeOK, CountInv, OneOrchestrator
  PROVE  /\ job.processed + job.failed <= job.total
         /\ job.processed + job.failed >= job.total => Planned \subseteq published
         /\ job.processed >= job.total => Planned \subseteq indexed
<1>0. /\ job.processed \in Nat /\ job.failed \in Nat
      /\ job.processed + job.failed <= Cardinality(Past)
      /\ job.processed <= Cardinality(Past \cap indexed)
  BY DEF TypeOK, Job, CountInv
<1>1. Past \subseteq Planned /\ Past \subseteq published
  BY DEF Past, OneOrchestrator
<1>2. IsFiniteSet(Planned) /\ Cardinality(Planned) = job.total /\ job.total \in Nat
  BY PlanSize
<1>3. /\ Cardinality(Past) \in Nat /\ Cardinality(Past) <= job.total
      /\ Cardinality(Past) = job.total => Past = Planned
  BY <1>1, <1>2, PastFinite, FS_Subset
<1>4. /\ Cardinality(Past \cap indexed) \in Nat /\ Cardinality(Past \cap indexed) <= job.total
      /\ Cardinality(Past \cap indexed) = job.total => Past \cap indexed = Planned
  <2>1. Past \cap indexed \in SUBSET Planned
    BY <1>1
  <2> QED
    BY <1>2, <2>1, PastFinite, FS_Subset
<1>5. job.processed + job.failed >= job.total => Past = Planned
  BY <1>0, <1>2, <1>3
<1>6. job.processed >= job.total => Past \cap indexed = Planned
  BY <1>0, <1>2, <1>4
<1> QED
  BY <1>0, <1>1, <1>2, <1>3, <1>5, <1>6

-----------------------------------------------------------------------------
(* The verdict, as long as no process is lost                              *)

Concluded(v) == /\ job.total > 0 /\ job.processed + job.failed = job.total
                /\ v = IF job.failed = 0 THEN "completed" ELSE "partial_failed"

StatusInv ==
    /\ api = "start" <=> job.status = "none"
    /\ (api = "created" \/ orchQueue > 0 \/ orch.pc = "begin") => job.status = "pending"
    /\ orch.pc \in {"fetch", "totals", "dispatch"} => job.status = "processing"
    /\ orch.pc = "create" => job.status \in Verdicts \cup {"processing"}
    /\ orch.pc = "abort" => job.status \in {"pending", "processing"}
    /\ job.total > 0 => job.status \notin {"none", "pending"}
    /\ job.status = "failed" => /\ orch.pc \in {"idle", "ack"}
                                /\ Planned = {} \/ ~(Planned \subseteq published)
    /\ job.status \in Verdicts => Concluded(job.status)
    /\ \A w \in Workers : worker[w].pc = "final" => Concluded(worker[w].verdict)

\* A concluded job is completed only with the whole plan in Qdrant.
LEMMA ConcludedIndexed ==
  ASSUME TypeOK, CountInv, OneOrchestrator, Concluded("completed")
  PROVE  Planned # {} /\ Planned \subseteq indexed
<1>1. job.total \in 1 .. MaxBatches /\ job.failed \in Nat /\ job.processed \in Nat
  BY DEF TypeOK, Job, Concluded
<1>2. 0 \in Planned
  BY <1>1, BoundsAssumption DEF Planned, Batches
<1>3. job.failed = 0
  BY DEF Concluded
<1>4. job.processed >= job.total
  BY <1>1, <1>3 DEF Concluded
<1> QED
  BY <1>2, <1>4, CountersWithinPlan

\* When all is counted the orchestrator has dispatched all and is through.
LEMMA ConcludedLate ==
  ASSUME TypeOK, LoopOK, CopiesInv, CountInv, OneOrchestrator, StatusInv, NEW v, Concluded(v)
  PROVE  /\ orchQueue = 0 /\ api \notin {"start", "created"}
         /\ orch.pc \in {"idle", "ack", "create"}
         /\ orch.pc = "create" => orch.i >= orch.n
         /\ job.status \in Verdicts \cup {"processing"}
<1>0. /\ job \in Job /\ orch \in Orch /\ orchQueue \in Nat /\ orch.i \in Nat /\ orch.n \in Nat
      /\ job.total \in 1 .. MaxBatches
  BY BoundsAssumption DEF TypeOK, Job, Orch, Concluded
<1>1. ~Fresh /\ Planned # {} /\ Planned \subseteq published
  <2>1. 0 \in Planned
    BY <1>0, BoundsAssumption DEF Planned, Batches
  <2>2. job.processed + job.failed >= job.total
    BY <1>0 DEF Concluded
  <2> QED
    BY <1>0, <2>1, <2>2, CountersWithinPlan DEF Fresh
<1>2. orch.pc # "dispatch"
  <2>1. orch.pc = "dispatch" => orch.i \in Planned /\ orch.i \notin published
    BY <1>0, LoopIndex DEF OneOrchestrator, Planned, LoopOK, CopiesInv, Unsent
  <2> QED
    BY <1>1, <2>1
<1>3. orch.pc = "create" => orch.i >= orch.n
  <2> SUFFICES ASSUME orch.pc = "create", orch.i < orch.n
               PROVE  FALSE
    BY <1>0
  <2>1. orch.i \in Planned /\ orch.i \notin published
    BY <1>0, BoundsAssumption DEF OneOrchestrator, Planned, Batches
  <2> QED
    BY <1>1, <2>1
<1>4. orchQueue = 0 /\ api \notin {"start", "created"} /\ orch.pc \notin {"begin", "fetch", "totals"}
  BY <1>0, <1>1 DEF OneOrchestrator
<1>5. orch.pc # "abort"
  BY <1>1 DEF OneOrchestrator
<1>6. orch.pc \in {"idle", "ack", "create"}
  BY <1>0, <1>2, <1>4, <1>5 DEF Orch, OrchPC
<1>7. job.status \in Verdicts \cup {"processing"}
  BY <1>0, <1>1 DEF StatusInv, Job, JobStatus, Verdicts
<1> QED
  BY <1>3, <1>4, <1>6, <1>7

\* An increment finds room below the total: its own batch was not past.
LEMMA CountHasRoom ==
  ASSUME TypeOK, TypeOK', OneOrchestrator, CountInv', NEW w \in Workers,
         IncrementProcessed(w) \/ IncrementFailed(w)
  PROVE  job.processed + job.failed < job.total
<1>0. /\ job \in Job /\ job.processed \in Nat /\ job.failed \in Nat
      /\ job'.processed \in Nat /\ job'.failed \in Nat
  BY DEF TypeOK, Job
<1>1. published' = published /\ Past' \subseteq published'
  BY DEF IncrementProcessed, IncrementFailed, WorkUnchanged, Past
<1>2. Past' \subseteq Planned
  BY <1>1 DEF OneOrchestrator
<1>3. Cardinality(Past') <= job.total /\ Cardinality(Past') \in Nat /\ job.total \in Nat
  BY <1>2, PlanSize, FS_Subset, FS_CardinalityType
<1>4. job'.processed + job'.failed = job.processed + job.failed + 1
  BY <1>0 DEF IncrementProcessed, IncrementFailed, Job
<1> QED
  BY <1>0, <1>3, <1>4 DEF CountInv

(* A worker writes a verdict only when all is counted, and an increment     *)
(* finds the job neither concluded nor about to be.                         *)
LEMMA WorkStatus ==
  ASSUME TypeOK, TypeOK', LoopOK, CopiesInv, CountInv, CountInv', OneOrchestrator,
         OneOrchestrator', StatusInv, NEW w \in Workers, WorkNext(w)
  PROVE  StatusInv'
<1> USE DEF Go
<1>0. /\ worker \in [Workers -> Worker] /\ job \in Job
      /\ job.total \in Nat /\ job.processed \in Nat /\ job.failed \in Nat
  BY BoundsAssumption DEF TypeOK, Job
<1>1. UNCHANGED <<api, orchQueue, orch, published>> /\ job'.total = job.total
  BY WorkLeaves, WorkPlan
<1>2. Planned' = Planned
  BY <1>1 DEF Planned
<1>3. \A v \in Workers : v # w => worker'[v] = worker[v]
  BY <1>0, WorkerFrame
<1>4. CASE IncrementProcessed(w) \/ IncrementFailed(w)
  <2>1. /\ job'.status = job.status
        /\ job'.processed + job'.failed = job.processed + job.failed + 1
    BY <1>0, <1>4 DEF IncrementProcessed, IncrementFailed, Job
  <2>2. job.processed + job.failed < job.total
    BY <1>4, CountHasRoom
  <2>3. \A v : ~Concluded(v)
    BY <1>0, <2>2 DEF Concluded
  <2>4. worker'[w].pc # "final"
    BY <1>0, <1>4 DEF IncrementProcessed, IncrementFailed, Worker
  <2>5. job'.status \notin Verdicts
    BY <2>1, <2>3 DEF StatusInv
  <2>6. \A v \in Workers : worker'[v].pc # "final"
    BY <1>3, <2>3, <2>4 DEF StatusInv
  <2> QED
    BY <1>1, <1>2, <2>1, <2>5, <2>6 DEF StatusInv
<1>5. CASE WriteVerdict(w)
  <2>1. worker[w].pc = "final" /\ job' = [job EXCEPT !.status = worker[w].verdict]
    BY <1>5 DEF WriteVerdict
  <2>2. Concluded(worker[w].verdict)
    BY <2>1 DEF StatusInv
  <2>3. worker[w].verdict \in Verdicts
    BY <2>2 DEF Concluded, Verdicts
  <2>4. /\ job'.status = worker[w].verdict
        /\ job'.processed = job.processed /\ job'.failed = job.failed
    BY <1>0, <2>1 DEF Job
  <2>5. \A v : Concluded(v)' <=> Concluded(v)
    BY <1>1, <2>4 DEF Concluded
  <2>6. /\ orchQueue = 0 /\ api \notin {"start", "created"}
        /\ orch.pc \in {"idle", "ack", "create"}
    BY <2>2, ConcludedLate
  <2>7. \A v \in Workers : worker'[v].pc = "final" => Concluded(worker'[v].verdict)
    <3>1. worker'[w].pc = "ack"
      BY <1>0, <1>5 DEF WriteVerdict, Worker
    <3> QED
      BY <1>3, <3>1 DEF StatusInv
  <2>8. job'.status \in Verdicts /\ Concluded(job'.status)
    BY <2>2, <2>3, <2>4
  <2>9. (\A v \in Workers : worker[v].pc = "final" => Concluded(worker[v].verdict))'
    BY <1>1, <2>4, <2>7 DEF Concluded
  <2>10. Concluded(job.status)'
    BY <1>1, <2>4, <2>8 DEF Concluded
  <2> QED
    BY <1>1, <2>6, <2>8, <2>9, <2>10 DEF StatusInv, Verdicts
<1>6. CASE job' = job
  <2>1. \A v \in Workers : worker'[v].pc = "final" => Concluded(worker'[v].verdict)
    <3>1. worker'[w].pc = "final" => Concluded(worker'[w].verdict)
      <4>1. CASE ReadCounters(w)
        <5>1. job.processed + job.failed <= job.total
          BY CountersWithinPlan
        <5> QED
          BY <1>0, <4>1, <5>1 DEF ReadCounters, AllCounted, Concluded, Worker
      <4>2. CASE Take(w) \/ Start(w) \/ Index(w) \/ IndexRaises(w) \/ MarkDone(w)
        BY <1>0, <4>2 DEF Take, Start, Index, IndexRaises, Handlers, MarkDone, Worker
      <4>3. CASE MarkFailed(w) \/ IncrementRetry(w) \/ Republish(w) \/ GiveUp(w)
        BY <1>0, <4>3 DEF MarkFailed, IncrementRetry, Republish, GiveUp, Worker
      <4>4. CASE Ack(w) \/ WorkerKilled(w) \/ WorkerLost(w)
        BY <1>0, <4>4 DEF Ack, WorkerKilled, WorkerLost, IdleWorker
      <4>5. CASE StatementFails(w) \/ WrapperFails(w) \/ RepublishFails(w)
        BY <1>0, <4>5 DEF StatementFails, WrapperFails, RepublishFails, Worker
      <4>6. CASE IncrementProcessed(w) \/ IncrementFailed(w) \/ WriteVerdict(w)
        BY <1>4, <1>5, <4>6 DEF IncrementProcessed, IncrementFailed, WriteVerdict, TypeOK, Worker
      <4> QED
        BY <4>1, <4>2, <4>3, <4>4, <4>5, <4>6 DEF WorkNext, WorkStep
    <3> QED
      BY <1>3, <3>1 DEF StatusInv
  <2>2. (\A v \in Workers : worker[v].pc = "final" => Concluded(worker[v].verdict))'
    BY <1>6, <2>1 DEF Concluded
  <2>3. job.status \in Verdicts => Concluded(job.status)'
    BY <1>6 DEF StatusInv, Concluded
  <2> QED
    BY <1>1, <1>2, <1>6, <2>2, <2>3 DEF StatusInv
<1> QED
  BY <1>4, <1>5, <1>6, WorkJob

(* The orchestrator plans before anything is counted and gives up only     *)
(* while the job is open.                                                  *)
LEMMA OrchStatus ==
  ASSUME TypeOK, LoopOK, CopiesInv, CountInv, OneOrchestrator, StatusInv, OrchNext,
         losses'.orch = 0
  PROVE  StatusInv'
<1> USE DEF orchVars, workVars, rowVars, OrchGo
<1>0. /\ orch \in Orch /\ orchQueue \in Nat /\ job \in Job /\ losses.orch \in Nat
      /\ api \in {"start", "created", "dispatched", "patched"}
      /\ job.total \in Nat
  BY BoundsAssumption DEF TypeOK, Job
<1>1. /\ job'.processed = job.processed /\ job'.failed = job.failed
      /\ OrchTotals \/ job'.total = job.total
      /\ worker' = worker
  BY OrchJob, OrchLeaves
<1> DEFINE Finals == \A w \in Workers : worker[w].pc = "final" => Concluded(worker[w].verdict)
<1>2. /\ OrchTotals => \A v : ~Concluded(v)
      /\ ~OrchTotals => \A v : Concluded(v)' <=> Concluded(v)
  <2>1. OrchTotals => job.total = 0
    BY DEF OrchTotals, OneOrchestrator, Fresh
  <2> QED
    BY <1>1, <2>1 DEF Concluded
<1>3. Finals'
  BY <1>1, <1>2 DEF StatusInv
<1>4. OrchDispatch \/ published' = published
  BY OrchLeaves
<1>5. CASE ~(\/ TriggerCreate \/ TriggerPatch \/ OrchBegin \/ OrchTotals \/ OrchAbort
             \/ OrchDispatch)
  <2>0. job' = job /\ published' = published
    BY <1>4, <1>5
    DEF OrchNext, OrchStep, TriggerDispatch, OrchTake, OrchFetch, OrchFetchFails, OrchCreate,
        OrchCreateConflict, OrchReturn, OrchAck, OrchFault, OrchLost, OrchKilled
  <2>1. Planned' = Planned
    BY <2>0 DEF Planned
  <2>2. job.status \in Verdicts => Concluded(job.status)'
    BY <1>2, <2>0 DEF StatusInv, Concluded
  <2>3. CASE TriggerDispatch
    BY <1>0, <1>3, <2>0, <2>1, <2>2, <2>3 DEF TriggerDispatch, StatusInv
  <2>4. CASE OrchTake
    BY <1>0, <1>3, <2>0, <2>1, <2>2, <2>4 DEF OrchTake, StatusInv, OneOrchestrator, Orch
  <2>5. CASE OrchFetch \/ OrchFetchFails
    BY <1>0, <1>3, <2>0, <2>1, <2>2, <2>5 DEF OrchFetch, OrchFetchFails, StatusInv, Orch
  <2>6. CASE (OrchCreate \/ OrchCreateConflict \/ (OrchFault /\ orch.pc = "create"))
    <3>1. orch.pc = "create" /\ orch.i < orch.n
      BY <2>6 DEF OrchCreate, OrchCreateConflict, OrchFault
    <3>2. \A v : ~Concluded(v)
      <4>1. orch.i \in Nat /\ orch.n \in Nat
        BY <1>0 DEF Orch
      <4> QED
        BY <3>1, <4>1, ConcludedLate
    <3>3. job.status = "processing"
      BY <3>1, <3>2 DEF StatusInv
    <3>4. /\ orch' = [orch EXCEPT !.pc = orch'.pc] /\ orch'.pc \in {"dispatch", "abort"}
          /\ UNCHANGED <<api, orchQueue>>
      BY <1>0, <2>6 DEF OrchCreate, OrchCreateConflict, OrchFault, Orch
    <3> QED
      BY <1>0, <1>3, <2>0, <2>1, <2>2, <3>1, <3>3, <3>4 DEF StatusInv, Verdicts
  <2>7. CASE OrchReturn \/ OrchAck
    BY <1>0, <1>3, <2>0, <2>1, <2>2, <2>7 DEF OrchReturn, OrchAck, IdleOrch, StatusInv, Orch
  <2>8. CASE OrchFault /\ orch.pc # "create"
    BY <1>0, <1>3, <2>0, <2>1, <2>2, <2>8 DEF OrchFault, StatusInv, Orch
  <2>9. CASE OrchKilled
    BY <1>0, <1>3, <2>0, <2>1, <2>2, <2>9 DEF OrchKilled, IdleOrch, StatusInv, Orch
  <2>10. CASE OrchLost
    BY <1>0, <2>10 DEF OrchLost, TypeOK
  <2> QED
    BY <1>5, <2>3, <2>4, <2>5, <2>6, <2>7, <2>8, <2>9, <2>10 DEF OrchNext, OrchStep
<1>6. CASE OrchDispatch
  <2>1. /\ orch' = [orch EXCEPT !.pc = "create", !.i = @ + 1]
        /\ UNCHANGED <<api, orchQueue, job>> /\ orch.pc = "dispatch"
    BY <1>6 DEF OrchDispatch
  <2>2. orch'.pc = "create"
    BY <1>0, <2>1 DEF Orch
  <2> QED
    BY <1>0, <1>3, <2>1, <2>2 DEF StatusInv, Verdicts
<1>7. CASE TriggerCreate
  <2>1. /\ api' = "created" /\ job'.status = "pending" /\ job'.total = job.total
        /\ UNCHANGED <<orchQueue, orch, published>> /\ api = "start"
    BY <1>0, <1>7 DEF TriggerCreate, Job
  <2>2. orchQueue = 0 /\ orch.pc = "idle" /\ job.total = 0
    BY <2>1 DEF OneOrchestrator, Fresh
  <2> QED
    BY <1>3, <2>1, <2>2 DEF StatusInv, Verdicts
<1>8. CASE TriggerPatch
  <2>1. /\ api' = "patched" /\ job'.status = job.status /\ job'.total = job.total
        /\ UNCHANGED <<orchQueue, orch, published>> /\ api = "dispatched" /\ ~OrchTotals
    BY <1>0, <1>8 DEF TriggerPatch, OrchTotals, Job
  <2>2. Planned' = Planned
    BY <2>1 DEF Planned
  <2>3. job.status \in Verdicts => Concluded(job.status)'
    BY <1>1, <2>1 DEF StatusInv, Concluded
  <2> QED
    BY <1>3, <2>1, <2>2, <2>3 DEF StatusInv
<1>9. CASE OrchBegin
  <2>1. /\ orch'.pc = "fetch" /\ job'.status = "processing" /\ job'.total = job.total
        /\ UNCHANGED <<orchQueue, api, published>> /\ orch.pc = "begin"
    BY <1>0, <1>9 DEF OrchBegin, Orch, Job
  <2> QED
    BY <1>0, <1>3, <2>1 DEF StatusInv, OneOrchestrator, Verdicts
<1>10. CASE OrchTotals
  <2>1. /\ orch'.pc = "create" /\ job'.status = "processing"
        /\ UNCHANGED <<orchQueue, api, published>> /\ orch.pc = "totals"
    BY <1>0, <1>10 DEF OrchTotals, Orch, Job
  <2> QED
    BY <1>0, <1>3, <2>1 DEF StatusInv, OneOrchestrator, Verdicts
<1>11. CASE OrchAbort
  <2>1. /\ orch'.pc = "ack" /\ job'.status = "failed" /\ job'.total = job.total
        /\ UNCHANGED <<orchQueue, api, published>> /\ orch.pc = "abort"
    BY <1>0, <1>11 DEF OrchAbort, Orch, Job
  <2>2. Planned' = Planned
    BY <2>1 DEF Planned
  <2> QED
    BY <1>0, <1>3, <2>1, <2>2 DEF StatusInv, OneOrchestrator, Verdicts
<1> QED
  BY <1>5, <1>6, <1>7, <1>8, <1>9, <1>10, <1>11

(* Everything together is inductive. *)
JobInv == /\ DoneInv /\ RowsExist /\ CopiesInv
          /\ NothingLost => OneOrchestrator /\ CountInv /\ StatusInv

\* What was lost stays lost.
LEMMA LossesStay ==
  ASSUME TypeOK, [Next]_vars, NothingLost'
  PROVE  NothingLost
<1>1. CASE OrchNext
  BY <1>1, OrchLeaves DEF NothingLost, TypeOK
<1>2. ASSUME NEW w \in Workers, WorkNext(w)
      PROVE  NothingLost
  BY <1>2, WorkLeaves DEF NothingLost, TypeOK
<1>3. CASE UNCHANGED vars
  BY <1>3 DEF vars, NothingLost
<1> QED
  BY <1>1, <1>2, <1>3 DEF Next, OrchNext, WorkNext

LEMMA JobInit == Init => JobInv
<1> SUFFICES ASSUME Init
             PROVE  JobInv
  OBVIOUS
<1>1. DoneInv /\ RowsExist /\ CopiesInv
  BY CopiesInit DEF Init, DoneInv, DoneMeansIndexed, RowsExist, IdleWorker, IdleOrch
<1>2. Past = {} /\ Past \cap indexed = {}
  BY DEF Init, Past
<1>3. CountInv
  BY <1>2, FS_EmptySet DEF Init, CountInv, IdleWorker
<1>4. OneOrchestrator /\ StatusInv
  BY DEF Init, OneOrchestrator, StatusInv, Fresh, Planned, IdleOrch, IdleWorker, Verdicts
<1> QED
  BY <1>1, <1>3, <1>4 DEF JobInv

LEMMA JobStep ==
  ASSUME TypeOK, TypeOK', LoopOK, JobInv, [Next]_vars
  PROVE  JobInv'
<1>1. DoneInv'
  <2>1. CASE OrchNext
    BY <2>1, OrchDoneInv DEF JobInv
  <2>2. ASSUME NEW w \in Workers, WorkNext(w)
        PROVE  DoneInv'
    BY <2>2, WorkDoneInv DEF JobInv
  <2>3. CASE UNCHANGED vars
    BY <2>3 DEF vars, JobInv, DoneInv, DoneMeansIndexed
  <2> QED
    BY <2>1, <2>2, <2>3 DEF Next, OrchNext, WorkNext
<1>2. RowsExist' /\ CopiesInv'
  BY RowsExistInv, CopiesStep DEF JobInv
<1>3. ASSUME NothingLost'
      PROVE  OneOrchestrator' /\ CountInv' /\ StatusInv'
  <2>1. OneOrchestrator /\ CountInv /\ StatusInv /\ losses.work = 0
    BY <1>3, LossesStay DEF JobInv, NothingLost
  <2>2. losses'.orch = 0 /\ losses'.work = 0
    BY <1>3 DEF NothingLost
  <2>3. CASE OrchNext
    BY <2>1, <2>2, <2>3, OrchOnce, OrchCount, OrchStatus DEF JobInv
  <2>4. ASSUME NEW w \in Workers, WorkNext(w)
        PROVE  OneOrchestrator' /\ CountInv' /\ StatusInv'
    <3>1. OneOrchestrator' /\ CountInv'
      BY <2>1, <2>2, <2>4, WorkOnce, WorkCount DEF JobInv
    <3>2. StatusInv'
      BY <2>1, <2>4, <3>1, WorkStatus DEF JobInv
    <3> QED
      BY <3>1, <3>2
  <2>5. CASE UNCHANGED vars
    <3>1. Past' = Past /\ indexed' = indexed /\ Planned' = Planned
      BY <2>5 DEF vars, Past, Awaited, Ready, Planned
    <3>2. CountInv'
      BY <2>1, <2>5, <3>1 DEF vars, CountInv
    <3>3. OneOrchestrator' /\ StatusInv'
      BY <2>1, <2>5, <3>1 DEF vars, OneOrchestrator, StatusInv, Fresh, Concluded
    <3> QED
      BY <3>2, <3>3
  <2> QED
    BY <2>3, <2>4, <2>5 DEF Next, OrchNext, WorkNext
<1> QED
  BY <1>1, <1>2, <1>3 DEF JobInv

LEMMA JobInvariant == Spec => []JobInv
<1>1. TypeOK /\ TypeOK' /\ LoopOK /\ JobInv /\ [Next]_vars => JobInv'
  BY JobStep
<1> QED
  BY <1>1, JobInit, TypeCorrect, PTL DEF Spec

(* As long as no process was lost, a job reported as completed has all its *)
(* batches in Qdrant, and at least one: the worker that reads the counters *)
(* full knows that every batch is past, and processed counts only batches  *)
(* that were upserted.  Kills and failing statements are allowed.          *)
THEOREM CompletedIsIndexed == Spec => [](NothingLost => CompletedMeansAllIndexed)
<1>1. TypeOK /\ JobInv => (NothingLost => CompletedMeansAllIndexed)
  <2> SUFFICES ASSUME TypeOK, JobInv, NothingLost, job.status = "completed"
               PROVE  Planned # {} /\ Planned \subseteq indexed
    BY DEF CompletedMeansAllIndexed
  <2>1. OneOrchestrator /\ CountInv /\ Concluded("completed")
    BY DEF JobInv, StatusInv, Verdicts
  <2> QED
    BY <2>1, ConcludedIndexed
<1> QED
  BY <1>1, JobInvariant, TypeCorrect, PTL

-----------------------------------------------------------------------------
(* The job row behaves as ReindexJob                                       *)

(* A statement of a worker counts a batch below the total, concludes the   *)
(* job, repeats its verdict, or leaves the job row alone.                  *)
LEMMA WorkImplements ==
  ASSUME TypeOK, TypeOK', LoopOK, JobInv, JobInv', NothingLost, NothingLost',
         NEW w \in Workers, WorkNext(w)
  PROVE  AbstractJob!Next \/ UNCHANGED AbstractJob!jobVars
<1>0. /\ job \in Job /\ OneOrchestrator /\ CountInv /\ CountInv' /\ StatusInv
  BY DEF JobInv, TypeOK
<1>1. CASE IncrementProcessed(w)
  <2>1. job.processed + job.failed < job.total
    BY <1>0, <1>1, CountHasRoom
  <2>2. /\ job'.processed = job.processed + 1 /\ job'.failed = job.failed
        /\ job'.status = job.status /\ job'.total = job.total
    BY <1>0, <1>1 DEF IncrementProcessed, Job
  <2>3. AbstractJob!CountGood
    BY <2>1, <2>2 DEF AbstractJob!CountGood
  <2> QED
    BY <2>3 DEF AbstractJob!Next
<1>2. CASE IncrementFailed(w)
  <2>1. job.processed + job.failed < job.total
    BY <1>0, <1>2, CountHasRoom
  <2>2. /\ job'.failed = job.failed + 1 /\ job'.processed = job.processed
        /\ job'.status = job.status /\ job'.total = job.total
    BY <1>0, <1>2 DEF IncrementFailed, Job
  <2>3. AbstractJob!CountBad
    BY <2>1, <2>2 DEF AbstractJob!CountBad
  <2> QED
    BY <2>3 DEF AbstractJob!Next
<1>3. CASE WriteVerdict(w)
  <2>1. /\ job'.status = worker[w].verdict /\ job'.total = job.total
        /\ job'.processed = job.processed /\ job'.failed = job.failed
        /\ worker[w].pc = "final"
    BY <1>0, <1>3 DEF WriteVerdict, Job
  <2>2. Concluded(worker[w].verdict)
    BY <1>0, <2>1 DEF StatusInv
  <2>3. job.status \in Verdicts \cup {"processing"}
    BY <1>0, <2>2, ConcludedLate DEF JobInv
  <2>4. CASE job.status = "processing"
    <3>1. AbstractJob!Conclude
      BY <2>1, <2>2, <2>4 DEF AbstractJob!Conclude, Concluded
    <3> QED
      BY <3>1 DEF AbstractJob!Next
  <2>5. CASE job.status \in Verdicts
    <3>1. Concluded(job.status)
      BY <1>0, <2>5 DEF StatusInv
    <3>2. job'.status = job.status
      BY <2>1, <2>2, <3>1 DEF Concluded
    <3> QED
      BY <2>1, <3>2 DEF AbstractJob!jobVars
  <2> QED
    BY <2>3, <2>4, <2>5
<1>4. CASE job' = job
  BY <1>4 DEF AbstractJob!jobVars
<1> QED
  BY <1>1, <1>2, <1>3, <1>4, WorkJob

(* The trigger creates the job, the orchestrator begins it, plans it once, *)
(* or gives it up while it is open.                                        *)
LEMMA OrchImplements ==
  ASSUME TypeOK, JobInv, NothingLost, OrchNext
  PROVE  AbstractJob!Next \/ UNCHANGED AbstractJob!jobVars
<1>0. /\ job \in Job /\ orch \in Orch /\ OneOrchestrator /\ StatusInv
  BY DEF JobInv, TypeOK
<1>1. CASE TriggerCreate
  <2>1. AbstractJob!Create
    BY <1>0, <1>1 DEF TriggerCreate, StatusInv, AbstractJob!Create, Job
  <2> QED
    BY <2>1 DEF AbstractJob!Next
<1>2. CASE TriggerPatch
  BY <1>0, <1>2 DEF TriggerPatch, AbstractJob!jobVars, Job
<1>3. CASE OrchBegin
  <2>1. AbstractJob!Begin
    BY <1>0, <1>3 DEF OrchBegin, StatusInv, AbstractJob!Begin, Job
  <2> QED
    BY <2>1 DEF AbstractJob!Next
<1>4. CASE OrchTotals
  <2>1. /\ job'.status = "processing" /\ job'.total = orch.n
        /\ job'.processed = job.processed /\ job'.failed = job.failed
    BY <1>0, <1>4 DEF OrchTotals, Job
  <2>2. job.status = "processing" /\ job.total = 0
    BY <1>0, <1>4 DEF OrchTotals, StatusInv, OneOrchestrator, Fresh
  <2>3. orch.n \in 0 .. MaxBatches
    BY <1>0 DEF Orch
  <2>4. CASE orch.n = 0
    BY <2>1, <2>2, <2>4 DEF AbstractJob!jobVars
  <2>5. CASE orch.n \in 1 .. MaxBatches
    <3>1. AbstractJob!Plan
      BY <2>1, <2>2, <2>5 DEF AbstractJob!Plan
    <3> QED
      BY <3>1 DEF AbstractJob!Next
  <2> QED
    BY <2>3, <2>4, <2>5, BoundsAssumption
<1>5. CASE OrchAbort
  <2>1. AbstractJob!Fail
    BY <1>0, <1>5 DEF OrchAbort, StatusInv, AbstractJob!Fail, Job
  <2> QED
    BY <2>1 DEF AbstractJob!Next
<1>6. CASE ~(TriggerCreate \/ TriggerPatch \/ OrchBegin \/ OrchTotals \/ OrchAbort)
  <2>1. job' = job
    BY <1>6 DEF OrchNext, OrchStep, TriggerDispatch, OrchTake, OrchFetch, OrchFetchFails,
         OrchCreate, OrchCreateConflict, OrchDispatch, OrchReturn, OrchAck, OrchFault,
         OrchLost, OrchKilled, rowVars
  <2> QED
    BY <2>1 DEF AbstractJob!jobVars
<1> QED
  BY <1>1, <1>2, <1>3, <1>4, <1>5, <1>6

(* In every behaviour that loses no process the job row is a ReindexJob:   *)
(* one plan, each batch counted at most once and below the total, and a    *)
(* verdict only when all are counted, saying whether one of them was bad.  *)
(* Kills and failing statements are allowed.                               *)
THEOREM JobRowRefines == Spec /\ []NothingLost => ImplementsReindexJob
<1>1. Init => AbstractJob!Init
  BY DEF Init, AbstractJob!Init
<1>2. /\ TypeOK /\ TypeOK' /\ LoopOK /\ JobInv /\ JobInv' /\ NothingLost /\ NothingLost'
      /\ [Next]_vars
      => [AbstractJob!Next]_AbstractJob!jobVars
  <2> SUFFICES ASSUME TypeOK, TypeOK', LoopOK, JobInv, JobInv', NothingLost, NothingLost',
                      [Next]_vars
               PROVE  AbstractJob!Next \/ UNCHANGED AbstractJob!jobVars
    OBVIOUS
  <2>1. CASE OrchNext
    BY <2>1, OrchImplements
  <2>2. ASSUME NEW w \in Workers, WorkNext(w)
        PROVE  AbstractJob!Next \/ UNCHANGED AbstractJob!jobVars
    BY <2>2, WorkImplements
  <2>3. CASE UNCHANGED vars
    BY <2>3 DEF vars, AbstractJob!jobVars
  <2> QED
    BY <2>1, <2>2, <2>3 DEF Next, OrchNext, WorkNext
<1> QED
  BY <1>1, <1>2, JobInvariant, TypeCorrect, PTL DEF Spec, ImplementsReindexJob, AbstractJob!JobSpec

(* In particular, when no loss is possible at all.                         *)
COROLLARY WithoutLosses ==
  ASSUME MaxLosses = 0
  PROVE  Spec => ImplementsReindexJob /\ []CompletedMeansAllIndexed
<1>1. TypeOK /\ JobInv => NothingLost
  BY DEF TypeOK, JobInv, CopiesInv, NothingLost
<1> QED
  BY <1>1, JobInvariant, TypeCorrect, JobRowRefines, CompletedIsIndexed, PTL

-----------------------------------------------------------------------------
(* The counters and the rows, as long as nothing is disturbed              *)

\* A batch with a message, or with a task that has yet to write its row.
Unsettled(b) == \/ Ready(b) # {}
                \/ \E w \in Workers : worker[w].b = b /\ worker[w].pc \in OpenPC

RowsInv ==
    /\ \A b \in Batches : Unsettled(b) => batch[b].status \in {"pending", "processing"}
    /\ \A b \in Batches \ published : batch[b].status \in {"none", "pending"}
    /\ orch.pc = "dispatch" => batch[orch.i].status = "pending"
    /\ job.processed + Cardinality(At("count")) = Cardinality(Rows("done"))
    /\ job.failed = Cardinality(FailedAs("unusable")) + Cardinality(At("markfail"))

\* What was disturbed stays disturbed, and these steps disturb.
LEMMA DisturbedStays ==
  ASSUME TypeOK, [Next]_vars, Undisturbed'
  PROVE  /\ Undisturbed
         /\ ~OrchFault /\ ~OrchLost /\ ~OrchKilled
         /\ \A w \in Workers : /\ ~StatementFails(w) /\ ~WrapperFails(w) /\ ~RepublishFails(w)
                               /\ ~WorkerLost(w) /\ ~WorkerKilled(w)
<1>0. /\ kills \in Nat /\ faults \in Nat /\ losses \in [orch : Nat, work : Nat]
      /\ kills' = 0 /\ faults' = 0 /\ losses'.orch = 0 /\ losses'.work = 0
  BY BoundsAssumption DEF TypeOK, Undisturbed
<1>1. /\ ~OrchFault /\ ~OrchLost /\ ~OrchKilled
      /\ \A w \in Workers : /\ ~StatementFails(w) /\ ~WrapperFails(w) /\ ~RepublishFails(w)
                            /\ ~WorkerLost(w) /\ ~WorkerKilled(w)
  BY <1>0 DEF OrchFault, OrchLost, OrchKilled, StatementFails, WrapperFails, RepublishFails,
              WorkerLost, WorkerKilled
<1>2. UNCHANGED <<losses, kills, faults>>
  <2>1. CASE UNCHANGED vars
    BY <2>1 DEF vars
  <2>2. CASE OrchNext
    BY <1>1, <2>2 DEF OrchNext, OrchStep, TriggerCreate, TriggerDispatch, TriggerPatch,
       OrchTake, OrchBegin, OrchFetch, OrchFetchFails, OrchTotals, OrchCreate,
       OrchCreateConflict, OrchDispatch, OrchReturn, OrchAbort, OrchAck, faultVars
  <2>3. ASSUME NEW w \in Workers, WorkNext(w)
        PROVE  UNCHANGED <<losses, kills, faults>>
    BY <1>1, <2>3 DEF WorkNext, WorkStep, Take, Start, Index, IndexRaises, MarkDone,
       IncrementProcessed, ReadCounters, WriteVerdict, IncrementFailed, MarkFailed,
       IncrementRetry, Republish, GiveUp, Ack, faultVars
  <2> QED
    BY <2>1, <2>2, <2>3 DEF Next, OrchNext, WorkNext
<1> QED
  BY <1>0, <1>1, <1>2 DEF Undisturbed

\* An undisturbed step of a worker makes no batch unsettled again.
LEMMA WorkUnsettled ==
  ASSUME TypeOK, NEW w \in Workers, Take(w) \/ WorkStep(w), NEW b, Unsettled(b)'
  PROVE  Unsettled(b)
<1> USE DEF Go
<1>0. worker \in [Workers -> Worker] /\ queue \in [Messages -> Nat] /\ WorkNext(w)
  BY DEF TypeOK, WorkNext
<1>1. \A v \in Workers : v # w => worker'[v] = worker[v]
  BY <1>0, WorkerFrame
<1>2. CASE Take(w)
  <2> PICK m \in Messages :
        /\ queue[m] > 0
        /\ queue' = [queue EXCEPT ![m] = @ - 1]
        /\ worker' = [worker EXCEPT ![w] = [pc |-> "start", b |-> m[1],
                                            r |-> m[2], verdict |-> "none"]]
    BY <1>2 DEF Take
  <2>1. \A n \in Messages : queue'[n] > 0 => queue[n] > 0
    BY <1>0
  <2>2. worker'[w].b = m[1]
    BY <1>0
  <2> QED
    BY <1>1, <2>1, <2>2 DEF Unsettled, Ready
<1>3. CASE WorkStep(w)
  <2>1. worker'[w].pc \in OpenPC => worker[w].pc \in OpenPC /\ worker'[w].b = worker[w].b
    <3>1. CASE Start(w) \/ Index(w) \/ IndexRaises(w) \/ MarkDone(w)
      BY <1>0, <3>1 DEF Start, Index, IndexRaises, Handlers, MarkDone, OpenPC, Worker
    <3>2. CASE IncrementProcessed(w) \/ WriteVerdict(w) \/ IncrementFailed(w)
      BY <1>0, <3>2 DEF IncrementProcessed, WriteVerdict, IncrementFailed, OpenPC, Worker
    <3>3. CASE ReadCounters(w)
      BY <1>0, <3>3 DEF ReadCounters, OpenPC, Worker
    <3>4. CASE MarkFailed(w) \/ IncrementRetry(w) \/ Republish(w) \/ GiveUp(w)
      BY <1>0, <3>4 DEF MarkFailed, IncrementRetry, Republish, GiveUp, OpenPC, Worker
    <3>5. CASE Ack(w)
      BY <1>0, <3>5 DEF Ack, IdleWorker, OpenPC
    <3> QED
      BY <1>3, <3>1, <3>2, <3>3, <3>4, <3>5 DEF WorkStep
  <2>2. Ready(b)' # {} => Unsettled(b)
    <3>1. CASE queue' = queue
      BY <3>1 DEF Ready, Unsettled
    <3>2. CASE Republish(w)
      <4>1. worker[w].pc \in OpenPC
        BY <3>2 DEF Republish, OpenPC
      <4>2. \A n \in Messages : n[1] # worker[w].b => queue'[n] = queue[n]
        BY <1>0, <3>2, OwnMessages DEF Republish, Put
      <4> QED
        BY <4>1, <4>2 DEF Ready, Unsettled
    <3> QED
      BY <1>3, <3>1, <3>2
      DEF WorkStep, Start, Index, IndexRaises, MarkDone, IncrementProcessed, ReadCounters,
          WriteVerdict, IncrementFailed, MarkFailed, IncrementRetry, GiveUp, Ack
  <2> QED
    BY <1>1, <2>1, <2>2 DEF Unsettled
<1> QED
  BY <1>2, <1>3

\* Writing done or failed settles the batch: no copy of it is left to do so.
LEMMA MarkSettles ==
  ASSUME TypeOK, CopiesInv, losses.work = 0, NEW w \in Workers, MarkDone(w) \/ MarkFailed(w),
         NEW b \in Batches, b = worker[w].b
  PROVE  ~Unsettled(b)'
<1> USE DEF Go
<1>1. w \in Held(b)
  BY DEF MarkDone, MarkFailed, Held, Holders
<1>2. Ready(b) = {} /\ Held(b) = {w}
  BY <1>1, AtMostOnce
<1>3. /\ queue' = queue /\ worker' = [worker EXCEPT ![w].pc = worker'[w].pc]
      /\ worker'[w].pc \in {"count", "ack"}
  BY DEF MarkDone, MarkFailed, TypeOK, Worker
<1>4. \A v \in Workers : worker[v].b = b /\ worker[v].pc \in OpenPC => v = w
  BY <1>2 DEF Held, Holders, OpenPC
<1> QED
  BY <1>2, <1>3, <1>4 DEF Unsettled, Ready, OpenPC, TypeOK

\* The statement a worker is at changes with its steps and with no others.
LEMMA AtChanges ==
  ASSUME TypeOK, NEW w \in Workers, Take(w) \/ WorkStep(w)
  PROVE  /\ worker[w].pc = "count" <=> IncrementProcessed(w)
         /\ worker'[w].pc = "count" <=> MarkDone(w)
         /\ worker'[w].pc = "markfail" <=> IncrementFailed(w)
         /\ worker[w].pc = "markfail" => MarkFailed(w)
<1> USE DEF Go
<1>0. worker \in [Workers -> Worker]
  BY DEF TypeOK
<1>1. CASE Take(w)
  BY <1>0, <1>1 DEF Take, IncrementProcessed, MarkDone, IncrementFailed
<1>2. CASE Start(w) \/ Index(w) \/ IndexRaises(w) \/ IncrementRetry(w)
  BY <1>0, <1>2 DEF Start, Index, IndexRaises, Handlers, IncrementRetry, IncrementProcessed,
                    MarkDone, IncrementFailed, Worker
<1>3. CASE MarkDone(w) \/ IncrementProcessed(w) \/ IncrementFailed(w)
  BY <1>0, <1>3 DEF MarkDone, IncrementProcessed, IncrementFailed, Worker
<1>4. CASE ReadCounters(w) \/ WriteVerdict(w)
  BY <1>0, <1>4 DEF ReadCounters, WriteVerdict, MarkDone, IncrementProcessed, IncrementFailed,
                    Worker
<1>5. CASE MarkFailed(w) \/ Republish(w) \/ GiveUp(w)
  BY <1>0, <1>5 DEF MarkFailed, Republish, GiveUp, MarkDone, IncrementProcessed,
                    IncrementFailed, Worker
<1>6. CASE Ack(w)
  BY <1>0, <1>6 DEF Ack, IdleWorker, MarkDone, IncrementProcessed, IncrementFailed
<1> QED
  BY <1>1, <1>2, <1>3, <1>4, <1>5, <1>6 DEF WorkStep

\* The sets the counters are compared with are finite.
LEMMA RowsFinite ==
  ASSUME TypeOK, CopiesInv
  PROVE  /\ \A pc : pc # "idle" => IsFiniteSet(At(pc)) /\ Cardinality(At(pc)) \in Nat
         /\ \A st : IsFiniteSet(Rows(st)) /\ Cardinality(Rows(st)) \in Nat
         /\ \A e : IsFiniteSet(FailedAs(e)) /\ Cardinality(FailedAs(e)) \in Nat
<1>1. \A pc : pc # "idle" => At(pc) \subseteq Busy
  BY DEF At, Busy
<1>2. (\A st : Rows(st) \subseteq Batches) /\ \A e : FailedAs(e) \subseteq Batches
  BY DEF Rows, FailedAs
<1>3. \A S : S \subseteq Busy => IsFiniteSet(S) /\ Cardinality(S) \in Nat
  BY FS_Subset, FS_CardinalityType DEF CopiesInv
<1>4. \A S : S \subseteq Batches => IsFiniteSet(S) /\ Cardinality(S) \in Nat
  BY BatchesFinite, FS_Subset, FS_CardinalityType
<1> QED
  BY <1>1, <1>2, <1>3, <1>4

(* A row leaves its open status once, together with its last copy, and the *)
(* two statements of an outcome move one batch from the tasks to the count.*)
LEMMA WorkRows ==
  ASSUME TypeOK, LoopOK, CopiesInv, RowsInv, losses.work = 0,
         NEW w \in Workers, Take(w) \/ WorkStep(w)
  PROVE  RowsInv'
<1>0. /\ worker \in [Workers -> Worker] /\ batch \in [Batches -> Batch] /\ job \in Job
      /\ published \subseteq Batches /\ WorkNext(w)
      /\ job.processed \in Nat /\ job.failed \in Nat
  BY DEF TypeOK, WorkNext, Job
<1> PICK b \in Batches : b = worker[w].b
  BY OwnMessages
<1>1. UNCHANGED <<orch, published>> /\ \A v \in Workers : v # w => worker'[v] = worker[v]
  BY <1>0, WorkLeaves, WorkerFrame
<1>2. worker[w].pc # "idle" => b \in published
  BY DEF CopiesInv, Unsent, Holders
<1>3. worker[w].pc \in OpenPC => b \in published /\ batch[b].status \in {"pending", "processing"}
  BY <1>2 DEF OpenPC, RowsInv, Unsettled
<1>4. \A a \in Batches : a # b => batch'[a] = batch[a]
  BY <1>0, RowFrame DEF Start, MarkDone, MarkFailed, IncrementRetry
<1>5. /\ Start(w) \/ IncrementRetry(w) => batch'[b].status \in {"pending", "processing"}
      /\ MarkDone(w) => batch'[b].status = "done"
      /\ MarkFailed(w) => batch'[b] = FailedRow(w)
      /\ Start(w) \/ IncrementRetry(w) \/ MarkDone(w) \/ MarkFailed(w)
            => worker[w].pc \in OpenPC
  <2>1. CASE Start(w)
    BY <1>0, <2>1 DEF Start, MarkDone, MarkFailed, IncrementRetry, Batch, OpenPC
  <2>2. CASE MarkFailed(w)
    BY <1>0, <2>2 DEF Start, MarkDone, MarkFailed, IncrementRetry, OpenPC
  <2>3. CASE IncrementRetry(w)
    BY <1>0, <1>3, <2>3 DEF Start, MarkDone, MarkFailed, IncrementRetry, Batch, OpenPC
  <2>4. CASE MarkDone(w)
    BY <1>0, <2>4 DEF Start, MarkDone, MarkFailed, IncrementRetry, Batch, OpenPC
  <2> QED
    BY <2>1, <2>2, <2>3, <2>4
<1>6. \A a \in Batches : Unsettled(a)' => batch'[a].status \in {"pending", "processing"}
  <2> SUFFICES ASSUME NEW a \in Batches, Unsettled(a)'
               PROVE  batch'[a].status \in {"pending", "processing"}
    OBVIOUS
  <2>1. batch[a].status \in {"pending", "processing"}
    BY WorkUnsettled DEF RowsInv
  <2>2. a = b => ~MarkDone(w) /\ ~MarkFailed(w)
    BY MarkSettles
  <2> QED
    BY <1>0, <1>4, <1>5, <2>1, <2>2, RowFrame DEF FailedRow
<1>7. /\ \A a \in Batches \ published' : batch'[a].status \in {"none", "pending"}
      /\ orch'.pc = "dispatch" => batch'[orch'.i].status = "pending"
  <2>1. \A a \in Batches \ published : batch'[a] = batch[a]
    BY <1>0, <1>2, <1>3, <1>4, <1>5, RowFrame
  <2>2. orch.pc = "dispatch" => orch.i \notin published
    BY DEF CopiesInv, Unsent
  <2>3. orch.pc = "dispatch" => orch.i \in Batches
    BY LoopIndex
  <2> QED
    BY <1>1, <2>1, <2>2, <2>3 DEF RowsInv
<1> DEFINE C == At("count")
           F == At("markfail")
           D == Rows("done")
           X == FailedAs("unusable")
           Marks == MarkFailed(w) /\ worker[w].pc = "markfail"
<1>8. /\ IsFiniteSet(C) /\ Cardinality(C) \in Nat /\ IsFiniteSet(F) /\ Cardinality(F) \in Nat
      /\ IsFiniteSet(D) /\ Cardinality(D) \in Nat /\ IsFiniteSet(X) /\ Cardinality(X) \in Nat
  BY RowsFinite
<1>9. /\ job.processed + Cardinality(C) = Cardinality(D)
      /\ job.failed = Cardinality(X) + Cardinality(F)
  BY DEF RowsInv
<1>10. /\ C' = IF MarkDone(w) THEN C \cup {w} ELSE IF IncrementProcessed(w) THEN C \ {w} ELSE C
       /\ F' = IF IncrementFailed(w) THEN F \cup {w} ELSE F \ {w}
       /\ MarkDone(w) => w \notin C
       /\ IncrementProcessed(w) => w \in C
       /\ IncrementFailed(w) => w \notin F
       /\ MarkFailed(w) => ~IncrementFailed(w)
       /\ Marks <=> w \in F
  <2>1. MarkDone(w) => ~IncrementProcessed(w)
    BY DEF MarkDone, IncrementProcessed
  <2>2. IncrementFailed(w) => ~MarkFailed(w)
    BY DEF MarkFailed, IncrementFailed
  <2>3. Marks <=> w \in F
    BY AtChanges DEF At
  <2> QED
    BY <1>1, <2>1, <2>2, <2>3, AtChanges DEF At
<1>11. /\ D' = IF MarkDone(w) THEN D \cup {b} ELSE D
       /\ X' = IF Marks THEN X \cup {b} ELSE X
       /\ MarkDone(w) \/ Marks => b \notin D /\ b \notin X
  <2>1. batch'[b] = batch[b] \/ Start(w) \/ IncrementRetry(w) \/ MarkDone(w) \/ MarkFailed(w)
    BY <1>0, RowFrame
  <2>2. MarkDone(w) => ~MarkFailed(w)
    BY DEF MarkDone, MarkFailed
  <2>0. MarkFailed(w) => /\ batch'[b].status = "failed"
                         /\ batch'[b].error = IF worker[w].pc = "markfail"
                                              THEN "unusable" ELSE "exception"
    <3>1. FailedRow(w).status = "failed"
      BY DEF FailedRow
    <3>2. FailedRow(w).error = IF worker[w].pc = "markfail" THEN "unusable" ELSE "exception"
      BY DEF FailedRow
    <3> QED
      BY <1>5, <3>1, <3>2
  <2>3. D' = IF MarkDone(w) THEN D \cup {b} ELSE D
    <3>1. \A a \in Batches : a # b => (a \in D' <=> a \in D)
      BY <1>4 DEF Rows
    <3>2. CASE batch'[b] = batch[b] /\ ~MarkDone(w)
      BY <3>1, <3>2 DEF Rows
    <3>3. CASE Start(w) \/ IncrementRetry(w)
      <4>1. b \notin D /\ b \notin D' /\ ~MarkDone(w)
        BY <1>3, <1>5, <3>3 DEF Rows, Start, IncrementRetry, MarkDone
      <4> QED
        BY <3>1, <4>1 DEF Rows
    <3>4. CASE MarkDone(w)
      <4>1. b \in D'
        BY <1>5, <3>4 DEF Rows
      <4> QED
        BY <3>1, <3>4, <4>1 DEF Rows
    <3>5. CASE MarkFailed(w)
      <4>0. batch[b].status # "done" /\ batch'[b].status # "done"
        BY <1>3, <1>5, <2>0, <3>5
      <4>1. b \notin D /\ b \notin D'
        BY <4>0 DEF Rows
      <4> QED
        BY <2>2, <3>1, <3>5, <4>1 DEF Rows
    <3>6. batch'[b] = batch[b] => ~MarkDone(w)
      BY <1>3, <1>5
    <3> QED
      BY <2>1, <3>2, <3>3, <3>4, <3>5, <3>6
  <2>4. \A a \in Batches : a # b => (a \in X' <=> a \in X)
    BY <1>4 DEF FailedAs, Rows
  <2>5. b \in X' <=> Marks \/ b \in X
    <3>1. CASE batch'[b] = batch[b] /\ ~MarkFailed(w)
      BY <3>1 DEF FailedAs, Rows
    <3>2. CASE Start(w) \/ IncrementRetry(w) \/ MarkDone(w)
      <4>1. ~MarkFailed(w) /\ batch[b].status # "failed" /\ batch'[b].status # "failed"
        BY <1>3, <1>5, <2>2, <3>2 DEF Start, IncrementRetry, MarkFailed
      <4> QED
        BY <4>1 DEF FailedAs, Rows
    <3>3. CASE MarkFailed(w)
      <4>1. batch[b].status # "failed" /\ batch'[b].status = "failed"
        BY <1>3, <1>5, <2>0, <3>3
      <4>2. b \notin X
        BY <4>1 DEF FailedAs, Rows
      <4>3. b \in X' <=> batch'[b].error = "unusable"
        BY <4>1 DEF FailedAs, Rows
      <4>4. Marks <=> worker[w].pc = "markfail"
        BY <3>3
      <4> QED
        BY <2>0, <3>3, <4>2, <4>3, <4>4
    <3> QED
      BY <2>1, <3>1, <3>2, <3>3
  <2>6. MarkDone(w) \/ Marks => b \notin D /\ b \notin X
    BY <1>3, <1>5 DEF Rows, FailedAs
  <2>7. X \subseteq Batches /\ X' \subseteq Batches
    BY DEF FailedAs, Rows
  <2>8. X' = IF Marks THEN X \cup {b} ELSE X
    <3> HIDE DEF X, Marks
    <3> QED
      BY <2>4, <2>5, <2>7
  <2> QED
    BY <2>3, <2>6, <2>8
<1>12. /\ job'.processed = job.processed + (IF IncrementProcessed(w) THEN 1 ELSE 0)
       /\ job'.failed = job.failed + (IF IncrementFailed(w) THEN 1 ELSE 0)
  <2>1. CASE IncrementProcessed(w) \/ IncrementFailed(w)
    BY <1>0, <2>1 DEF IncrementProcessed, IncrementFailed, Job
  <2>2. CASE ~(IncrementProcessed(w) \/ IncrementFailed(w))
    BY <1>0, <2>2, WorkJob DEF WriteVerdict, Job
  <2> QED
    BY <2>1, <2>2
<1> HIDE DEF C, F, D, X, Marks
<1>13. job'.processed + Cardinality(C') = Cardinality(D')
  <2>1. CASE MarkDone(w)
    <3>1. ~IncrementProcessed(w)
      BY <2>1 DEF MarkDone, IncrementProcessed
    <3>2. Cardinality(C') = Cardinality(C) + 1 /\ Cardinality(D') = Cardinality(D) + 1
      BY <1>8, <1>10, <1>11, <2>1, FS_AddElement
    <3> QED
      BY <1>0, <1>8, <1>9, <1>12, <3>1, <3>2
  <2>2. CASE IncrementProcessed(w)
    <3>1. ~MarkDone(w)
      BY <2>2 DEF MarkDone, IncrementProcessed
    <3>2. Cardinality(C') = Cardinality(C) - 1 /\ D' = D
      BY <1>8, <1>10, <1>11, <2>2, <3>1, FS_RemoveElement
    <3>3. job'.processed = job.processed + 1
      BY <1>12, <2>2
    <3>4. Cardinality(D') = Cardinality(D)
      BY <3>2
    <3> QED
      BY <1>0, <1>8, <1>9, <3>2, <3>3, <3>4
  <2>3. CASE ~MarkDone(w) /\ ~IncrementProcessed(w)
    BY <1>0, <1>9, <1>10, <1>11, <1>12, <2>3
  <2> QED
    BY <2>1, <2>2, <2>3
<1>14. job'.failed = Cardinality(X') + Cardinality(F')
  <2>1. CASE IncrementFailed(w)
    <3>1. ~Marks
      BY <1>10, <2>1
    <3>2. Cardinality(F') = Cardinality(F) + 1 /\ X' = X
      BY <1>8, <1>10, <1>11, <2>1, <3>1, FS_AddElement
    <3> QED
      BY <1>0, <1>8, <1>9, <1>12, <2>1, <3>2
  <2>2. CASE Marks
    <3>1. ~IncrementFailed(w) /\ F' = F \ {w} /\ w \in F
      BY <1>10, <2>2
    <3>2. Cardinality(X') = Cardinality(X) + 1
      BY <1>8, <1>11, <2>2, FS_AddElement
    <3>3. Cardinality(F') = Cardinality(F) - 1
      BY <1>8, <3>1, FS_RemoveElement
    <3> QED
      BY <1>0, <1>8, <1>9, <1>12, <3>1, <3>2, <3>3
  <2>3. CASE ~IncrementFailed(w) /\ ~Marks
    <3>1. F' = F /\ X' = X
      BY <1>10, <1>11, <2>3
    <3> QED
      BY <1>0, <1>9, <1>12, <2>3, <3>1
  <2> QED
    BY <2>1, <2>2, <2>3
<1> QED
  BY <1>6, <1>7, <1>13, <1>14 DEF RowsInv, C, F, D, X

(* The orchestrator inserts open rows and dispatches batches with one.     *)
LEMMA OrchRows ==
  ASSUME TypeOK, LoopOK, CopiesInv, RowsExist, RowsInv, OrchNext
  PROVE  RowsInv'
<1>0. /\ batch \in [Batches -> Batch] /\ orch \in Orch /\ queue \in [Messages -> Nat]
      /\ worker' = worker /\ job'.processed = job.processed /\ job'.failed = job.failed
  BY OrchLeaves, OrchJob DEF TypeOK
<1>1. CASE OrchCreate
  <2>1. orch.i \in Batches /\ batch[orch.i].status = "none"
    BY <1>1, BoundsAssumption DEF OrchCreate, TypeOK, Orch, Batches
  <2>2. /\ batch' = [batch EXCEPT ![orch.i].status = "pending"]
        /\ UNCHANGED <<queue, published>> /\ orch'.i = orch.i
    BY <1>0, <1>1 DEF OrchCreate, OrchGo, workVars, Orch
  <2>3. batch'[orch.i].status = "pending" /\ \A b \in Batches : b # orch.i => batch'[b] = batch[b]
    BY <1>0, <2>1, <2>2 DEF Batch
  <2>4. /\ Rows("done")' = Rows("done")
        /\ FailedAs("unusable")' = FailedAs("unusable")
    BY <2>1, <2>3 DEF Rows, FailedAs
  <2>5. At("count")' = At("count") /\ At("markfail")' = At("markfail")
    BY <1>0 DEF At
  <2>6. \A b \in Batches : Unsettled(b)' => Unsettled(b)
    BY <1>0, <2>2 DEF Unsettled, Ready
  <2> QED
    BY <1>0, <2>2, <2>3, <2>4, <2>5, <2>6 DEF RowsInv
<1>2. CASE ~OrchCreate
  <2>1. batch' = batch
    BY <1>2 DEF OrchNext, OrchStep, TriggerCreate, TriggerDispatch, TriggerPatch, OrchTake,
         OrchBegin, OrchFetch, OrchFetchFails, OrchTotals, OrchCreateConflict,
         OrchDispatch, OrchReturn, OrchAbort, OrchAck, OrchFault, OrchLost, OrchKilled, rowVars
  <2>2. /\ Rows("done")' = Rows("done")
        /\ FailedAs("unusable")' = FailedAs("unusable")
        /\ At("count")' = At("count") /\ At("markfail")' = At("markfail")
    BY <1>0, <2>1 DEF Rows, FailedAs, At
  <2>3. \A b \in Batches : Unsettled(b)' => batch[b].status \in {"pending", "processing"}
    <3>1. CASE OrchDispatch
      <4>1. \A m \in Messages : m[1] # orch.i => queue'[m] = queue[m]
        BY <1>0, <3>1 DEF OrchDispatch, Put
      <4>2. \A b \in Batches : b # orch.i /\ Unsettled(b)' => Unsettled(b)
        BY <1>0, <4>1 DEF Unsettled, Ready
      <4>3. batch[orch.i].status = "pending"
        BY <3>1 DEF OrchDispatch, RowsInv
      <4> QED
        BY <4>2, <4>3 DEF RowsInv
    <3>2. CASE ~OrchDispatch
      BY <1>0, <3>2, OrchLeaves DEF Unsettled, Ready, RowsInv
    <3> QED
      BY <3>1, <3>2
  <2>4. published \subseteq published'
    BY OrchLeaves DEF OrchDispatch
  <2>5. orch' = orch \/ orch'.pc # "dispatch"
    <3>1. CASE TriggerCreate \/ TriggerDispatch \/ TriggerPatch
      BY <3>1 DEF TriggerCreate, TriggerDispatch, TriggerPatch, orchVars
    <3>2. CASE OrchTake \/ OrchBegin \/ OrchFetchFails \/ OrchCreateConflict
      BY <1>0, <3>2 DEF OrchTake, OrchBegin, OrchFetchFails, OrchCreateConflict, OrchGo, Orch
    <3>3. CASE OrchReturn \/ OrchAbort \/ OrchAck
      BY <1>0, <3>3 DEF OrchReturn, OrchAbort, OrchAck, OrchGo, IdleOrch, Orch
    <3>4. CASE OrchFetch \/ OrchTotals \/ OrchDispatch
      BY <1>0, <3>4 DEF OrchFetch, OrchTotals, OrchDispatch, OrchGo, Orch
    <3>5. CASE OrchFault \/ OrchLost \/ OrchKilled
      BY <1>0, <3>5 DEF OrchFault, OrchLost, OrchKilled, OrchGo, IdleOrch, Orch
    <3> QED
      BY <1>2, <3>1, <3>2, <3>3, <3>4, <3>5 DEF OrchNext, OrchStep
  <2> QED
    BY <1>0, <2>1, <2>2, <2>3, <2>4, <2>5 DEF RowsInv
<1> QED
  BY <1>1, <1>2

(* Undisturbed, the counters of the job are exactly those of its rows, but *)
(* for the workers between the two statements: processed is the number of  *)
(* done rows, failed that of the rows failed for want of a usable product, *)
(* so not of those the wrapper failed, and together they stay within the   *)
(* plan.                                                                   *)
THEOREM CountersAgreeWithRows == Spec => []CountersMatchRows
<1>1. Init => RowsInv
  <2> SUFFICES ASSUME Init
               PROVE  RowsInv
    OBVIOUS
  <2>1. /\ At("count") = {} /\ At("markfail") = {}
        /\ Rows("done") = {} /\ FailedAs("unusable") = {}
    BY DEF Init, IdleWorker, At, Rows, FailedAs
  <2>2. /\ \A b \in Batches : ~Unsettled(b) /\ batch[b].status = "none"
        /\ job.processed = 0 /\ job.failed = 0 /\ orch.pc = "idle"
    BY DEF Init, IdleOrch, IdleWorker, Unsettled, Ready, OpenPC
  <2>3. Cardinality({}) = 0
    BY FS_EmptySet
  <2>4. /\ job.processed + Cardinality(At("count")) = Cardinality(Rows("done"))
        /\ job.failed = Cardinality(FailedAs("unusable")) + Cardinality(At("markfail"))
    <3>1. Cardinality(At("count")) = 0 /\ Cardinality(Rows("done")) = 0
      BY <2>1, <2>3
    <3>2. Cardinality(At("markfail")) = 0 /\ Cardinality(FailedAs("unusable")) = 0
      BY <2>1, <2>3
    <3>3. job.processed = 0 /\ job.failed = 0
      BY <2>2
    <3>4. job.processed + Cardinality(At("count")) = 0
      BY <3>1, <3>3
    <3>5. Cardinality(FailedAs("unusable")) + Cardinality(At("markfail")) = 0
      BY <3>2
    <3> QED
      BY <3>1, <3>3, <3>4, <3>5
  <2> QED
    BY <2>2, <2>4 DEF RowsInv
<1>2. /\ TypeOK /\ LoopOK /\ JobInv /\ (Undisturbed => RowsInv) /\ [Next]_vars
      => (Undisturbed' => RowsInv')
  <2> SUFFICES ASSUME TypeOK, LoopOK, JobInv, Undisturbed => RowsInv, [Next]_vars, Undisturbed'
               PROVE  RowsInv'
    OBVIOUS
  <2>1. RowsInv /\ losses.work = 0 /\ CopiesInv /\ RowsExist
    BY DisturbedStays DEF Undisturbed, JobInv
  <2>2. CASE OrchNext
    BY <2>1, <2>2, OrchRows
  <2>3. ASSUME NEW w \in Workers, WorkNext(w)
        PROVE  RowsInv'
    <3>1. Take(w) \/ WorkStep(w)
      BY <2>3, DisturbedStays DEF WorkNext
    <3> QED
      BY <2>1, <3>1, WorkRows
  <2>4. CASE UNCHANGED vars
    <3>1. /\ At("count")' = At("count") /\ At("markfail")' = At("markfail")
          /\ Rows("done")' = Rows("done")
          /\ FailedAs("unusable")' = FailedAs("unusable")
      BY <2>4 DEF vars, At, Rows, FailedAs
    <3>2. \A b : Unsettled(b)' <=> Unsettled(b)
      BY <2>4 DEF vars, Unsettled, Ready
    <3> QED
      BY <2>1, <2>4, <3>1, <3>2 DEF vars, RowsInv
  <2> QED
    BY <2>2, <2>3, <2>4 DEF Next, OrchNext, WorkNext
<1>3. TypeOK /\ JobInv /\ (Undisturbed => RowsInv) => CountersMatchRows
  <2> SUFFICES ASSUME TypeOK, JobInv, RowsInv, Undisturbed
               PROVE  /\ job.processed + Cardinality(At("count")) = Cardinality(Rows("done"))
                      /\ job.failed = Cardinality(FailedAs("unusable"))
                                        + Cardinality(At("markfail"))
                      /\ job.processed + job.failed <= job.total
    BY DEF CountersMatchRows
  <2>1. OneOrchestrator /\ CountInv /\ CopiesInv
    BY DEF JobInv, NothingLost, Undisturbed
  <2> QED
    BY <2>1, CountersWithinPlan DEF RowsInv
<1> QED
  BY <1>1, <1>2, <1>3, JobInvariant, TypeCorrect, PTL DEF Spec
=============================================================================
