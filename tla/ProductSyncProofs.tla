-------------------------- MODULE ProductSyncProofs --------------------------
(***************************************************************************)
(* Theorems about ProductSync for every set of products and workers, every *)
(* number of changes, retries, batches, losses and failing calls.          *)
(***************************************************************************)
EXTENDS ProductSync, TLAPS

WorkNext(w) == WorkStep(w) \/ WorkFault(w)

BatchNext(i) == BatchStart(i) \/ BatchFetch(i) \/ BatchIndex(i) \/ BatchEnds(i)

SaleorNext == \/ \E p \in Products, kind \in {"upsert", "delete"} : Change(p, kind)
              \/ \E e \in posts : Receive(e) \/ ReceiveUnanswered(e)

-----------------------------------------------------------------------------
(* The inductive invariant                                                 *)

\* An event reports a change that has happened, and is a deletion if and only
\* if that change was the last and the product is gone.
EventOK(e) == /\ e.n \in 1 .. seq[e.p]
              /\ e.kind = "delete" <=> (e.n = seq[e.p] /\ ~live[e.p])

\* The change a payload was taken at was not a deletion; 0 is no payload.
PayloadOK(p, n) == n # 0 => n <= seq[p] /\ (n = seq[p] => live[p])

\* A worker with the record r holds one message at a time, goes the way of its
\* kind, and has a payload that is at least as new as the event.
HeldOK(r, m) ==
    /\ EventOK(m.ev) /\ \A k \in r.held : k = m
    /\ r.pc \in {"build", "index"} => m.ev.kind = "upsert"
    /\ r.pc = "delete" => m.ev.kind = "delete"
    /\ r.pc = "index" => m.ev.n <= r.data /\ PayloadOK(m.ev.p, r.data)

MessagesOK ==
    /\ \A e \in posts : EventOK(e)
    /\ \A m \in tasks : EventOK(m.ev)
    /\ \A w \in Workers : \A m \in worker[w].held : HeldOK(worker[w], m)
    /\ \A i \in Indexers, p \in Products : PayloadOK(p, indexer[i].data[p])

PointsOK == /\ \A p \in Products : stamp[p] <= seq[p]
            /\ NewestWriteStands

SyncInv == MessagesOK /\ PointsOK /\ ChangesAccountedFor

-----------------------------------------------------------------------------
(* Type correctness                                                        *)

(* A write of points keeps the types of the points and of their history. *)
LEMMA WriteType ==
  ASSUME TypeOK, NEW data \in [Products -> Changes], NEW value \in [Products -> Changes],
         Write(data, value)
  PROVE  /\ point' \in [Products -> Changes] /\ stamp' \in [Products -> Changes]
         /\ overtaken' \in SUBSET Products
BY DEF TypeOK, Write

LEMMA OnlyType ==
  ASSUME NEW p \in Products, NEW n \in Changes
  PROVE  Only(p, n) \in [Products -> Changes] /\ Only(p, 0) \in [Products -> Changes]
BY SyncAssumption DEF Only, Changes

(* Saleor's changes and posts preserve the types. *)
LEMMA SaleorTypeOK ==
  ASSUME TypeOK, SaleorNext
  PROVE  TypeOK'
<1> USE SyncAssumption DEF TypeOK, qdrant, bounds
<1>1. ASSUME NEW p \in Products, NEW kind \in {"upsert", "delete"}, Change(p, kind)
      PROVE  TypeOK'
  <2>1. seq[p] + 1 \in Changes
    BY <1>1 DEF Change, Changes
  <2>2. seq' \in [Products -> Changes] /\ live' \in [Products -> BOOLEAN]
    BY <1>1, <2>1 DEF Change
  <2>3. posts' \in SUBSET Event
    BY <1>1, <2>1 DEF Change, Event
  <2> QED
    BY <1>1, <2>2, <2>3 DEF Change
<1>2. ASSUME NEW e \in posts, Receive(e) \/ ReceiveUnanswered(e)
      PROVE  TypeOK'
  <2>1. [ev |-> e, tries |-> 0] \in Message
    BY DEF Message
  <2>2. tasks' \in SUBSET Message /\ posts' \in SUBSET Event
    BY <1>2, <2>1 DEF Receive, ReceiveUnanswered
  <2>3. faults' \in 0 .. MaxFaults /\ batches' \in 0 .. MaxBatches /\ losses' \in 0 .. MaxLosses
    BY <1>2 DEF Receive, ReceiveUnanswered, Fault
  <2> QED
    BY <1>2, <2>2, <2>3 DEF Receive, ReceiveUnanswered, saleor
<1> QED
  BY <1>1, <1>2 DEF SaleorNext

(* A message that is handed to a worker or back to the queue, with its      *)
(* outcome, preserves the types.                                            *)
LEMMA WorkTypeOK ==
  ASSUME TypeOK, NEW w \in Workers, WorkNext(w)
  PROVE  TypeOK'
<1> USE SyncAssumption DEF TypeOK, saleor, qdrant, bounds, GoWork, Raise, OpenPC, Worker
<1>1. ASSUME NEW m \in tasks, Take(w, m)
      PROVE  TypeOK'
  <2> DEFINE pc    == IF m.ev.kind = "upsert" THEN "build" ELSE "delete"
             taken == [pc |-> pc, held |-> {m}, data |-> 0, error |-> "none"]
  <2>1. worker' = [worker EXCEPT ![w] = taken]
    BY <1>1 DEF Take
  <2>2. pc \in {"build", "delete"} /\ taken \in Worker
    BY <1>1 DEF Changes
  <2>3. worker' \in [Workers -> Worker]
    BY <2>1, <2>2
  <2>4. \A v \in Workers : /\ worker'[v].pc = "idle" <=> worker'[v].held = {}
                           /\ worker'[v].pc = "index" => worker'[v].data # 0
    BY <2>1, <2>2
  <2> QED
    BY <1>1, <2>3, <2>4 DEF Take
<1>2. CASE Build(w)
  <2> PICK m \in worker[w].held : Build(w)!2!(m)
    BY <1>2 DEF Build
  <2>1. m \in Message /\ m.ev.n \in Changes /\ m.ev.p \in Products
    BY DEF Message, Event
  <2> QED
    BY <1>2, <2>1 DEF Build, Payload, FromEvent, FromSaleor, Changes
<1>3. CASE BuildFails(w) \/ SummariseFails(w)
  BY <1>3 DEF BuildFails, SummariseFails, Fault
<1>4. CASE Upsert(w) \/ UpsertFails(w)
  <2>1. ASSUME NEW m \in worker[w].held, UpsertPoints(Only(m.ev.p, worker[w].data))
        PROVE  /\ point' \in [Products -> Changes] /\ stamp' \in [Products -> Changes]
               /\ overtaken' \in SUBSET Products
    <3>1. Only(m.ev.p, worker[w].data) \in [Products -> Changes]
      BY OnlyType DEF Message, Event
    <3> QED
      BY <2>1, <3>1, WriteType DEF UpsertPoints
  <2>2. /\ point' \in [Products -> Changes] /\ stamp' \in [Products -> Changes]
        /\ overtaken' \in SUBSET Products
    BY <1>4, <2>1 DEF Upsert, UpsertFails
  <2> QED
    BY <1>4, <2>2 DEF Upsert, UpsertFails, Fault
<1>5. CASE Delete(w) \/ DeleteFails(w)
  <2>1. ASSUME NEW m \in worker[w].held
        PROVE  /\ m.ev.p \in Products /\ m.ev.n \in Changes
               /\ <<m.ev.p, m.ev.n>> \in Products \X Changes
    BY DEF Message, Event
  <2>2. ASSUME NEW m \in worker[w].held, DeletePoint(m.ev.p, m.ev.n)
        PROVE  /\ point' \in [Products -> Changes] /\ stamp' \in [Products -> Changes]
               /\ overtaken' \in SUBSET Products
    BY <2>1, <2>2, OnlyType, WriteType DEF DeletePoint
  <2>3. /\ point' \in [Products -> Changes] /\ stamp' \in [Products -> Changes]
        /\ overtaken' \in SUBSET Products
    BY <1>5, <2>2 DEF Delete, DeleteFails
  <2>4. dropped' \in SUBSET (Products \X Changes)
    BY <1>5, <2>1 DEF Delete, DeleteFails
  <2> QED
    BY <1>5, <2>3, <2>4 DEF Delete, DeleteFails, Fault
<1>6. CASE Catch(w)
  <2> PICK m \in worker[w].held : Catch(w)!2!(m)
    BY <1>6 DEF Catch
  <2>1. m \in Message /\ <<m.ev.p, m.ev.n>> \in Products \X Changes
    BY DEF Message, Event
  <2>2. m.tries < MaxRetries => [m EXCEPT !.tries = @ + 1] \in Message
    BY <2>1 DEF Message
  <2> QED
    BY <1>6, <2>1, <2>2 DEF Catch
<1>7. CASE CatchFails(w)
  <2>1. dropped' \in SUBSET (Products \X Changes)
    BY <1>7 DEF CatchFails, Message, Event
  <2> QED
    BY <1>7, <2>1 DEF CatchFails, bounds
<1>8. CASE Ack(w) \/ WorkerLost(w)
  BY <1>8 DEF Ack, WorkerLost, Requeue, IdleWorker, Changes
<1>9. CASE WorkerKilled(w)
  <2>1. dropped' \in SUBSET (Products \X Changes)
    BY <1>9 DEF WorkerKilled, Message, Event
  <2> QED
    BY <1>9, <2>1 DEF WorkerKilled, IdleWorker, Fault, Changes
<1> QED
  BY <1>1, <1>2, <1>3, <1>4, <1>5, <1>6, <1>7, <1>8, <1>9 DEF WorkNext, WorkStep, WorkFault

(* The batches of a reindex preserve the types. *)
LEMMA BatchTypeOK ==
  ASSUME TypeOK, NEW i \in Indexers, BatchNext(i)
  PROVE  TypeOK'
<1> USE SyncAssumption DEF TypeOK, saleor, qdrant, bounds, Indexer, IdleIndexer
<1>1. CASE BatchStart(i) \/ BatchEnds(i)
  <2>1. [p \in Products |-> 0] \in [Products -> Changes]
    BY DEF Changes
  <2>2. /\ IdleIndexer \in Indexer
        /\ [IdleIndexer EXCEPT !.pc = "fetch", !.todo = {p \in Products : seq[p] > 0}]
              \in Indexer
    BY <2>1
  <2>3. indexer' \in [Indexers -> Indexer]
    <3> HIDE DEF Indexer, IdleIndexer
    <3> QED
      BY <1>1, <2>2 DEF BatchStart, BatchEnds
  <2>4. batches' \in 0 .. MaxBatches
    BY <1>1 DEF BatchStart, BatchEnds
  <2> QED
    BY <1>1, <2>3, <2>4 DEF BatchStart, BatchEnds
<1>2. CASE BatchFetch(i)
  <2> DEFINE rec(p) ==
        [pc   |-> "fetch", todo |-> indexer[i].todo \ {p},
         data |-> [indexer[i].data EXCEPT ![p] = IF live[p] THEN seq[p] ELSE 0]]
  <2>1. PICK p \in indexer[i].todo : indexer' = [indexer EXCEPT ![i] = rec(p)]
    BY <1>2 DEF BatchFetch
  <2>2. p \in Products /\ (IF live[p] THEN seq[p] ELSE 0) \in Changes
    BY DEF Changes
  <2>3. [indexer[i].data EXCEPT ![p] = IF live[p] THEN seq[p] ELSE 0]
           \in [Products -> Changes]
    BY <2>2
  <2>4. rec(p) \in Indexer
    BY <2>3
  <2>5. indexer' \in [Indexers -> Indexer]
    <3> HIDE DEF rec, Indexer
    <3> QED
      BY <2>1, <2>4
  <2> QED
    BY <1>2, <2>5 DEF BatchFetch
<1>3. CASE BatchIndex(i)
  <2> PICK skipped \in SUBSET Products :
        UpsertPoints([p \in Products |-> IF p \in skipped THEN 0 ELSE indexer[i].data[p]])
    BY <1>3 DEF BatchIndex
  <2>1. [p \in Products |-> IF p \in skipped THEN 0 ELSE indexer[i].data[p]]
           \in [Products -> Changes]
    BY DEF Changes
  <2>2. /\ point' \in [Products -> Changes] /\ stamp' \in [Products -> Changes]
        /\ overtaken' \in SUBSET Products
    BY <2>1, WriteType DEF UpsertPoints
  <2> QED
    BY <1>3, <2>2 DEF BatchIndex, Changes
<1> QED
  BY <1>1, <1>2, <1>3 DEF BatchNext

(* Every variable keeps its type; a worker is idle if and only if it holds  *)
(* no message, and never comes to index_batch without a payload.            *)
THEOREM SyncTypeCorrect == Spec => []TypeOK
<1>1. Init => TypeOK
  BY SyncAssumption DEF Init, TypeOK, Changes, Worker, Indexer, IdleWorker, IdleIndexer, OpenPC
<1>2. TypeOK /\ [Next]_vars => TypeOK'
  <2> SUFFICES ASSUME TypeOK, [Next]_vars PROVE TypeOK'
    OBVIOUS
  <2>1. CASE UNCHANGED vars
    BY <2>1 DEF vars, TypeOK
  <2> QED
    BY <2>1, SaleorTypeOK, WorkTypeOK, BatchTypeOK
    DEF Next, SaleorNext, WorkNext, BatchNext
<1> QED
  BY <1>1, <1>2, PTL DEF Spec

-----------------------------------------------------------------------------
(* The steps preserve the invariant                                        *)

(* A write that leaves of each product what its change left, and that is    *)
(* not ahead of Saleor, keeps the points in order, and is remembered.       *)
LEMMA WriteKeeps ==
  ASSUME TypeOK, PointsOK, UNCHANGED saleor,
         NEW data \in [Products -> Changes], NEW value \in [Products -> Changes],
         Write(data, value),
         \A p \in Products : data[p] # 0 => /\ data[p] <= seq[p]
                                            /\ value[p] = Image(p, data[p])
  PROVE  /\ PointsOK'
         /\ \A p \in Products : stamp[p] <= stamp'[p] /\ data[p] <= stamp'[p]
<1> USE SyncAssumption DEF Changes
<1>1. \A p \in Products : /\ seq[p] \in Nat /\ stamp[p] \in Nat /\ data[p] \in Nat
                          /\ stamp[p] <= seq[p]
  BY DEF TypeOK, PointsOK
<1>2. \A p \in Products :
        /\ stamp'[p] = IF data[p] > stamp[p] THEN data[p] ELSE stamp[p]
        /\ point'[p] = IF data[p] = 0 THEN point[p] ELSE value[p]
        /\ p \notin overtaken' => p \notin overtaken /\ (data[p] = 0 \/ data[p] >= stamp[p])
  BY <1>1 DEF Write
<1>3. \A p \in Products : stamp[p] <= stamp'[p] /\ data[p] <= stamp'[p] /\ stamp'[p] <= seq[p]
  BY <1>1, <1>2
<1>4. ASSUME NEW p \in Products, p \notin overtaken'
      PROVE  point'[p] = Image(p, stamp'[p])
  <2>1. CASE data[p] = 0
    BY <1>1, <1>2, <1>4, <2>1 DEF PointsOK, NewestWriteStands
  <2>2. CASE data[p] # 0
    <3>1. stamp'[p] = data[p]
      BY <1>1, <1>2, <1>4, <2>2
    <3> QED
      BY <1>2, <2>2, <3>1
  <2> QED
    BY <2>1, <2>2
<1>5. NewestWriteStands'
  BY <1>4 DEF NewestWriteStands, Image, saleor
<1> QED
  BY <1>3, <1>5 DEF PointsOK, saleor

(* Of a payload, the point holds the change it was taken at. *)
LEMMA UpsertKeeps ==
  ASSUME TypeOK, PointsOK, UNCHANGED saleor, NEW data \in [Products -> Changes],
         UpsertPoints(data), \A p \in Products : PayloadOK(p, data[p])
  PROVE  /\ PointsOK'
         /\ \A p \in Products : stamp[p] <= stamp'[p] /\ data[p] <= stamp'[p]
<1>1. \A p \in Products : data[p] # 0 => data[p] <= seq[p] /\ data[p] = Image(p, data[p])
  BY DEF PayloadOK, Image
<1> QED
  BY <1>1, WriteKeeps DEF UpsertPoints

(* When w goes on with the record r and no message is dropped unnoticed,    *)
(* the messages stay in order and the changes accounted for.                *)
LEMMA WorkerMoves ==
  ASSUME TypeOK, MessagesOK, ChangesAccountedFor,
         UNCHANGED <<seq, live, posts, indexer>>,
         NEW w \in Workers, NEW r, worker' = [worker EXCEPT ![w] = r],
         \A m \in r.held : HeldOK(r, m),
         \A m \in tasks' : EventOK(m.ev),
         dropped \subseteq dropped',
         \A p \in Products : stamp[p] <= stamp'[p] /\ stamp[p] \in Nat /\ stamp'[p] \in Nat,
         \A m \in tasks : m \in tasks' \/ (m \in r.held /\ r.pc \in OpenPC),
         worker[w].pc \in OpenPC => \A m \in worker[w].held :
            \/ m \in r.held /\ r.pc \in OpenPC
            \/ \E k \in tasks' : k.ev = m.ev
            \/ <<m.ev.p, m.ev.n>> \in dropped'
            \/ m.ev.n <= stamp'[m.ev.p]
  PROVE  MessagesOK' /\ ChangesAccountedFor'
<1>1. worker'[w] = r /\ \A v \in Workers \ {w} : worker'[v] = worker[v]
  BY DEF TypeOK
<1>2. \A m \in r.held : HeldOK(r, m)'
  BY DEF HeldOK, EventOK, PayloadOK
<1>3. \A v \in Workers \ {w} : \A m \in worker[v].held : HeldOK(worker[v], m)'
  BY <1>1 DEF MessagesOK, HeldOK, EventOK, PayloadOK
<1>4. MessagesOK'
  BY <1>1, <1>2, <1>3 DEF MessagesOK, EventOK, PayloadOK, HeldOK
<1>5. ASSUME NEW p \in Products, NEW n \in 1 .. seq[p]
      PROVE  (InFlight(p, n) \/ <<p, n>> \in dropped \/ n <= stamp[p])'
  <2>1. CASE <<p, n>> \in dropped \/ n <= stamp[p]
    <3>1. n \in Int
      BY SyncAssumption DEF TypeOK, Changes
    <3> QED
      BY <2>1, <3>1
  <2>2. CASE \E e \in posts : Is(e, p, n)
    BY <2>2 DEF InFlight, Is
  <2>3. ASSUME NEW m \in tasks, Is(m.ev, p, n)
        PROVE  InFlight(p, n)'
    BY <1>1, <2>3 DEF InFlight, Is
  <2>4. ASSUME NEW v \in Workers, worker[v].pc \in OpenPC, NEW m \in worker[v].held,
               Is(m.ev, p, n)
        PROVE  (InFlight(p, n) \/ <<p, n>> \in dropped \/ n <= stamp[p])'
    <3>1. CASE v = w
      BY <1>1, <2>4, <3>1 DEF InFlight, Is
    <3>2. CASE v # w
      BY <1>1, <2>4, <3>2 DEF InFlight, Is
    <3> QED
      BY <3>1, <3>2
  <2> QED
    BY <2>1, <2>2, <2>3, <2>4 DEF ChangesAccountedFor, InFlight
<1>6. ChangesAccountedFor'
  BY <1>5 DEF ChangesAccountedFor
<1> QED
  BY <1>4, <1>6

(* A worker that goes on with the same message, and writes no point or the  *)
(* one it has to write.                                                     *)
LEMMA WorkerGoesOn ==
  ASSUME TypeOK, SyncInv, UNCHANGED <<seq, live, posts, indexer, tasks, dropped>>,
         NEW w \in Workers, NEW r, worker' = [worker EXCEPT ![w] = r],
         worker[w].pc \in OpenPC, r.held = worker[w].held, r.pc \in OpenPC,
         \A m \in r.held : HeldOK(r, m),
         PointsOK', \A p \in Products : stamp[p] <= stamp'[p] /\ stamp'[p] \in Nat
  PROVE  SyncInv'
<1>1. \A p \in Products : stamp[p] \in Nat
  BY SyncAssumption DEF TypeOK, Changes
<1>2. \A m \in tasks' : EventOK(m.ev)
  BY DEF SyncInv, MessagesOK
<1> QED
  BY <1>1, <1>2, WorkerMoves DEF SyncInv

(* Points that are not written stay in order. *)
LEMMA PointsStay ==
  ASSUME TypeOK, PointsOK, UNCHANGED <<saleor, qdrant>>
  PROVE  /\ PointsOK'
         /\ \A p \in Products : /\ stamp[p] <= stamp'[p]
                                /\ stamp[p] \in Nat /\ stamp'[p] \in Nat
<1>1. \A p \in Products : stamp[p] \in Nat
  BY SyncAssumption DEF TypeOK, Changes
<1> QED
  BY <1>1 DEF PointsOK, NewestWriteStands, Image, saleor, qdrant

(* What a worker writes with index_batch. *)
LEMMA WorkerUpserts ==
  ASSUME TypeOK, SyncInv, UNCHANGED saleor, NEW w \in Workers, NEW m \in worker[w].held,
         worker[w].pc = "index", UpsertPoints(Only(m.ev.p, worker[w].data))
  PROVE  /\ PointsOK' /\ m.ev.n <= stamp'[m.ev.p]
         /\ \A p \in Products : /\ stamp[p] <= stamp'[p]
                                /\ stamp[p] \in Nat /\ stamp'[p] \in Nat
<1> DEFINE data == Only(m.ev.p, worker[w].data)
<1>1. /\ m.ev.p \in Products /\ m.ev.n \in Nat /\ worker[w].data \in Changes
      /\ \A p \in Products : stamp[p] \in Nat
  BY SyncAssumption DEF TypeOK, Worker, Message, Event, Changes
<1>2. m.ev.n <= worker[w].data /\ PayloadOK(m.ev.p, worker[w].data)
  BY DEF SyncInv, MessagesOK, HeldOK
<1>3. data \in [Products -> Changes]
  BY <1>1, OnlyType
<1>4. \A p \in Products : PayloadOK(p, data[p])
  BY <1>1, <1>2 DEF Only, PayloadOK
<1>5. data[m.ev.p] = worker[w].data
  BY <1>1 DEF Only
<1>6. /\ PointsOK'
      /\ \A p \in Products : stamp[p] <= stamp'[p] /\ data[p] <= stamp'[p]
  <2> HIDE DEF data
  <2> QED
    BY <1>3, <1>4, UpsertKeeps DEF SyncInv, data
<1>7. \A p \in Products : stamp'[p] \in Nat
  BY <1>3, WriteType, SyncAssumption DEF UpsertPoints, Changes
<1>8. worker[w].data \in Nat
  BY <1>1, SyncAssumption DEF Changes
<1>9. m.ev.n <= stamp'[m.ev.p]
  <2> HIDE DEF data
  <2> QED
    BY <1>1, <1>2, <1>5, <1>6, <1>7, <1>8
<1> QED
  BY <1>1, <1>6, <1>7, <1>9

(* What a worker deletes. *)
LEMMA WorkerDeletes ==
  ASSUME TypeOK, SyncInv, UNCHANGED saleor, NEW w \in Workers, NEW m \in worker[w].held,
         worker[w].pc = "delete", DeletePoint(m.ev.p, m.ev.n)
  PROVE  /\ PointsOK' /\ m.ev.n <= stamp'[m.ev.p]
         /\ \A p \in Products : /\ stamp[p] <= stamp'[p]
                                /\ stamp[p] \in Nat /\ stamp'[p] \in Nat
<1> DEFINE data  == Only(m.ev.p, m.ev.n)
           value == Only(m.ev.p, 0)
<1>1. /\ m.ev.p \in Products /\ m.ev.n \in Changes
      /\ \A p \in Products : stamp[p] \in Nat
  BY SyncAssumption DEF TypeOK, Worker, Message, Event, Changes
<1>2. m.ev.n = seq[m.ev.p] /\ ~live[m.ev.p] /\ seq[m.ev.p] \in Nat
  BY <1>1, SyncAssumption DEF SyncInv, MessagesOK, HeldOK, EventOK, TypeOK, Changes
<1>3. data \in [Products -> Changes] /\ value \in [Products -> Changes]
  BY <1>1, OnlyType
<1>4. \A p \in Products : data[p] # 0 => data[p] <= seq[p] /\ value[p] = Image(p, data[p])
  BY <1>1, <1>2 DEF Only, Image
<1>5. data[m.ev.p] = m.ev.n
  BY <1>1 DEF Only
<1>6. /\ PointsOK'
      /\ \A p \in Products : stamp[p] <= stamp'[p] /\ data[p] <= stamp'[p]
  <2> HIDE DEF data, value
  <2> QED
    BY <1>3, <1>4, WriteKeeps DEF SyncInv, DeletePoint, data, value
<1>7. \A p \in Products : stamp'[p] \in Nat
  BY <1>3, WriteType, SyncAssumption DEF DeletePoint, Changes
<1> QED
  BY <1>1, <1>5, <1>6, <1>7

(* A change in Saleor comes with its event, and turns no payload that has   *)
(* been taken into that of a deletion; an accepted event is in the queue.   *)
LEMMA SaleorKeeps ==
  ASSUME TypeOK, SyncInv, SaleorNext
  PROVE  SyncInv'
<1> USE SyncAssumption
<1>1. ASSUME NEW p \in Products, NEW kind \in {"upsert", "delete"}, Change(p, kind)
      PROVE  SyncInv'
  <2>1. /\ \A q \in Products : seq[q] \in Nat /\ stamp[q] \in Nat
        /\ seq'[p] = seq[p] + 1 /\ live'[p] = (kind = "upsert")
        /\ \A q \in Products \ {p} : seq'[q] = seq[q] /\ live'[q] = live[q]
        /\ live[p] \/ (seq[p] = 0 /\ kind = "upsert")
    BY <1>1 DEF Change, TypeOK, Changes
  <2>2. UNCHANGED <<tasks, worker, indexer, point, stamp, overtaken, dropped>>
    BY <1>1 DEF Change, qdrant
  <2>3. PICK new : /\ new.p = p /\ new.n = seq[p] + 1 /\ new.kind = kind
                   /\ posts' = posts \cup {new}
    BY <1>1 DEF Change
  <2>4. ASSUME NEW e \in Event, EventOK(e)
        PROVE  EventOK(e)'
    <3>1. e.p \in Products /\ e.n \in Nat
      BY DEF Event, Changes
    <3> QED
      BY <2>1, <2>4, <3>1 DEF EventOK
  <2>5. ASSUME NEW q \in Products, NEW n \in Changes, PayloadOK(q, n)
        PROVE  PayloadOK(q, n)'
    BY <2>1, <2>5 DEF PayloadOK, Changes
  <2>6. \A e \in posts' : EventOK(e)'
    <3>1. ASSUME NEW e \in posts PROVE EventOK(e)'
      BY <2>4 DEF TypeOK, SyncInv, MessagesOK
    <3>2. EventOK(new)'
      <4>1. new.n \in 1 .. seq'[new.p] /\ new.n = seq'[new.p]
        BY <2>1, <2>3
      <4>2. live'[new.p] <=> new.kind = "upsert"
        BY <2>1, <2>3
      <4>3. new.kind = "delete" <=> ~live'[new.p]
        BY <2>3, <4>2
      <4> QED
        BY <4>1, <4>3 DEF EventOK
    <3> QED
      BY <2>3, <3>1, <3>2
  <2>7. \A m \in tasks' : EventOK(m.ev)'
    BY <2>2, <2>4 DEF TypeOK, SyncInv, MessagesOK, Message
  <2>8. ASSUME NEW w \in Workers, NEW m \in worker[w].held
        PROVE  HeldOK(worker[w], m)'
    <3>1. HeldOK(worker[w], m) /\ m.ev \in Event /\ m.ev.p \in Products
          /\ worker[w].data \in Changes
      BY DEF SyncInv, MessagesOK, TypeOK, Worker, Message, Event
    <3>2. EventOK(m.ev)'
      BY <2>4, <3>1 DEF HeldOK
    <3> QED
      BY <2>2, <2>5, <3>1, <3>2 DEF HeldOK
  <2>9. ASSUME NEW i \in Indexers, NEW q \in Products
        PROVE  PayloadOK(q, indexer[i].data[q])'
    BY <2>2, <2>5 DEF SyncInv, MessagesOK, TypeOK, Indexer
  <2>10. MessagesOK'
    BY <2>2, <2>6, <2>7, <2>8, <2>9 DEF MessagesOK
  <2>11. PointsOK'
    BY <2>1, <2>2 DEF SyncInv, PointsOK, NewestWriteStands, Image
  <2>12. ASSUME NEW q \in Products, NEW n \in 1 .. seq'[q]
         PROVE  (InFlight(q, n) \/ <<q, n>> \in dropped \/ n <= stamp[q])'
    <3>1. CASE n \in 1 .. seq[q]
      <4>1. InFlight(q, n) \/ <<q, n>> \in dropped \/ n <= stamp[q]
        BY <3>1 DEF SyncInv, ChangesAccountedFor
      <4>2. InFlight(q, n) => InFlight(q, n)'
        BY <2>2, <2>3 DEF InFlight
      <4> QED
        BY <2>2, <4>1, <4>2
    <3>2. CASE n \notin 1 .. seq[q]
      <4>1. q = p /\ n = seq[p] + 1
        BY <2>1, <3>2
      <4> QED
        BY <2>3, <4>1 DEF InFlight, Is
    <3> QED
      BY <3>1, <3>2
  <2> QED
    BY <2>10, <2>11, <2>12 DEF SyncInv, ChangesAccountedFor
<1>2. ASSUME NEW e \in posts, Receive(e) \/ ReceiveUnanswered(e)
      PROVE  SyncInv'
  <2> DEFINE message == [ev |-> e, tries |-> 0]
  <2>1. /\ UNCHANGED <<seq, live, worker, indexer, point, stamp, overtaken, dropped>>
        /\ tasks' = tasks \cup {message}
        /\ posts' = posts \/ posts' = posts \ {e}
    BY <1>2 DEF Receive, ReceiveUnanswered, saleor, qdrant
  <2>2. MessagesOK'
    BY <2>1 DEF SyncInv, MessagesOK, HeldOK, EventOK, PayloadOK
  <2>3. PointsOK'
    BY <2>1, PointsStay DEF SyncInv, saleor, qdrant
  <2>4. \A q \in Products : \A n \in 1 .. seq[q] : InFlight(q, n) => InFlight(q, n)'
    <3>1. message \in tasks' /\ message.ev = e
      BY <2>1
    <3>2. \A f \in posts : f \in posts' \/ f = e
      BY <2>1
    <3> QED
      BY <2>1, <3>1, <3>2 DEF InFlight
  <2> QED
    BY <2>1, <2>2, <2>3, <2>4 DEF SyncInv, ChangesAccountedFor
<1> QED
  BY <1>1, <1>2 DEF SaleorNext

(* A reindex writes what was in Saleor when it fetched, products that were  *)
(* deleted left out.                                                        *)
LEMMA BatchKeeps ==
  ASSUME TypeOK, SyncInv, NEW i \in Indexers, BatchNext(i)
  PROVE  SyncInv'
<1>1. UNCHANGED <<seq, live, posts, tasks, worker, dropped>>
  BY DEF BatchNext, BatchStart, BatchFetch, BatchIndex, BatchEnds, saleor
<1>2. /\ PointsOK'
      /\ \A p \in Products : stamp[p] <= stamp'[p] /\ stamp[p] \in Nat /\ stamp'[p] \in Nat
  <2>1. CASE UNCHANGED qdrant
    BY <1>1, <2>1, PointsStay DEF SyncInv, saleor
  <2>2. CASE BatchIndex(i)
    <3> PICK skipped \in SUBSET Products :
          UpsertPoints([p \in Products |-> IF p \in skipped THEN 0 ELSE indexer[i].data[p]])
      BY <2>2 DEF BatchIndex
    <3> DEFINE data == [p \in Products |-> IF p \in skipped THEN 0 ELSE indexer[i].data[p]]
    <3>1. data \in [Products -> Changes]
      BY SyncAssumption DEF TypeOK, Indexer, Changes
    <3>2. \A p \in Products : PayloadOK(p, data[p])
      BY DEF SyncInv, MessagesOK, PayloadOK
    <3>3. UpsertPoints(data)
      OBVIOUS
    <3> HIDE DEF data
    <3>4. PointsOK' /\ \A p \in Products : stamp[p] <= stamp'[p]
      BY <1>1, <3>1, <3>2, <3>3, UpsertKeeps DEF SyncInv, saleor
    <3>5. \A p \in Products : stamp[p] \in Nat /\ stamp'[p] \in Nat
      BY <3>1, <3>3, WriteType, SyncAssumption DEF UpsertPoints, TypeOK, Changes
    <3> QED
      BY <3>4, <3>5
  <2> QED
    BY <2>1, <2>2 DEF BatchNext, BatchStart, BatchFetch, BatchEnds
<1>3. \A j \in Indexers, p \in Products : PayloadOK(p, indexer'[j].data[p])
  <2>1. CASE BatchFetch(i)
    <3> DEFINE rec(p) ==
          [pc   |-> "fetch", todo |-> indexer[i].todo \ {p},
           data |-> [indexer[i].data EXCEPT ![p] = IF live[p] THEN seq[p] ELSE 0]]
    <3>1. PICK p \in indexer[i].todo : indexer' = [indexer EXCEPT ![i] = rec(p)]
      BY <2>1 DEF BatchFetch
    <3>2. p \in Products /\ seq[p] \in Int
          /\ \A q \in Products : indexer[i].data[q] \in Changes
          /\ indexer[i].data \in [Products -> Changes]
      BY SyncAssumption DEF TypeOK, Indexer, Changes
    <3>3. \A q \in Products : PayloadOK(q, rec(p).data[q])
      BY <3>2 DEF SyncInv, MessagesOK, PayloadOK
    <3> HIDE DEF rec
    <3>4. \A j \in Indexers : indexer'[j] = IF j = i THEN rec(p) ELSE indexer[j]
      BY <3>1 DEF TypeOK
    <3> QED
      BY <3>3, <3>4 DEF SyncInv, MessagesOK
  <2>2. CASE BatchStart(i) \/ BatchIndex(i) \/ BatchEnds(i)
    <3>1. indexer'[i].data = [p \in Products |-> 0]
      <4>1. CASE BatchStart(i)
        <5>1. indexer'[i] = [IdleIndexer EXCEPT !.pc = "fetch",
                                                !.todo = {p \in Products : seq[p] > 0}]
          BY <4>1 DEF BatchStart, TypeOK
        <5> QED
          BY <5>1 DEF IdleIndexer
      <4>2. CASE BatchIndex(i) \/ BatchEnds(i)
        <5>1. indexer'[i] = IdleIndexer
          BY <4>2 DEF BatchIndex, BatchEnds, TypeOK
        <5> QED
          BY <5>1 DEF IdleIndexer
      <4> QED
        BY <2>2, <4>1, <4>2
    <3>2. \A j \in Indexers \ {i} : indexer'[j] = indexer[j]
      BY <2>2 DEF BatchStart, BatchIndex, BatchEnds, TypeOK
    <3> QED
      BY <3>1, <3>2 DEF SyncInv, MessagesOK, PayloadOK
  <2> QED
    BY <2>1, <2>2 DEF BatchNext
<1>4. MessagesOK'
  BY <1>1, <1>3 DEF SyncInv, MessagesOK, HeldOK, EventOK, PayloadOK
<1>5. ASSUME NEW p \in Products, NEW n \in 1 .. seq[p]
      PROVE  (InFlight(p, n) \/ <<p, n>> \in dropped \/ n <= stamp[p])'
  <2>1. seq[p] \in Int
    BY SyncAssumption DEF TypeOK, Changes
  <2> QED
    BY <1>1, <1>2, <2>1 DEF SyncInv, ChangesAccountedFor, InFlight
<1> QED
  BY <1>1, <1>2, <1>4, <1>5 DEF SyncInv, ChangesAccountedFor

(* An exception takes a worker to the handlers, with its message. *)
LEMMA WorkerRaises ==
  ASSUME TypeOK, SyncInv, UNCHANGED <<seq, live, posts, indexer, tasks, dropped>>,
         NEW w \in Workers, NEW error, worker[w].pc \in OpenPC, Raise(w, error),
         PointsOK', \A p \in Products : stamp[p] <= stamp'[p] /\ stamp'[p] \in Nat
  PROVE  SyncInv'
<1>1. PICK r : /\ worker' = [worker EXCEPT ![w] = r]
               /\ r.held = worker[w].held /\ r.pc = "raised"
  <2> DEFINE r == [worker[w] EXCEPT !.pc = "raised", !.error = error]
  <2>1. worker' = [worker EXCEPT ![w] = r]
    BY DEF Raise, TypeOK
  <2>2. r.held = worker[w].held /\ r.pc = "raised"
    BY DEF TypeOK, Worker
  <2> HIDE DEF r
  <2> QED
    BY <2>1, <2>2
<1>2. \A m \in r.held : HeldOK(r, m)
  BY <1>1 DEF SyncInv, MessagesOK, HeldOK
<1> QED
  BY <1>1, <1>2, WorkerGoesOn DEF OpenPC

(* A worker that is done with its message, which was written, dropped or    *)
(* published again.                                                         *)
LEMMA WorkerDone ==
  ASSUME TypeOK, SyncInv, UNCHANGED <<seq, live, posts, indexer>>, dropped \subseteq dropped',
         NEW w \in Workers, GoWork(w, "ack"),
         tasks \subseteq tasks', \A m \in tasks' : EventOK(m.ev),
         PointsOK', \A p \in Products : stamp[p] <= stamp'[p] /\ stamp'[p] \in Nat,
         \A m \in worker[w].held : \/ \E k \in tasks' : k.ev = m.ev
                                   \/ <<m.ev.p, m.ev.n>> \in dropped'
                                   \/ m.ev.n <= stamp'[m.ev.p]
  PROVE  SyncInv'
<1>1. PICK r : /\ worker' = [worker EXCEPT ![w] = r]
               /\ r.held = worker[w].held /\ r.pc = "ack"
  <2> DEFINE r == [worker[w] EXCEPT !.pc = "ack"]
  <2>1. worker' = [worker EXCEPT ![w] = r]
    BY DEF GoWork, TypeOK
  <2>2. r.held = worker[w].held /\ r.pc = "ack"
    BY DEF TypeOK, Worker
  <2> HIDE DEF r
  <2> QED
    BY <2>1, <2>2
<1>2. \A m \in r.held : HeldOK(r, m)
  BY <1>1 DEF SyncInv, MessagesOK, HeldOK
<1>3. \A p \in Products : stamp[p] \in Nat
  BY SyncAssumption DEF TypeOK, Changes
<1> QED
  BY <1>1, <1>2, <1>3, WorkerMoves DEF SyncInv

(* A worker that no longer has its message, which was dropped or is back in *)
(* the queue, or that had none to settle.                                   *)
LEMMA WorkerFreed ==
  ASSUME TypeOK, SyncInv, UNCHANGED <<seq, live, posts, indexer, qdrant>>,
         dropped \subseteq dropped', NEW w \in Workers,
         worker' = [worker EXCEPT ![w] = IdleWorker],
         tasks' \in {tasks, tasks \cup worker[w].held},
         worker[w].pc \in OpenPC => \A m \in worker[w].held :
            m \in tasks' \/ <<m.ev.p, m.ev.n>> \in dropped'
  PROVE  SyncInv'
<1>1. /\ PointsOK'
      /\ \A p \in Products : stamp[p] <= stamp'[p] /\ stamp[p] \in Nat /\ stamp'[p] \in Nat
  BY PointsStay DEF SyncInv, saleor
<1>2. \A m \in tasks' : EventOK(m.ev)
  BY DEF SyncInv, MessagesOK, HeldOK
<1>3. \A m \in IdleWorker.held : HeldOK(IdleWorker, m)
  BY DEF IdleWorker
<1> QED
  BY <1>1, <1>2, <1>3, WorkerMoves DEF SyncInv

(* The steps of the task, and everything that can happen to its worker. *)
LEMMA WorkKeeps ==
  ASSUME TypeOK, SyncInv, NEW w \in Workers, WorkNext(w)
  PROVE  SyncInv'
<1> USE SyncAssumption
<1>1. ASSUME NEW m \in tasks, Take(w, m)
      PROVE  SyncInv'
  <2> DEFINE pc == IF m.ev.kind = "upsert" THEN "build" ELSE "delete"
  <2>1. PICK r : /\ worker' = [worker EXCEPT ![w] = r]
                 /\ r = [pc |-> pc, held |-> {m}, data |-> 0, error |-> "none"]
    BY <1>1 DEF Take
  <2>2. HeldOK(r, m)
    BY <2>1 DEF SyncInv, MessagesOK, HeldOK, TypeOK, Message, Event
  <2>3. /\ PointsOK'
        /\ \A p \in Products : stamp[p] <= stamp'[p] /\ stamp[p] \in Nat /\ stamp'[p] \in Nat
    BY <1>1, PointsStay DEF Take, SyncInv
  <2>4. UNCHANGED <<seq, live, posts, indexer, dropped>> /\ tasks' = tasks \ {m}
    BY <1>1 DEF Take, saleor
  <2>5. r.held = {m} /\ r.pc \in OpenPC /\ worker[w].pc \notin OpenPC
    BY <1>1, <2>1 DEF Take, OpenPC
  <2>6. (\A k \in tasks' : EventOK(k.ev)) /\ (\A k \in tasks : k \in tasks' \/ k \in r.held)
    BY <2>4, <2>5 DEF SyncInv, MessagesOK
  <2>7. \A k \in r.held : HeldOK(r, k)
    BY <2>2, <2>5
  <2> QED
    BY <2>1, <2>3, <2>4, <2>5, <2>6, <2>7, WorkerMoves DEF SyncInv
<1>2. CASE Build(w)
  <2>1. /\ UNCHANGED <<seq, live, posts, indexer, tasks, dropped>>
        /\ worker[w].pc = "build" /\ PointsOK'
        /\ \A p \in Products : stamp[p] <= stamp'[p] /\ stamp'[p] \in Nat
    BY <1>2, PointsStay DEF Build, SyncInv, saleor
  <2>2. CASE Raise(w, "permanent")
    BY <2>1, <2>2, WorkerRaises DEF OpenPC
  <2>3. CASE ~Raise(w, "permanent")
    <3>0. PICK m \in worker[w].held :
            /\ Payload(m.ev) # 0
            /\ worker' = [worker EXCEPT ![w].pc = "index", ![w].data = Payload(m.ev)]
      BY <1>2, <2>3 DEF Build
    <3>1. PICK found :
            /\ found # 0
            /\ found = m.ev.n \/ (live[m.ev.p] /\ found = seq[m.ev.p])
            /\ worker' = [worker EXCEPT ![w].pc = "index", ![w].data = found]
      BY <3>0 DEF Payload, FromEvent, FromSaleor
    <3>2. /\ m.ev.p \in Products /\ m.ev.n \in Nat /\ seq[m.ev.p] \in Nat
          /\ HeldOK(worker[w], m) /\ m.ev.n <= seq[m.ev.p] /\ m.ev.kind = "upsert"
          /\ m.ev.n = seq[m.ev.p] => live[m.ev.p]
      BY <2>1 DEF SyncInv, MessagesOK, HeldOK, EventOK, TypeOK, Worker, Message, Event, Changes
    <3>3. m.ev.n <= found /\ PayloadOK(m.ev.p, found)
      BY <3>1, <3>2 DEF PayloadOK
    <3>4. PICK r : /\ worker' = [worker EXCEPT ![w] = r]
                   /\ r.held = worker[w].held /\ r.pc = "index" /\ r.data = found
      <4> DEFINE r == [worker[w] EXCEPT !.pc = "index", !.data = found]
      <4>1. worker' = [worker EXCEPT ![w] = r]
        BY <3>1 DEF TypeOK
      <4>2. r.held = worker[w].held /\ r.pc = "index" /\ r.data = found
        BY DEF TypeOK, Worker
      <4> HIDE DEF r
      <4> QED
        BY <4>1, <4>2
    <3>5. \A k \in r.held : HeldOK(r, k)
      BY <3>2, <3>3, <3>4 DEF HeldOK
    <3> QED
      BY <2>1, <3>4, <3>5, WorkerGoesOn DEF OpenPC
  <2> QED
    BY <2>2, <2>3
<1>3. CASE BuildFails(w) \/ SummariseFails(w)
  <2>1. /\ UNCHANGED <<seq, live, posts, indexer, tasks, dropped>>
        /\ worker[w].pc \in OpenPC /\ PointsOK'
        /\ \A p \in Products : stamp[p] <= stamp'[p] /\ stamp'[p] \in Nat
    BY <1>3, PointsStay DEF BuildFails, SummariseFails, SyncInv, saleor, OpenPC
  <2>2. \E error : Raise(w, error)
    BY <1>3 DEF BuildFails, SummariseFails
  <2> QED
    BY <2>1, <2>2, WorkerRaises
<1>4. CASE Upsert(w)
  <2>1. /\ UNCHANGED <<seq, live, posts, indexer, tasks, dropped>>
        /\ worker[w].pc = "index" /\ GoWork(w, "ack") /\ UNCHANGED saleor
    BY <1>4 DEF Upsert, saleor
  <2> PICK m \in worker[w].held : UpsertPoints(Only(m.ev.p, worker[w].data))
    BY <1>4 DEF Upsert
  <2>2. /\ PointsOK' /\ m.ev.n <= stamp'[m.ev.p]
        /\ \A p \in Products : /\ stamp[p] <= stamp'[p]
                               /\ stamp[p] \in Nat /\ stamp'[p] \in Nat
    BY <2>1, WorkerUpserts
  <2>3. (\A k \in worker[w].held : k = m) /\ (\A k \in tasks' : EventOK(k.ev))
    BY <2>1 DEF SyncInv, MessagesOK, HeldOK
  <2> QED
    BY <2>1, <2>2, <2>3, WorkerDone
<1>5. CASE UpsertFails(w)
  <2>1. /\ UNCHANGED <<seq, live, posts, indexer, tasks, dropped>>
        /\ worker[w].pc = "index" /\ UNCHANGED saleor /\ \E error : Raise(w, error)
    BY <1>5 DEF UpsertFails, saleor
  <2>2. /\ PointsOK'
        /\ \A p \in Products : /\ stamp[p] <= stamp'[p]
                               /\ stamp[p] \in Nat /\ stamp'[p] \in Nat
    BY <1>5, <2>1, WorkerUpserts, PointsStay DEF UpsertFails, SyncInv
  <2> QED
    BY <2>1, <2>2, WorkerRaises DEF OpenPC
<1>6. CASE Delete(w)
  <2>1. /\ UNCHANGED <<seq, live, posts, indexer, tasks>>
        /\ worker[w].pc = "delete" /\ GoWork(w, "ack") /\ UNCHANGED saleor
    BY <1>6 DEF Delete, saleor
  <2> PICK m \in worker[w].held :
        \/ dropped' = dropped \cup {<<m.ev.p, m.ev.n>>} /\ UNCHANGED qdrant
        \/ DeletePoint(m.ev.p, m.ev.n) /\ UNCHANGED dropped
    BY <1>6 DEF Delete
  <2>2. /\ PointsOK' /\ (<<m.ev.p, m.ev.n>> \in dropped' \/ m.ev.n <= stamp'[m.ev.p])
        /\ \A p \in Products : /\ stamp[p] <= stamp'[p]
                               /\ stamp[p] \in Nat /\ stamp'[p] \in Nat
    BY <2>1, WorkerDeletes, PointsStay DEF SyncInv
  <2>3. (\A k \in worker[w].held : k = m) /\ (\A k \in tasks' : EventOK(k.ev))
    BY <2>1 DEF SyncInv, MessagesOK, HeldOK
  <2>4. dropped \subseteq dropped'
    OBVIOUS
  <2> QED
    BY <2>1, <2>2, <2>3, <2>4, WorkerDone
<1>7. CASE DeleteFails(w)
  <2>1. /\ UNCHANGED <<seq, live, posts, indexer, tasks, dropped>>
        /\ worker[w].pc = "delete" /\ UNCHANGED saleor /\ \E error : Raise(w, error)
    BY <1>7 DEF DeleteFails, saleor
  <2>2. /\ PointsOK'
        /\ \A p \in Products : /\ stamp[p] <= stamp'[p]
                               /\ stamp[p] \in Nat /\ stamp'[p] \in Nat
    BY <1>7, <2>1, WorkerDeletes, PointsStay DEF DeleteFails, SyncInv
  <2> QED
    BY <2>1, <2>2, WorkerRaises DEF OpenPC
<1>8. CASE Catch(w)
  <2>1. /\ UNCHANGED <<seq, live, posts, indexer>> /\ GoWork(w, "ack") /\ PointsOK'
        /\ \A p \in Products : stamp[p] <= stamp'[p] /\ stamp'[p] \in Nat
    BY <1>8, PointsStay DEF Catch, SyncInv, saleor
  <2>2. PICK m \in worker[w].held :
          \/ /\ tasks' = tasks \cup {[m EXCEPT !.tries = @ + 1]}
             /\ UNCHANGED dropped
          \/ /\ dropped' = dropped \cup {<<m.ev.p, m.ev.n>>}
             /\ UNCHANGED tasks
    BY <1>8 DEF Catch
  <2>3. (\A k \in worker[w].held : k = m) /\ EventOK(m.ev)
    BY DEF SyncInv, MessagesOK, HeldOK
  <2>4. [m EXCEPT !.tries = @ + 1].ev = m.ev
    BY DEF TypeOK, Worker, Message
  <2>5. \A k \in tasks' : EventOK(k.ev)
    BY <2>2, <2>3, <2>4 DEF SyncInv, MessagesOK
  <2>6. (\E k \in tasks' : k.ev = m.ev) \/ <<m.ev.p, m.ev.n>> \in dropped'
    BY <2>2, <2>4
  <2>7. dropped \subseteq dropped' /\ tasks \subseteq tasks'
    BY <2>2
  <2> QED
    BY <2>1, <2>3, <2>5, <2>6, <2>7, WorkerDone
<1>9. CASE CatchFails(w)
  <2>1. /\ UNCHANGED <<seq, live, posts, tasks, indexer>> /\ GoWork(w, "ack") /\ PointsOK'
        /\ \A p \in Products : stamp[p] <= stamp'[p] /\ stamp'[p] \in Nat
    BY <1>9, PointsStay DEF CatchFails, SyncInv, saleor
  <2>2. PICK m \in worker[w].held : dropped' = dropped \cup {<<m.ev.p, m.ev.n>>}
    BY <1>9 DEF CatchFails
  <2>3. (\A k \in worker[w].held : k = m) /\ (\A k \in tasks' : EventOK(k.ev))
    BY <2>1 DEF SyncInv, MessagesOK, HeldOK
  <2> QED
    BY <2>1, <2>2, <2>3, WorkerDone
<1>10. CASE Ack(w)
  BY <1>10, WorkerFreed DEF Ack, saleor, OpenPC
<1>11. CASE WorkerLost(w)
  BY <1>11, WorkerFreed DEF WorkerLost, Requeue, saleor
<1>12. CASE WorkerKilled(w)
  BY <1>12, WorkerFreed DEF WorkerKilled, saleor
<1> QED
  BY <1>1, <1>2, <1>3, <1>4, <1>5, <1>6, <1>7, <1>8, <1>9, <1>10, <1>11,
     <1>12
  DEF WorkNext, WorkStep, WorkFault

-----------------------------------------------------------------------------
(* The theorems                                                            *)

LEMMA Inductive == Spec => []SyncInv
<1>1. Init => SyncInv
  BY SyncAssumption
  DEF Init, SyncInv, MessagesOK, PointsOK, NewestWriteStands, Image, PayloadOK, EventOK,
      ChangesAccountedFor, IdleWorker, IdleIndexer
<1>2. TypeOK /\ SyncInv /\ [Next]_vars => SyncInv'
  <2> SUFFICES ASSUME TypeOK, SyncInv, [Next]_vars PROVE SyncInv'
    OBVIOUS
  <2>1. CASE UNCHANGED vars
    BY <2>1 DEF vars, SyncInv, MessagesOK, PointsOK, NewestWriteStands, Image, HeldOK,
                EventOK, PayloadOK, ChangesAccountedFor, InFlight
  <2> QED
    BY <2>1, SaleorKeeps, WorkKeeps, BatchKeeps DEF Next, SaleorNext, WorkNext, BatchNext
<1> QED
  BY <1>1, <1>2, SyncTypeCorrect, PTL DEF Spec

(* No change in Saleor gets lost on its way to Qdrant: it is on its way,    *)
(* its task has given up, or the point has it or a newer one.               *)
THEOREM NoChangeLost == Spec => []ChangesAccountedFor
<1>1. SyncInv => ChangesAccountedFor
  BY DEF SyncInv
<1> QED
  BY <1>1, Inductive, PTL

(* Once nothing is on its way, a product of which nothing was dropped and   *)
(* no write was overtaken by an older one is in Qdrant as it is in Saleor.  *)
THEOREM SettledIsCurrent == Spec => []SettledMeansCurrent
<1>1. TypeOK /\ SyncInv => SettledMeansCurrent
  <2> SUFFICES ASSUME TypeOK, SyncInv, NEW p \in Products, Settled(p)
               PROVE  point[p] = IF live[p] THEN seq[p] ELSE 0
    BY DEF SettledMeansCurrent
  <2>1. /\ seq[p] \in Nat /\ stamp[p] \in Nat /\ stamp[p] <= seq[p]
        /\ point[p] = Image(p, stamp[p])
    BY SyncAssumption
    DEF TypeOK, Changes, SyncInv, PointsOK, NewestWriteStands, Settled
  <2>2. \A n \in 1 .. seq[p] : n <= stamp[p]
    BY DEF Settled, SyncInv, ChangesAccountedFor
  <2>3. seq[p] > 0 => seq[p] <= stamp[p]
    BY <2>1, <2>2
  <2> QED
    BY <2>1, <2>3 DEF Image
<1> QED
  BY <1>1, Inductive, SyncTypeCorrect, PTL
=============================================================================
