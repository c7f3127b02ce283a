-------------------------- MODULE ThreadLifecycle --------------------------
(***************************************************************************)
(* The life of one conversation thread: chat runs that claim it, DELETE    *)
(* requests, the delete_thread task and the nightly sweep that remove it,  *)
(* and the images that a run stores in S3 and records in PostgreSQL.       *)
(*                                                                         *)
(* The API process serves all requests on one event loop, and the Celery   *)
(* workers of the cleanup queue are processes of their own: whatever lies  *)
(* between two awaited calls of a handler may be interleaved with anybody  *)
(* else's calls, so each awaited call is an action.                        *)
(***************************************************************************)
EXTENDS Integers, FiniteSets

CONSTANTS
    Runs,        \* requests POST /threads/{id}/runs/stream; each run makes at
                 \* most one image, which is named by the run
    Deletes,     \* requests DELETE /threads/{id}
    Cleaners,    \* worker processes on the cleanup queue
    MaxSweeps,   \* bound: how often Beat publishes the sweep
    MaxLosses,   \* bound: cleaner processes lost with an unacknowledged message
    MaxCrashes,  \* bound: crashes of the API process
    MaxFaults    \* bound: calls to PostgreSQL, S3 or the broker that fail

ASSUME BoundsAssumption ==
    /\ MaxSweeps \in Nat /\ MaxLosses \in Nat
    /\ MaxCrashes \in Nat /\ MaxFaults \in Nat

VARIABLES
    status,      \* the status column of the threads row, or "gone"
    activity,    \* last_activity_at against the cutoff of the sweep
    run,         \* where each run is
    upload,      \* the put_object call of each run, in a thread of its own
    objects,     \* images in S3
    imgs,        \* images with a generated_images row
    del,         \* where each DELETE request is
    queue,       \* delete_thread messages ready
    sweeps,      \* sweep messages ready
    cleaner,     \* what each worker of the cleanup queue does
    ticks, losses, crashes, faults   \* how much of each bound is spent

rowVars   == <<status, activity>>
imageVars == <<upload, objects, imgs>>
apiVars   == <<run, del>>
taskVars  == <<queue, sweeps, cleaner>>
bounds    == <<ticks, losses, crashes, faults>>
vars == <<status, activity, run, upload, objects, imgs, del, queue, sweeps,
          cleaner, ticks, losses, crashes, faults>>

-----------------------------------------------------------------------------
Status == {"idle", "busy", "deleting", "gone"}

\* "image" and "insert" are inside generate_image; a run in ActivePC owns the
\* thread: it has claimed it and has not handed it back.  A "stuck" run will not
\* do so any more.
ActivePC == {"graph", "image", "insert"}
RunPC    == ActivePC \cup {"new", "got", "touch", "ended", "refused", "lost", "stuck"}
DelPC    == {"new", "got", "marked", "accepted", "refused", "lost"}

\* A cleaner at one of ChainPC is deleting the thread.
ChainPC  == {"list", "s3", "thread"}
CleanPC  == ChainPC \cup {"idle", "find", "mark", "ack"}
Cleaner  == [pc : CleanPC, kind : {"delete", "sweep"},
            listed : SUBSET Runs,   \* what list_by_thread returned
            todo   : SUBSET Runs]   \* those of them not yet deleted from S3

Started(pc, kind) == [pc |-> pc, kind |-> kind, listed |-> {}, todo |-> {}]
IdleCleaner == Started("idle", "delete")
Active(r)   == run[r] \in ActivePC

\* UPDATE threads SET status = s WHERE id = ...: no row, no effect.
SetStatus(s) == status' = IF status = "gone" THEN "gone" ELSE s
GoRun(r, pc) == run' = [run EXCEPT ![r] = pc]
GoDel(d, pc) == del' = [del EXCEPT ![d] = pc]
GoClean(c, pc) == cleaner' = [cleaner EXCEPT ![c].pc = pc]

Init ==
    /\ status = "idle"
    /\ activity \in {"aging", "recent"}
    /\ run = [r \in Runs |-> "new"]
    /\ upload = [r \in Runs |-> "none"]
    /\ objects = {} /\ imgs = {}
    /\ del = [d \in Deletes |-> "new"]
    /\ queue = 0 /\ sweeps = 0
    /\ cleaner = [c \in Cleaners |-> IdleCleaner]
    /\ ticks = 0 /\ losses = 0 /\ crashes = 0 /\ faults = 0

-----------------------------------------------------------------------------
(* stream_run and its background task _run_graph                           *)

\* get(): 404 for a missing row, 410 for one that is being deleted.
RunGet(r) ==
    /\ run[r] = "new"
    /\ GoRun(r, IF status \in {"gone", "deleting"} THEN "refused" ELSE "got")
    /\ UNCHANGED <<rowVars, imageVars, del, taskVars, bounds>>

\* Slip: the status that get() returned is taken for the current one.
RunClaimStale(r) ==
    /\ run[r] = "got"
    /\ SetStatus("busy") /\ GoRun(r, "graph")
    /\ UNCHANGED <<activity, imageVars, del, taskVars, bounds>>

\* set_status_if_idle: one UPDATE that tests and sets; 409 otherwise.
RunClaim(r) ==
    /\ run[r] = "got"
    /\ IF status = "idle"
       THEN status' = "busy" /\ GoRun(r, "graph")
       ELSE UNCHANGED status /\ GoRun(r, "refused")
    /\ UNCHANGED <<activity, imageVars, del, taskVars, bounds>>

\* generate_image hands the upload to a thread of the pool ...
RunUpload(r) ==
    /\ run[r] = "graph" /\ upload[r] = "none"
    /\ upload' = [upload EXCEPT ![r] = "going"]
    /\ GoRun(r, "image")
    /\ UNCHANGED <<rowVars, objects, imgs, del, taskVars, bounds>>

\* ... which finishes it even when the run has been cancelled meanwhile.
UploadLands(r) ==
    /\ upload[r] = "going"
    /\ upload' = [upload EXCEPT ![r] = "done"]
    /\ objects' = objects \cup {r}
    /\ run' = IF run[r] = "image" THEN [run EXCEPT ![r] = "insert"] ELSE run
    /\ UNCHANGED <<rowVars, imgs, del, taskVars, bounds>>

\* The foreign key refuses the row of a thread that is gone; the object stays.
RunInsert(r) ==
    /\ run[r] = "insert"
    /\ imgs' = IF status = "gone" THEN imgs ELSE imgs \cup {r}
    /\ GoRun(r, "graph")
    /\ UNCHANGED <<rowVars, upload, objects, del, taskVars, bounds>>

\* put_object or the INSERT raises: the node reports it and the graph goes on;
\* an object that is there already stays.
RunImageFails(r) ==
    /\ faults < MaxFaults /\ faults' = faults + 1
    /\ run[r] \in {"image", "insert"} /\ GoRun(r, "graph")
    /\ upload' = [upload EXCEPT ![r] = "done"]
    /\ UNCHANGED <<rowVars, objects, imgs, del, taskVars, ticks, losses,
                   crashes>>

\* Slip: the reset is skipped when the graph has raised or timed out.
RunResetOnSuccess(r) ==
    /\ Active(r)
    /\ IF run[r] = "graph" THEN SetStatus("idle") ELSE UNCHANGED status
    /\ GoRun(r, "touch")
    /\ UNCHANGED <<activity, imageVars, del, taskVars, bounds>>

\* The finally block, after the graph returned, raised or ran into the timeout
\* wherever it was.  The status it overwrites is not looked at.
RunReset(r) ==
    /\ Active(r)
    /\ SetStatus("idle") /\ GoRun(r, "touch")
    /\ UNCHANGED <<activity, imageVars, del, taskVars, bounds>>

RunTouch(r) ==
    /\ run[r] = "touch"
    /\ activity' = "recent" /\ GoRun(r, "ended")
    /\ UNCHANGED <<status, imageVars, del, taskVars, bounds>>

\* The reset or the touch fails: it is logged, and that is all.
RunResetFails(r) ==
    /\ faults < MaxFaults /\ faults' = faults + 1
    /\ \/ Active(r) /\ GoRun(r, "stuck")
       \/ run[r] = "touch" /\ GoRun(r, "ended")
    /\ UNCHANGED <<rowVars, imageVars, del, taskVars, ticks, losses, crashes>>

RunStep(r) == RunGet(r) \/ RunClaim(r) \/ RunUpload(r) \/ RunInsert(r)
              \/ RunReset(r) \/ RunTouch(r)

-----------------------------------------------------------------------------
(* DELETE /threads/{id}                                                    *)

DelGet(d) ==
    /\ del[d] = "new"
    /\ GoDel(d, IF status \in {"gone", "deleting"} THEN "refused" ELSE "got")
    /\ UNCHANGED <<rowVars, imageVars, run, taskVars, bounds>>

\* A run that is under way is not asked.
DelMark(d) ==
    /\ del[d] = "got"
    /\ SetStatus("deleting") /\ GoDel(d, "marked")
    /\ UNCHANGED <<activity, imageVars, run, taskVars, bounds>>

DelEnqueue(d) ==
    /\ del[d] = "marked"
    /\ queue' = queue + 1 /\ GoDel(d, "accepted")
    /\ UNCHANGED <<rowVars, imageVars, run, sweeps, cleaner, bounds>>

\* PostgreSQL or the broker fails: 500, and nobody undoes the mark.
DelFails(d) ==
    /\ faults < MaxFaults /\ faults' = faults + 1
    /\ del[d] \in {"got", "marked"} /\ GoDel(d, "lost")
    /\ UNCHANGED <<rowVars, imageVars, run, taskVars, ticks, losses, crashes>>

DelStep(d) == DelGet(d) \/ DelMark(d) \/ DelEnqueue(d)

\* The API process dies with every request, run and upload it was serving.
ApiCrash ==
    /\ crashes < MaxCrashes /\ crashes' = crashes + 1
    /\ run' = [r \in Runs |-> IF Active(r) THEN "stuck"
                              ELSE IF run[r] \in {"got", "touch"} THEN "lost"
                              ELSE run[r]]
    /\ del' = [d \in Deletes |-> IF del[d] \in {"got", "marked"}
                                 THEN "lost" ELSE del[d]]
    /\ upload' = [r \in Runs |-> IF upload[r] = "going" THEN "none" ELSE upload[r]]
    /\ UNCHANGED <<rowVars, objects, imgs, taskVars, ticks, losses, faults>>

-----------------------------------------------------------------------------
(* The cleanup queue: delete_thread, and cleanup_expired_threads.          *)

\* thread_expiry_days have passed since the last touch.
Expire ==
    /\ activity = "aging" /\ activity' = "expired"
    /\ UNCHANGED <<status, imageVars, apiVars, taskVars, bounds>>

BeatTick ==
    /\ ticks < MaxSweeps /\ ticks' = ticks + 1
    /\ sweeps' = sweeps + 1
    /\ UNCHANGED <<rowVars, imageVars, apiVars, queue, cleaner, losses, crashes,
                   faults>>

\* Slip: a message is taken for which nothing is in the queue.
TakeDeleteEmpty(c) ==
    /\ cleaner[c].pc = "idle"
    /\ queue' = queue - 1
    /\ cleaner' = [cleaner EXCEPT ![c] = Started("list", "delete")]
    /\ UNCHANGED <<rowVars, imageVars, apiVars, sweeps, bounds>>

TakeDelete(c) ==
    /\ cleaner[c].pc = "idle" /\ queue > 0
    /\ queue' = queue - 1
    /\ cleaner' = [cleaner EXCEPT ![c] = Started("list", "delete")]
    /\ UNCHANGED <<rowVars, imageVars, apiVars, sweeps, bounds>>

TakeSweep(c) ==
    /\ cleaner[c].pc = "idle" /\ sweeps > 0
    /\ sweeps' = sweeps - 1
    /\ cleaner' = [cleaner EXCEPT ![c] = Started("find", "sweep")]
    /\ UNCHANGED <<rowVars, imageVars, apiVars, queue, bounds>>

\* find_expired: a busy thread qualifies, too.
SweepFind(c) ==
    /\ cleaner[c].pc = "find"
    /\ GoClean(c, IF activity = "expired" /\ status \notin {"deleting", "gone"}
                  THEN "mark" ELSE "ack")
    /\ UNCHANGED <<rowVars, imageVars, apiVars, queue, sweeps, bounds>>

\* The sweep reaches the thread in its list, perhaps after many others, and
\* does not look again whether it still qualifies.
SweepMark(c) ==
    /\ cleaner[c].pc = "mark"
    /\ SetStatus("deleting") /\ GoClean(c, "list")
    /\ UNCHANGED <<activity, imageVars, apiVars, queue, sweeps, bounds>>

CleanList(c) ==
    /\ cleaner[c].pc = "list"
    /\ cleaner' = [cleaner EXCEPT ![c].pc = "s3", ![c].listed = imgs,
                                  ![c].todo = imgs]
    /\ UNCHANGED <<rowVars, imageVars, apiVars, queue, sweeps, bounds>>

CleanObject(c) ==
    /\ cleaner[c].pc = "s3"
    /\ \E o \in cleaner[c].todo :
          /\ objects' = objects \ {o}
          /\ cleaner' = [cleaner EXCEPT ![c].todo = @ \ {o}]
    /\ UNCHANGED <<rowVars, upload, imgs, apiVars, queue, sweeps, bounds>>

\* Slip: the rows are deleted first.
CleanRowsFirst(c) ==
    /\ cleaner[c].pc = "s3"
    /\ imgs' = {} /\ GoClean(c, "thread")
    /\ UNCHANGED <<rowVars, upload, objects, apiVars, queue, sweeps, bounds>>

\* delete_by_thread deletes the rows that are there now, listed or not.
CleanRows(c) ==
    /\ cleaner[c].pc = "s3" /\ cleaner[c].todo = {}
    /\ imgs' = {} /\ GoClean(c, "thread")
    /\ UNCHANGED <<rowVars, upload, objects, apiVars, queue, sweeps, bounds>>

\* The row goes whatever its status is; what is left of the rows cascades.
CleanThread(c) ==
    /\ cleaner[c].pc = "thread"
    /\ status' = "gone" /\ imgs' = {} /\ GoClean(c, "ack")
    /\ UNCHANGED <<activity, upload, objects, apiVars, queue, sweeps, bounds>>

CleanAck(c) ==
    /\ cleaner[c].pc = "ack"
    /\ cleaner' = [cleaner EXCEPT ![c] = IdleCleaner]
    /\ UNCHANGED <<rowVars, imageVars, apiVars, queue, sweeps, bounds>>

\* None of the errors of asyncpg and boto3 is in the transient list: the task
\* returns status "failed", which ends it for good.  (The time_limit of the sweep
\* ends it in the same way.)
CleanFails(c) ==
    /\ faults < MaxFaults /\ faults' = faults + 1
    /\ cleaner[c].pc \in ChainPC \cup {"find", "mark"}
    /\ GoClean(c, "ack")
    /\ UNCHANGED <<rowVars, imageVars, apiVars, queue, sweeps, ticks, losses, crashes>>

\* Slip: the message of a lost process is not put back.
RequeueNothing(c) == UNCHANGED <<queue, sweeps>>

Requeue(c) == IF cleaner[c].kind = "delete"
              THEN queue' = queue + 1 /\ UNCHANGED sweeps
              ELSE sweeps' = sweeps + 1 /\ UNCHANGED queue

CleanerLost(c) ==
    /\ losses < MaxLosses /\ losses' = losses + 1
    /\ cleaner[c].pc # "idle"
    /\ Requeue(c)
    /\ cleaner' = [cleaner EXCEPT ![c] = IdleCleaner]
    /\ UNCHANGED <<rowVars, imageVars, apiVars, ticks, crashes, faults>>

CleanStep(c) ==
    \/ TakeDelete(c) \/ TakeSweep(c) \/ SweepFind(c) \/ SweepMark(c)
    \/ CleanList(c) \/ CleanObject(c) \/ CleanRows(c) \/ CleanThread(c) \/ CleanAck(c)

-----------------------------------------------------------------------------
Next == \/ \E r \in Runs : \/ RunStep(r) \/ UploadLands(r)
                        \/ RunImageFails(r) \/ RunResetFails(r)
        \/ \E d \in Deletes : DelStep(d) \/ DelFails(d)
        \/ \E c \in Cleaners : CleanStep(c) \/ CleanFails(c) \/ CleanerLost(c)
        \/ ApiCrash \/ Expire \/ BeatTick

\* A request that has been let in is carried on by the event loop; a run ends
\* by itself or by asyncio.timeout; Celery consumes the cleanup queue.  Nobody
\* has to send a request, and time, Beat and failures are free to come or not.
Fairness ==
    /\ \A r \in Runs : /\ WF_vars(RunClaim(r)) /\ WF_vars(RunReset(r))
                       /\ WF_vars(RunTouch(r)) /\ WF_vars(UploadLands(r))
    /\ \A d \in Deletes : WF_vars(DelMark(d)) /\ WF_vars(DelEnqueue(d))
    /\ \A c \in Cleaners : WF_vars(CleanStep(c))

Spec == Init /\ [][Next]_vars /\ Fairness

-----------------------------------------------------------------------------
(* Properties                                                              *)

TypeOK ==
    /\ status \in Status
    /\ activity \in {"recent", "aging", "expired"}
    /\ run \in [Runs -> RunPC]
    /\ upload \in [Runs -> {"none", "going", "done"}]
    /\ objects \in SUBSET Runs /\ imgs \in SUBSET Runs
    /\ del \in [Deletes -> DelPC]
    /\ queue \in Nat /\ sweeps \in Nat
    /\ cleaner \in [Cleaners -> Cleaner]
    /\ ticks \in 0 .. MaxSweeps /\ losses \in 0 .. MaxLosses
    /\ crashes \in 0 .. MaxCrashes /\ faults \in 0 .. MaxFaults

(* Two runs never drive the graph of one thread at the same time, so its   *)
(* checkpoint has one writer; as long as one does, the row is not idle.    *)
(* DELETE and the sweep write the status over, and a crashed run never     *)
(* hands the thread back: neither lets a second run in beside a live one.  *)
RunsExclude ==
    /\ \A r, s \in Runs : Active(r) /\ Active(s) => r = s
    /\ (\E r \in Runs : Active(r)) => status # "idle"

(* A cleaner that drops the row of an image has deleted its object before,  *)
(* or the row was inserted after the cleaner had listed the images.  Such a *)
(* late row is the one way to leave an object without a row, whatever       *)
(* fails, is redelivered, or runs beside another cleaner and a run's        *)
(* upload; the sources admit none at all (NoRowBeforeItsObject below).      *)
OnlyLateRowsLeaveObjects ==
    [][\A r \in imgs \cap objects : r \notin imgs' =>
           \E c \in Cleaners : /\ cleaner'[c] # cleaner[c]
                              /\ r \notin cleaner[c].listed]_vars

(* A DELETE that was answered with 202 leads to the thread being gone, even *)
(* when a run hands the thread back as idle meanwhile, a worker is lost or  *)
(* the API crashes; only a call that fails may keep it.                     *)
DeleteCompletes == \A d \in Deletes :
    del[d] = "accepted" ~> status = "gone" \/ faults > 0

(* A thread that a run has claimed does not stay busy: every way out of the *)
(* graph, the timeout included, passes the reset.  Two things only take a   *)
(* run away without it: a crash of the API process, and a reset that fails. *)
BusyEnds ==
    status = "busy" ~> status # "busy" \/ \E r \in Runs : run[r] = "stuck"

-----------------------------------------------------------------------------
(* What the sources say of this component and the code does not do.        *)

(* "deleting: cleanup enqueued; no new runs accepted": a run that was under *)
(* way resets the status, and the next run is let in.                       *)
NoRunAfterDelete ==
    [][\A r \in Runs : run[r] = "got" /\ run'[r] = "graph" =>
           \A d \in Deletes : del[d] # "accepted"]_vars

(* "We never delete image rows that still reference a live S3 key": a row   *)
(* that a run inserts between the list of a cleaner and its DELETE is       *)
(* deleted with the others, and nobody knows of its object any more.        *)
NoRowBeforeItsObject == [][imgs \cap objects \subseteq imgs']_vars
=============================================================================
