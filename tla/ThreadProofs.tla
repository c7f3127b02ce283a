---------------------------- MODULE ThreadProofs ----------------------------
(***************************************************************************)
(* Theorems about ThreadLifecycle for every number of runs, requests,      *)
(* cleaners, sweeps, losses, crashes and failing calls.                    *)
(***************************************************************************)
EXTENDS ThreadLifecycle, TLAPS

RunNext(r) == RunStep(r) \/ UploadLands(r) \/ RunImageFails(r) \/ RunResetFails(r)

ApiNext == \/ \E d \in Deletes : DelStep(d) \/ DelFails(d)
           \/ ApiCrash \/ Expire \/ BeatTick

CleanNext(c) == CleanStep(c) \/ CleanFails(c) \/ CleanerLost(c)

-----------------------------------------------------------------------------
(* Type correctness                                                        *)

(* The statements of a run preserve the types. *)
LEMMA RunTypeOK ==
  ASSUME TypeOK, NEW r \in Runs, RunNext(r)
  PROVE  TypeOK'
<1> USE BoundsAssumption DEF TypeOK, rowVars, imageVars, taskVars, bounds, GoRun, SetStatus,
        Status, RunPC, ActivePC
<1>1. CASE RunGet(r) \/ RunClaim(r)
  BY <1>1 DEF RunGet, RunClaim
<1>2. CASE RunUpload(r) \/ UploadLands(r) \/ RunImageFails(r)
  BY <1>2 DEF RunUpload, UploadLands, RunImageFails
<1>3. CASE RunInsert(r)
  BY <1>3 DEF RunInsert
<1>4. CASE RunReset(r) \/ RunTouch(r) \/ RunResetFails(r)
  BY <1>4 DEF RunReset, RunTouch, RunResetFails
<1> QED
  BY <1>1, <1>2, <1>3, <1>4 DEF RunNext, RunStep

(* A DELETE request, a crash of the API and the passage of time preserve   *)
(* the types.                                                              *)
LEMMA ApiTypeOK ==
  ASSUME TypeOK, ApiNext
  PROVE  TypeOK'
<1> USE BoundsAssumption DEF TypeOK, rowVars, imageVars, apiVars, taskVars, bounds
<1>1. ASSUME NEW d \in Deletes, DelStep(d) \/ DelFails(d)
      PROVE  TypeOK'
  BY <1>1 DEF DelStep, DelGet, DelMark, DelEnqueue, DelFails, GoDel, DelPC, SetStatus, Status
<1>2. CASE ApiCrash
  BY <1>2 DEF ApiCrash, RunPC, DelPC
<1>3. CASE Expire \/ BeatTick
  BY <1>3 DEF Expire, BeatTick
<1> QED
  BY <1>1, <1>2, <1>3 DEF ApiNext

(* The steps of a cleaner preserve the types. *)
LEMMA CleanTypeOK ==
  ASSUME TypeOK, NEW c \in Cleaners, CleanNext(c)
  PROVE  TypeOK'
<1> USE BoundsAssumption DEF TypeOK, rowVars, imageVars, apiVars, taskVars, bounds,
        GoClean, Cleaner, CleanPC, ChainPC
<1>1. CASE TakeDelete(c) \/ TakeSweep(c)
  BY <1>1 DEF TakeDelete, TakeSweep, Started
<1>2. CASE SweepFind(c) \/ SweepMark(c)
  BY <1>2 DEF SweepFind, SweepMark, SetStatus, Status
<1>3. CASE CleanList(c) \/ CleanObject(c)
  BY <1>3 DEF CleanList, CleanObject
<1>4. CASE CleanRows(c) \/ CleanThread(c) \/ CleanFails(c)
  BY <1>4 DEF CleanRows, CleanThread, CleanFails, Status
<1>5. CASE CleanAck(c) \/ CleanerLost(c)
  BY <1>5 DEF CleanAck, CleanerLost, Requeue, IdleCleaner, Started
<1> QED
  BY <1>1, <1>2, <1>3, <1>4, <1>5 DEF CleanNext, CleanStep

(* Every variable keeps its type, so the status column only ever holds one *)
(* of the values its CHECK constraint admits.                              *)
THEOREM ThreadTypeCorrect == Spec => []TypeOK
<1>1. Init => TypeOK
  BY BoundsAssumption
  DEF Init, TypeOK, Status, RunPC, ActivePC, DelPC, Cleaner, CleanPC, ChainPC, IdleCleaner, Started
<1>2. TypeOK /\ [Next]_vars => TypeOK'
  <2> SUFFICES ASSUME TypeOK, [Next]_vars PROVE TypeOK'
    OBVIOUS
  <2>1. CASE UNCHANGED vars
    BY <2>1 DEF vars, TypeOK
  <2> QED
    BY <2>1, RunTypeOK, ApiTypeOK, CleanTypeOK DEF Next, RunNext, ApiNext, CleanNext
<1> QED
  BY <1>1, <1>2, PTL DEF Spec

-----------------------------------------------------------------------------
(* One run at a time                                                       *)

(* A statement of a run keeps the runs apart: only the claim lets one in,  *)
(* and it does so on an idle row, which no run owns.                       *)
LEMMA RunExcludes ==
  ASSUME TypeOK, RunsExclude, NEW r \in Runs, RunNext(r)
  PROVE  RunsExclude'
<1> USE DEF TypeOK, RunsExclude, Active, ActivePC, GoRun, SetStatus
<1>1. CASE RunClaim(r)
  BY <1>1 DEF RunClaim
<1>2. CASE RunGet(r) \/ RunTouch(r) \/ RunReset(r) \/ RunResetFails(r)
  BY <1>2 DEF RunGet, RunTouch, RunReset, RunResetFails, rowVars
<1>3. CASE RunUpload(r) \/ UploadLands(r) \/ RunInsert(r) \/ RunImageFails(r)
  BY <1>3 DEF RunUpload, UploadLands, RunInsert, RunImageFails, rowVars
<1> QED
  BY <1>1, <1>2, <1>3 DEF RunNext, RunStep

(* At most one run drives the graph of the thread, and while one does the  *)
(* row is not idle, whatever DELETE requests, sweeps, crashes and failures *)
(* come in between.                                                        *)
THEOREM RunsAreExclusive == Spec => []RunsExclude
<1>1. Init => RunsExclude
  BY DEF Init, RunsExclude, Active, ActivePC
<1>2. TypeOK /\ RunsExclude /\ [Next]_vars => RunsExclude'
  <2> SUFFICES ASSUME TypeOK, RunsExclude, [Next]_vars PROVE RunsExclude'
    OBVIOUS
  <2>1. ASSUME NEW d \in Deletes, DelStep(d) \/ DelFails(d)
        PROVE  RunsExclude'
    BY <2>1 DEF RunsExclude, Active, DelStep, DelGet, DelMark, DelEnqueue, DelFails,
                SetStatus, rowVars
  <2>2. CASE ApiCrash \/ Expire \/ BeatTick
    BY <2>2 DEF RunsExclude, Active, ActivePC, ApiCrash, Expire, BeatTick, TypeOK,
                rowVars, apiVars
  <2>3. ASSUME NEW c \in Cleaners, CleanNext(c)
        PROVE  run' = run /\ (status' = status \/ status' # "idle")
    BY <2>3 DEF CleanNext, CleanStep, TakeDelete, TakeSweep, SweepFind, SweepMark, CleanList,
                CleanObject, CleanRows, CleanThread, CleanAck, CleanFails, CleanerLost,
                SetStatus, rowVars, apiVars
  <2>4. ASSUME NEW c \in Cleaners, CleanNext(c)
        PROVE  RunsExclude'
    BY <2>3, <2>4 DEF RunsExclude, Active
  <2>5. CASE UNCHANGED vars
    BY <2>5 DEF vars, RunsExclude, Active
  <2> QED
    BY <2>1, <2>2, <2>4, <2>5, RunExcludes DEF Next, RunNext, CleanNext
<1> QED
  BY <1>1, <1>2, ThreadTypeCorrect, PTL DEF Spec

-----------------------------------------------------------------------------
(* Rows and objects of images                                              *)

\* The listed images whose objects are still there.
Left(c) == cleaner[c].listed \cap objects

\* What a cleaner has listed, it deletes from S3 before it drops a row: none of
\* it comes back, for only an upload under way makes an object, and an image is
\* recorded, and so listed, after its upload.
ListedInv ==
    /\ \A c \in Cleaners : cleaner[c].pc = "s3" => Left(c) \subseteq cleaner[c].todo
    /\ \A c \in Cleaners : cleaner[c].pc = "thread" => Left(c) = {}
    /\ \A c \in Cleaners : \A r \in cleaner[c].listed : upload[r] = "done"
    /\ \A r \in imgs : upload[r] = "done"
    /\ \A r \in Runs : run[r] = "insert" => upload[r] = "done"

(* A run records an image only after its upload, and an upload adds the    *)
(* object of an image that no cleaner has listed.                          *)
LEMMA RunKeeps ==
  ASSUME TypeOK, ListedInv, NEW r \in Runs, RunNext(r)
  PROVE  ListedInv' /\ imgs \subseteq imgs'
<1> USE DEF TypeOK, ListedInv, Left, GoRun, rowVars, imageVars, taskVars
<1>1. CASE RunGet(r) \/ RunClaim(r) \/ RunReset(r) \/ RunTouch(r) \/ RunResetFails(r)
  BY <1>1 DEF RunGet, RunClaim, RunReset, RunTouch, RunResetFails
<1>2. CASE RunUpload(r)
  BY <1>2 DEF RunUpload
<1>3. CASE UploadLands(r)
  <2>1. \A c \in Cleaners : r \notin cleaner[c].listed
    BY <1>3 DEF UploadLands
  <2>2. \A c \in Cleaners : Left(c)' = Left(c)
    BY <1>3, <2>1 DEF UploadLands
  <2> QED
    BY <1>3, <2>2 DEF UploadLands
<1>4. CASE RunInsert(r)
  BY <1>4 DEF RunInsert
<1>5. CASE RunImageFails(r)
  BY <1>5 DEF RunImageFails
<1> QED
  BY <1>1, <1>2, <1>3, <1>4, <1>5 DEF RunNext, RunStep

(* The steps of a cleaner: listing takes the recorded images, deleting an  *)
(* object takes it off what is left of every list.                         *)
LEMMA CleanKeeps ==
  ASSUME TypeOK, ListedInv, NEW c \in Cleaners, CleanNext(c)
  PROVE  ListedInv'
<1> USE DEF TypeOK, ListedInv, Left, GoClean, Cleaner, rowVars, imageVars, apiVars
<1>1. CASE TakeDelete(c) \/ TakeSweep(c) \/ SweepFind(c) \/ SweepMark(c)
  BY <1>1 DEF TakeDelete, TakeSweep, SweepFind, SweepMark, Started
<1>2. CASE CleanList(c)
  BY <1>2 DEF CleanList
<1>3. CASE CleanObject(c)
  <2> PICK o \in cleaner[c].todo :
        /\ objects' = objects \ {o}
        /\ cleaner' = [cleaner EXCEPT ![c].todo = @ \ {o}]
    BY <1>3 DEF CleanObject
  <2>1. \A e \in Cleaners : /\ cleaner'[e].listed = cleaner[e].listed
                            /\ cleaner'[e].pc = cleaner[e].pc
                            /\ cleaner[e].todo \ {o} \subseteq cleaner'[e].todo
    OBVIOUS
  <2> QED
    BY <1>3, <2>1 DEF CleanObject
<1>4. CASE CleanRows(c) \/ CleanThread(c)
  BY <1>4 DEF CleanRows, CleanThread
<1>5. CASE CleanAck(c) \/ CleanFails(c) \/ CleanerLost(c)
  BY <1>5 DEF CleanAck, CleanFails, CleanerLost, IdleCleaner, Started
<1> QED
  BY <1>1, <1>2, <1>3, <1>4, <1>5 DEF CleanNext, CleanStep

(* The rows of images that no cleaner's step drops, and those it may.      *)
LEMMA CleanDrops ==
  ASSUME TypeOK, ListedInv, NEW c \in Cleaners, CleanNext(c),
         NEW r \in imgs \cap objects, r \notin imgs'
  PROVE  cleaner'[c] # cleaner[c] /\ r \notin cleaner[c].listed
<1> USE DEF TypeOK, ListedInv, Left, GoClean, Cleaner
<1>1. CleanRows(c) \/ CleanThread(c)
  BY DEF CleanNext, CleanStep, TakeDelete, TakeSweep, SweepFind, SweepMark, CleanList,
         CleanObject, CleanAck, CleanFails, CleanerLost, imageVars
<1>2. CASE CleanRows(c)
  BY <1>2 DEF CleanRows
<1>3. CASE CleanThread(c)
  BY <1>3 DEF CleanThread
<1> QED
  BY <1>1, <1>2, <1>3

(* The row of an image whose object exists is dropped only by a cleaner     *)
(* that listed the images before the row was there, for any number of runs, *)
(* requests, cleaners, redeliveries, crashes and failing calls.             *)
THEOREM LateRowsOnly == Spec => OnlyLateRowsLeaveObjects
<1> DEFINE Kept == \A r \in imgs \cap objects : r \notin imgs' =>
                       \E c \in Cleaners : /\ cleaner'[c] # cleaner[c]
                                           /\ r \notin cleaner[c].listed
<1>1. Init => ListedInv
  BY DEF Init, ListedInv, Left, IdleCleaner, Started
<1>2. TypeOK /\ ListedInv /\ [Next]_vars => ListedInv' /\ Kept
  <2> SUFFICES ASSUME TypeOK, ListedInv, [Next]_vars PROVE ListedInv' /\ Kept
    OBVIOUS
  <2>1. ASSUME NEW d \in Deletes, DelStep(d) \/ DelFails(d)
        PROVE  ListedInv' /\ imgs' = imgs
    BY <2>1 DEF ListedInv, Left, DelStep, DelGet, DelMark, DelEnqueue, DelFails,
                rowVars, imageVars, taskVars
  <2>2. CASE ApiCrash
    BY <2>2 DEF ListedInv, Left, ApiCrash, TypeOK, Cleaner, ActivePC, Active, rowVars, taskVars
  <2>3. CASE Expire \/ BeatTick
    BY <2>3 DEF ListedInv, Left, Expire, BeatTick, imageVars, apiVars, taskVars
  <2>4. ASSUME NEW c \in Cleaners, CleanNext(c)
        PROVE  ListedInv' /\ Kept
    BY <2>4, CleanKeeps, CleanDrops
  <2>5. CASE UNCHANGED vars
    BY <2>5 DEF vars, ListedInv, Left
  <2> QED
    BY <2>1, <2>2, <2>3, <2>4, <2>5, RunKeeps DEF Next, RunNext, CleanNext
<1>3. TypeOK /\ ListedInv /\ [Next]_vars
        => [\A r \in imgs \cap objects : r \notin imgs' =>
               \E c \in Cleaners : /\ cleaner'[c] # cleaner[c]
                                  /\ r \notin cleaner[c].listed]_vars
  BY <1>2
<1>4. TypeOK /\ ListedInv /\ [Next]_vars => ListedInv'
  BY <1>2
<1> QED
  BY <1>1, <1>3, <1>4, ThreadTypeCorrect, PTL DEF Spec, OnlyLateRowsLeaveObjects
=============================================================================
