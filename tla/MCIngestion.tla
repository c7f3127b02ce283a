---------------------------- MODULE MCIngestion ----------------------------
(***************************************************************************)
(* Small instances of Ingestion for TLC, and the refinement of ReindexJob. *)
(***************************************************************************)
EXTENDS Ingestion, TLC

AbstractJob == INSTANCE ReindexJob WITH
    status <- job.status, total <- job.total,
    good <- job.processed, bad <- job.failed

(* With each message delivered once, the job row behaves as ReindexJob:    *)
(* one plan, every batch counted at most once, a verdict only when all are *)
(* counted, and no verdict after a failure of the orchestrator.  Kills and *)
(* failing statements and dispatches are allowed; one failing dispatch ends *)
(* the job as failed, where run_ingestion_job.py:21-25 promises to go on    *)
(* with the next batch.                                                     *)
ImplementsReindexJob == AbstractJob!JobSpec

\* Workers are interchangeable; only for runs without liveness properties.
WorkerSymmetry == Permutations(Workers)
=============================================================================
