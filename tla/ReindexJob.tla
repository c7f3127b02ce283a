----------------------------- MODULE ReindexJob -----------------------------
(***************************************************************************)
(* What GET /admin/reindex/{job_id} promises of one job, without tasks,    *)
(* messages or rows of batches: the catalogue is split once, each batch is *)
(* counted at most once as good or bad, and the verdict is written when    *)
(* every batch has been counted and says whether one of them was bad.      *)
(***************************************************************************)
EXTENDS Integers

CONSTANT MaxBatches

VARIABLES status, total, good, bad
jobVars == <<status, total, good, bad>>

Init == status = "none" /\ total = 0 /\ good = 0 /\ bad = 0

Create == /\ status = "none" /\ status' = "pending"
          /\ UNCHANGED <<total, good, bad>>

Begin == /\ status = "pending" /\ status' = "processing"
         /\ UNCHANGED <<total, good, bad>>

Plan == /\ status = "processing" /\ total = 0
        /\ total' \in 1 .. MaxBatches
        /\ UNCHANGED <<status, good, bad>>

CountGood == /\ good + bad < total
             /\ good' = good + 1
             /\ UNCHANGED <<status, total, bad>>

CountBad == /\ good + bad < total
            /\ bad' = bad + 1
            /\ UNCHANGED <<status, total, good>>

Conclude == /\ status = "processing"
            /\ total > 0 /\ good + bad = total
            /\ status' = IF bad = 0 THEN "completed" ELSE "partial_failed"
            /\ UNCHANGED <<total, good, bad>>

\* The orchestrator gave up: the catalogue, a statement or the dispatch of one
\* batch failed.  Batches it had dispatched are still counted.  (That a failing
\* dispatch leaves the job open is promised in run_ingestion_job.py:21-25 and is
\* not so.)
Fail == /\ status \in {"pending", "processing"} /\ status' = "failed"
        /\ UNCHANGED <<total, good, bad>>

Next == Create \/ Begin \/ Plan \/ CountGood \/ CountBad \/ Conclude \/ Fail

JobSpec == Init /\ [][Next]_jobVars
=============================================================================
