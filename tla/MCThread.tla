------------------------------ MODULE MCThread ------------------------------
(***************************************************************************)
(* Small instances of ThreadLifecycle for TLC.                             *)
(***************************************************************************)
EXTENDS ThreadLifecycle, TLC

\* Runs, requests and workers are interchangeable; only for runs without
\* liveness properties.
ActorSymmetry ==
    Permutations(Runs) \cup Permutations(Deletes) \cup Permutations(Cleaners)
=============================================================================
