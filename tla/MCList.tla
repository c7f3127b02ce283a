------------------------------- MODULE MCList -------------------------------
(***************************************************************************)
(* Small instances of ThreadList for TLC.                                  *)
(***************************************************************************)
EXTENDS ThreadList
=============================================================================
