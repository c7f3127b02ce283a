------------------------------- MODULE MCSync -------------------------------
(***************************************************************************)
(* Small instances of ProductSync for TLC.                                 *)
(***************************************************************************)
EXTENDS ProductSync
=============================================================================
