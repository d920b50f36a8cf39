------------------------------ MODULE MCRunAll ------------------------------
(***************************************************************************)
(* Small instances of RunAll for TLC.                                      *)
(***************************************************************************)
EXTENDS RunAll
=============================================================================
