------------------------------ MODULE MCEnrich ------------------------------
(***************************************************************************)
(* Small instances of Enrich for TLC.                                      *)
(***************************************************************************)
EXTENDS Enrich
=============================================================================
