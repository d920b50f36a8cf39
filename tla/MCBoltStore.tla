---------------------------- MODULE MCBoltStore -----------------------------
(***************************************************************************)
(* Small instances of BoltStore for TLC.                                   *)
(***************************************************************************)
EXTENDS BoltStore

=============================================================================
