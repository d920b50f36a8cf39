----------------------------- MODULE MCService ------------------------------
(***************************************************************************)
(* Processes on one database file, one of them with its crawl: an old one, *)
(* its replacement, another.                                               *)
(***************************************************************************)
EXTENDS Service
=============================================================================
