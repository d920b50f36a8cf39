---------------------------- MODULE MCProcessor ----------------------------
(***************************************************************************)
(* Small instances of Processor for TLC: what the fetchers return.         *)
(***************************************************************************)
EXTENDS Processor, TLC

CONSTANTS p1, p2, a, b

\* Two providers that carry the same stories.
SharedFeeds == (p1 :> {<<a, b>>}) @@ (p2 :> {<<b>>, <<b, a>>})
=============================================================================
