----------------------------- MODULE MCPipeline -----------------------------
(***************************************************************************)
(* Small instances of Pipeline for TLC: what the fetchers return.          *)
(***************************************************************************)
EXTENDS Pipeline, TLC

CONSTANTS p1, p2, a

\* Both carry the same story, and the first lists it twice.
SameStory == (p1 :> {<<a, a>>}) @@ (p2 :> {<<a>>})
=============================================================================
