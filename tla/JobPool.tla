------------------------------ MODULE JobPool -------------------------------
(***************************************************************************)
(* What the two worker pools of the crawler promise their callers,         *)
(* Service.runAll over provider configurations and Scraper.Enrich over     *)
(* article indexes: jobs 1..NJobs are handed out in order, each to one     *)
(* worker; a job is handled at most once, and one that was handed out is   *)
(* dropped only after a cancellation; when the pool ends nobody works any  *)
(* more, and either everything was handled or the context was cancelled.   *)
(* Both modules implement this one (PoolSpec there).                       *)
(***************************************************************************)
EXTENDS Integers

CONSTANT NJobs

VARIABLES
    cancelled,  \* the context of the call is done
    next,       \* the first job that has not been handed out
    active,     \* the jobs some worker holds
    handled,    \* the jobs whose work has been carried out
    ended       \* the call has returned

vars == <<cancelled, next, active, handled, ended>>

Init ==
    /\ cancelled = FALSE
    /\ next = 1
    /\ active = {}
    /\ handled = {}
    /\ ended = FALSE

Take ==
    /\ ~ended
    /\ next <= NJobs
    /\ active' = active \cup {next}
    /\ next' = next + 1
    /\ UNCHANGED <<cancelled, handled, ended>>

Handle(j) ==
    /\ j \in active
    /\ active' = active \ {j}
    /\ handled' = handled \cup {j}
    /\ UNCHANGED <<cancelled, next, ended>>

Drop(j) ==
    /\ cancelled
    /\ j \in active
    /\ active' = active \ {j}
    /\ UNCHANGED <<cancelled, next, handled, ended>>

Cancel ==
    /\ cancelled' = TRUE
    /\ UNCHANGED <<next, active, handled, ended>>

End ==
    /\ active = {}
    /\ cancelled \/ handled = 1..NJobs
    /\ ended' = TRUE
    /\ UNCHANGED <<cancelled, next, active, handled>>

Next ==
    \/ Take
    \/ \E j \in active : Handle(j) \/ Drop(j)
    \/ Cancel
    \/ End

Spec == Init /\ [][Next]_vars
=============================================================================
