---------------------------- MODULE ArticleCache ----------------------------
(***************************************************************************)
(* What the article store promises the crawler: a map from article ids to  *)
(* the second at which their mark runs out, that forgets nothing before    *)
(* its time.  Each call takes effect in one step between its start and its *)
(* return, or fails and changes nothing; there is no cleanup here.  Module *)
(* BoltStore implements this one (CacheSpec there).                        *)
(***************************************************************************)
EXTENDS Integers

CONSTANTS
    Procs,  \* the goroutines that call the store
    Ids,    \* article ids
    TTL,    \* how many seconds a mark lasts
    Sub     \* clock instants in a second

VARIABLES
    now,    \* the clock
    expiry, \* the second at which each mark ends, 0 for an id never marked
    call,   \* the call each goroutine is in, None between two calls
    ret     \* how the last call of each goroutine ended

vars == <<now, expiry, call, ret>>

Ops == {"SeenArticle", "MarkArticle"}
None == [op |-> "none"]
Calls == [op : Ops, id : Ids, at : Nat]
Replies == {"none", "seen", "fresh", "marked", "error"}

Init ==
    /\ now = 0
    /\ expiry = [i \in Ids |-> 0]
    /\ call = [p \in Procs |-> None]
    /\ ret = [p \in Procs |-> "none"]

Begin(p, op, i) ==
    /\ call[p] = None
    /\ call' = [call EXCEPT ![p] = [op |-> op, id |-> i, at |-> now]]
    /\ ret' = [ret EXCEPT ![p] = "none"]
    /\ UNCHANGED <<now, expiry>>

Return(p, reply) ==
    /\ call' = [call EXCEPT ![p] = None]
    /\ ret' = [ret EXCEPT ![p] = reply]

Lookup(p) ==
    /\ call[p] # None
    /\ call[p].op = "SeenArticle"
    /\ Return(p, IF expiry[call[p].id] * Sub > now THEN "seen" ELSE "fresh")
    /\ UNCHANGED <<now, expiry>>

Mark(p) ==
    /\ call[p] # None
    /\ call[p].op = "MarkArticle"
    /\ expiry' = [expiry EXCEPT ![call[p].id] = (call[p].at \div Sub) + TTL]
    /\ Return(p, "marked")
    /\ UNCHANGED now

Fail(p) ==
    /\ call[p] # None
    /\ Return(p, "error")
    /\ UNCHANGED <<now, expiry>>

Tick ==
    /\ now' = now + 1
    /\ UNCHANGED <<expiry, call, ret>>

\* A restart ends every call without an answer and forgets no mark.
Restart ==
    /\ call' = [p \in Procs |-> None]
    /\ ret' = [p \in Procs |-> "none"]
    /\ UNCHANGED <<now, expiry>>

Next ==
    \/ \E p \in Procs : \E op \in Ops, i \in Ids : Begin(p, op, i)
    \/ \E p \in Procs : Lookup(p) \/ Mark(p) \/ Fail(p)
    \/ Tick
    \/ Restart

Spec == Init /\ [][Next]_vars
=============================================================================
