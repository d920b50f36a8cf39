------------------------------ MODULE Pipeline ------------------------------
(***************************************************************************)
(* The providers of module Processor on the store of module ArticleCache,  *)
(* which BoltStore implements: SeenArticle and MarkArticle are calls that  *)
(* start, take effect later and return, the clock runs meanwhile, and a    *)
(* mark lives for a TTL.  All concurrent calls of Process share one store, *)
(* and a crash loses the calls and keeps the file.                         *)
(***************************************************************************)
EXTENDS Integers, Sequences, FiniteSets

CONSTANTS
    Providers, Ids, Feeds, NSinks, Outcomes, MaxCount,
    TTL,        \* how many seconds a mark lasts
    Sub,        \* clock instants in a second
    MaxTime,    \* bound: the last instant of the model
    MaxFaults   \* bound: crashes and failed calls of the store together

ASSUME PipelineAssumption ==
    /\ Feeds \in [Providers -> SUBSET Seq(Ids)]
    /\ NSinks \in Nat \ {0}             \* NewHarvester rejects an empty list
    /\ Outcomes \subseteq {"ok", "fail", "ambiguous"}
    /\ MaxCount \in Nat \ {0}
    /\ TTL \in Nat \ {0}                \* normalizeOptions
    /\ Sub \in Nat \ {0}
    /\ MaxTime \in Nat
    /\ MaxFaults \in Nat

VARIABLES
    pc, feed, fresh, pos, sink, successful, erred,  \* the calls of Process
    delivered, crashes,
    now, expiry,                                    \* the store
    call, ret,                                      \* its callers
    failures                                        \* its failed calls so far

process == <<pc, feed, fresh, pos, sink, successful, erred, delivered, crashes>>
store == <<now, expiry, call, ret>>
vars == <<process, store, failures>>

Faulty == crashes + failures < MaxFaults

Store == INSTANCE ArticleCache WITH Procs <- Providers

\* SeenArticle answers true for the ids whose mark has not run out.
P == INSTANCE Processor WITH
    StoreFails <- TRUE,
    MarksExpire <- TRUE,
    MaxCrashes <- MaxFaults,
    marked <- {i \in Ids : expiry[i] * Sub > now}
-----------------------------------------------------------------------------
Init ==
    /\ Store!Init
    /\ P!Init
    /\ failures = 0

\* A step of Process that is not about the store.
Compute(p) ==
    /\ UNCHANGED <<store, failures>>
    /\ \/ P!Fetch(p)
       \/ P!FetchFails(p)
       \/ P!Filtered(p)
       \/ P!Enrich(p)
       \/ \E outcome \in Outcomes : P!PublishTo(p, outcome)
       \/ P!FanoutReturns(p)
       \/ P!Finish(p)

\* filterNewArticles calls SeenArticle.
BeginLookup(p) ==
    /\ pc[p] = "filter"
    /\ pos[p] <= Len(feed[p])
    /\ Store!Begin(p, "SeenArticle", P!Current(p))
    /\ UNCHANGED <<process, failures>>

\* publishArticles calls MarkArticle.
BeginMark(p) ==
    /\ pc[p] = "mark"
    /\ Store!Begin(p, "MarkArticle", P!Current(p))
    /\ UNCHANGED <<process, failures>>

\* What filterNewArticles does with an answer: skip the article or keep it.
Answered(p, seen) ==
    /\ fresh' = IF seen THEN fresh
                ELSE [fresh EXCEPT ![p] = Append(@, P!Current(p))]
    /\ pos' = [pos EXCEPT ![p] = @ + 1]
    /\ UNCHANGED <<pc, feed, sink, successful, erred, delivered, crashes>>

\* Mutant: a mark that is present counts, whenever it ended.
LookupPresent(p) ==
    /\ Store!Lookup(p)
    /\ Answered(p, expiry[call[p].id] > 0)
    /\ UNCHANGED failures

Lookup(p) ==
    /\ Store!Lookup(p)
    /\ Answered(p, ret'[p] = "seen")
    /\ UNCHANGED failures

\* An article that could not be looked up is kept.
LookupFails(p) ==
    /\ Faulty
    /\ failures' = failures + 1
    /\ pc[p] = "filter"
    /\ Store!Fail(p)
    /\ Answered(p, FALSE)

\* publishArticles goes on after MarkArticle, whatever its result.
Continue(p) ==
    /\ pc' = [pc EXCEPT ![p] = "publish"]
    /\ pos' = [pos EXCEPT ![p] = @ + 1]
    /\ UNCHANGED <<feed, fresh, sink, successful, erred, delivered, crashes>>

Mark(p) ==
    /\ Store!Mark(p)
    /\ Continue(p)
    /\ UNCHANGED failures

MarkFails(p) ==
    /\ Faulty
    /\ failures' = failures + 1
    /\ pc[p] = "mark"
    /\ Store!Fail(p)
    /\ Continue(p)

NextCrawl ==
    /\ UNCHANGED <<store, failures>>
    /\ P!NextCrawl

Crash ==
    /\ Faulty
    /\ Store!Restart
    /\ P!Crash
    /\ UNCHANGED failures

Tick ==
    /\ now < MaxTime
    /\ Store!Tick
    /\ UNCHANGED <<process, failures>>

Step(p) ==
    \/ Compute(p)
    \/ BeginLookup(p)
    \/ BeginMark(p)
    \/ Lookup(p)
    \/ LookupFails(p)
    \/ Mark(p)
    \/ MarkFails(p)

Next ==
    \/ \E p \in Providers : Step(p)
    \/ NextCrawl
    \/ Crash
    \/ Tick

Spec == Init /\ [][Next]_vars
-----------------------------------------------------------------------------
\* The pipeline on the timed store behaves as the pipeline on a set of marks
\* that may run out at any moment: no answer of the store that comes from a
\* call delayed past other marks and expiries is one Processor does not expect.
ProcessorSpec == P!Spec

\* The places where a feed may list article i.
Listings(i) ==
    UNION {UNION {{p} \X {k \in DOMAIN f : f[k] = i} : f \in Feeds[p]} :
           p \in Providers}

\* Where sinks accept what they report accepted, a sink gets an article once for
\* each place that lists it in each period of TTL - 1 seconds, however many
\* crawls fall into it, and as often again for each crash and each call of the
\* store that fails.
OncePerTTL ==
    \A i \in Ids, s \in P!Sinks :
        delivered[i][s] <= Cardinality(Listings(i))
                             * (1 + crashes + failures + now \div ((TTL - 1) * Sub + 1))
=============================================================================
