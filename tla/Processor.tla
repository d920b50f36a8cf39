----------------------------- MODULE Processor ------------------------------
(***************************************************************************)
(* ProviderProcessor.Process (internal/crawler/crawler.go) for providers   *)
(* that run at the same time and share the article store and the sinks:    *)
(* fetch, look every article up, enrich, then publish each fresh one to    *)
(* all sinks in turn (Fanout.Publish) and mark it if one of them took it.  *)
(* Crawl follows crawl, and the process may crash and start again with the *)
(* marks it had.                                                           *)
(*                                                                         *)
(* The store is the set of ids whose mark is alive (module ArticleCache);  *)
(* an article is its id: Enrich changes other fields only.  A sink may     *)
(* accept an event, refuse it, or accept it and still return an error (a   *)
(* timeout, or a context cancelled, while the answer is on its way).       *)
(***************************************************************************)
EXTENDS Integers, Sequences, FiniteSets

CONSTANTS
    Providers,      \* the providers a crawl works on at the same time
    Ids,            \* article ids
    Feeds,          \* Feeds[p]: the lists the fetcher of p can return
    NSinks,         \* len(f.publishers)
    Outcomes,       \* what a sink may do: subset of {"ok", "fail", "ambiguous"}
    StoreFails,     \* calls of the store may return an error
    MarksExpire,    \* marks may run out
    MaxCrashes,     \* bound: how often the process crashes
    MaxCount        \* bound: deliveries are counted up to this number

ASSUME ConstantsAssumption ==
    /\ Feeds \in [Providers -> SUBSET Seq(Ids)]
    /\ NSinks \in Nat \ {0}             \* NewHarvester rejects an empty list
    /\ Outcomes \subseteq {"ok", "fail", "ambiguous"}
    /\ StoreFails \in BOOLEAN
    /\ MarksExpire \in BOOLEAN
    /\ MaxCrashes \in Nat
    /\ MaxCount \in Nat \ {0}

Sinks == 1..NSinks

\* What a call of MarkArticle may do.
MarkOutcomes ==
    {"alive"} \cup (IF StoreFails THEN {"failed"} ELSE {})
              \cup (IF MarksExpire THEN {"expired"} ELSE {})

VARIABLES
    marked,     \* the ids SeenArticle answers true for
    pc,         \* where each provider's call of Process is
    feed,       \* the articles it fetched
    fresh,      \* those its filter kept so far
    pos,        \* the index its current loop is at
    sink,       \* the sink Fanout.Publish is at
    successful, \* how many sinks have accepted the article at pos
    erred,      \* errs is not empty
    delivered,  \* history: how often each sink got each article
    crashes     \* crashes so far

local == <<pc, feed, fresh, pos, sink, successful, erred>>
vars == <<marked, pc, feed, fresh, pos, sink, successful, erred, delivered, crashes>>

PC == {"ready", "filter", "enrich", "publish", "mark", "ok", "err"}

Returned(p) == pc[p] \in {"ok", "err"}

Elements(s) == {s[k] : k \in DOMAIN s}

\* The article the current loop of p is at.
Current(p) == IF pc[p] = "filter" THEN feed[p][pos[p]] ELSE fresh[p][pos[p]]

GoTo(p, l) == pc' = [pc EXCEPT ![p] = l]
-----------------------------------------------------------------------------
Init ==
    /\ marked = {}
    /\ pc = [p \in Providers |-> "ready"]
    /\ feed = [p \in Providers |-> <<>>]
    /\ fresh = [p \in Providers |-> <<>>]
    /\ pos = [p \in Providers |-> 1]
    /\ sink = [p \in Providers |-> 1]
    /\ successful = [p \in Providers |-> 0]
    /\ erred = [p \in Providers |-> FALSE]
    /\ delivered = [i \in Ids |-> [s \in Sinks |-> 0]]
    /\ crashes = 0

\* FetcherFor and Fetch succeed.
Fetch(p) ==
    /\ pc[p] = "ready"
    /\ \E articles \in Feeds[p] : feed' = [feed EXCEPT ![p] = articles]
    /\ GoTo(p, "filter")
    /\ UNCHANGED <<marked, fresh, pos, sink, successful, erred, delivered, crashes>>

\* FetcherFor or Fetch fails, and Process returns that error.
FetchFails(p) ==
    /\ pc[p] = "ready"
    /\ GoTo(p, "err")
    /\ UNCHANGED <<marked, feed, fresh, pos, sink, successful, erred, delivered, crashes>>

\* One lookup of filterNewArticles: an article is kept unless the store says
\* it was published, and so it is kept when the store fails.
Filter(p, lookupFails) ==
    /\ pc[p] = "filter"
    /\ pos[p] <= Len(feed[p])
    /\ fresh' = IF ~lookupFails /\ Current(p) \in marked
                THEN fresh
                ELSE [fresh EXCEPT ![p] = Append(@, Current(p))]
    /\ pos' = [pos EXCEPT ![p] = @ + 1]
    /\ UNCHANGED <<marked, pc, feed, sink, successful, erred, delivered, crashes>>

Filtered(p) ==
    /\ pc[p] = "filter"
    /\ pos[p] > Len(feed[p])
    /\ GoTo(p, "enrich")
    /\ UNCHANGED <<marked, feed, fresh, pos, sink, successful, erred, delivered, crashes>>

\* Enrich returns the same articles; with none of them Process returns nil.
Enrich(p) ==
    /\ pc[p] = "enrich"
    /\ GoTo(p, IF fresh[p] = <<>> THEN "ok" ELSE "publish")
    /\ pos' = [pos EXCEPT ![p] = 1]
    /\ UNCHANGED <<marked, feed, fresh, sink, successful, erred, delivered, crashes>>

\* Mutant: only the last error is remembered.
PublishToLastError(p, outcome) ==
    /\ pc[p] = "publish"
    /\ pos[p] <= Len(fresh[p])
    /\ sink[p] <= NSinks
    /\ sink' = [sink EXCEPT ![p] = @ + 1]
    /\ successful' = [successful EXCEPT ![p] = IF outcome = "ok" THEN @ + 1 ELSE @]
    /\ erred' = [erred EXCEPT ![p] = outcome # "ok"]
    /\ delivered' =
         IF outcome = "fail" THEN delivered
         ELSE [delivered EXCEPT ![Current(p)][sink[p]] =
                                    IF @ < MaxCount THEN @ + 1 ELSE @]
    /\ UNCHANGED <<marked, pc, feed, fresh, pos, crashes>>

\* One call of a sink's Publish.
PublishTo(p, outcome) ==
    /\ pc[p] = "publish"
    /\ pos[p] <= Len(fresh[p])
    /\ sink[p] <= NSinks
    /\ sink' = [sink EXCEPT ![p] = @ + 1]
    /\ successful' = [successful EXCEPT ![p] = IF outcome = "ok" THEN @ + 1 ELSE @]
    /\ erred' = [erred EXCEPT ![p] = @ \/ outcome # "ok"]
    /\ delivered' =
         IF outcome = "fail" THEN delivered
         ELSE [delivered EXCEPT ![Current(p)][sink[p]] =
                                    IF @ < MaxCount THEN @ + 1 ELSE @]
    /\ UNCHANGED <<marked, pc, feed, fresh, pos, crashes>>

\* Mutant: the count of successes runs on from article to article.
FanoutKeepsCount(p) ==
    /\ pc[p] = "publish"
    /\ pos[p] <= Len(fresh[p])
    /\ sink[p] > NSinks
    /\ IF successful[p] > 0
       THEN GoTo(p, "mark") /\ UNCHANGED pos
       ELSE pos' = [pos EXCEPT ![p] = @ + 1] /\ UNCHANGED pc
    /\ sink' = [sink EXCEPT ![p] = 1]
    /\ UNCHANGED <<marked, feed, fresh, successful, erred, delivered, crashes>>

\* Mutant: only an article that every sink accepted is marked.
FanoutMarksComplete(p) ==
    /\ pc[p] = "publish"
    /\ pos[p] <= Len(fresh[p])
    /\ sink[p] > NSinks
    /\ IF successful[p] = NSinks
       THEN GoTo(p, "mark") /\ UNCHANGED pos
       ELSE pos' = [pos EXCEPT ![p] = @ + 1] /\ UNCHANGED pc
    /\ sink' = [sink EXCEPT ![p] = 1]
    /\ successful' = [successful EXCEPT ![p] = 0]
    /\ UNCHANGED <<marked, feed, fresh, erred, delivered, crashes>>

\* Mutant: the article is marked whatever the sinks answered.
FanoutMarksAlways(p) ==
    /\ pc[p] = "publish"
    /\ pos[p] <= Len(fresh[p])
    /\ sink[p] > NSinks
    /\ GoTo(p, "mark")
    /\ sink' = [sink EXCEPT ![p] = 1]
    /\ successful' = [successful EXCEPT ![p] = 0]
    /\ UNCHANGED <<marked, feed, fresh, pos, erred, delivered, crashes>>

\* Fanout.Publish has called every sink and returns.
FanoutReturns(p) ==
    /\ pc[p] = "publish"
    /\ pos[p] <= Len(fresh[p])
    /\ sink[p] > NSinks
    /\ IF successful[p] > 0
       THEN GoTo(p, "mark") /\ UNCHANGED pos
       ELSE pos' = [pos EXCEPT ![p] = @ + 1] /\ UNCHANGED pc
    /\ sink' = [sink EXCEPT ![p] = 1]
    /\ successful' = [successful EXCEPT ![p] = 0]
    /\ UNCHANGED <<marked, feed, fresh, erred, delivered, crashes>>

\* MarkArticle; its failure is logged and goes no further.  The end of the mark
\* was computed before the call waited for the store, and may be past when the
\* mark is written, over one that was alive.
Mark(p, outcome) ==
    /\ pc[p] = "mark"
    /\ marked' = CASE outcome = "alive"   -> marked \cup {Current(p)}
                   [] outcome = "expired" -> marked \ {Current(p)}
                   [] outcome = "failed"  -> marked
    /\ GoTo(p, "publish")
    /\ pos' = [pos EXCEPT ![p] = @ + 1]
    /\ UNCHANGED <<feed, fresh, sink, successful, erred, delivered, crashes>>

\* All articles are dealt with: Process returns nil or the joined errors.
Finish(p) ==
    /\ pc[p] = "publish"
    /\ pos[p] > Len(fresh[p])
    /\ GoTo(p, IF erred[p] THEN "err" ELSE "ok")
    /\ UNCHANGED <<marked, feed, fresh, pos, sink, successful, erred, delivered, crashes>>

Reset ==
    /\ pc' = [p \in Providers |-> "ready"]
    /\ feed' = [p \in Providers |-> <<>>]
    /\ fresh' = [p \in Providers |-> <<>>]
    /\ pos' = [p \in Providers |-> 1]
    /\ sink' = [p \in Providers |-> 1]
    /\ successful' = [p \in Providers |-> 0]
    /\ erred' = [p \in Providers |-> FALSE]

\* Harvester.Run starts the next crawl, after the return of the one before.
NextCrawl ==
    /\ \A p \in Providers : Returned(p)
    /\ Reset
    /\ UNCHANGED <<marked, delivered, crashes>>

\* The process dies at any point and is started again.
Crash ==
    /\ crashes < MaxCrashes
    /\ crashes' = crashes + 1
    /\ Reset
    /\ UNCHANGED <<marked, delivered>>

\* Marks run out, one or those that were made in the same second.
Expire(ids) ==
    /\ MarksExpire
    /\ marked' = marked \ ids
    /\ UNCHANGED <<local, delivered, crashes>>

Step(p) ==
    \/ Fetch(p)
    \/ FetchFails(p)
    \/ \E lookupFails \in {FALSE, StoreFails} : Filter(p, lookupFails)
    \/ Filtered(p)
    \/ Enrich(p)
    \/ \E outcome \in Outcomes : PublishTo(p, outcome)
    \/ FanoutReturns(p)
    \/ \E outcome \in MarkOutcomes : Mark(p, outcome)
    \/ Finish(p)

Next ==
    \/ \E p \in Providers : Step(p)
    \/ NextCrawl
    \/ Crash
    \/ \E ids \in SUBSET marked : Expire(ids)

Spec == Init /\ [][Next]_vars

\* A sink accepts article i from provider p.
Accept(p, i) == PublishTo(p, "ok") /\ Current(p) = i

(***************************************************************************)
(* The Go scheduler runs every call, every call of Enrich and of a client  *)
(* ends, and the ticker starts the next crawl.  About the environment:     *)
(* a provider that is fetched again and again answers again and again, and *)
(* an article offered again and again is accepted again and again.         *)
(***************************************************************************)
Fairness ==
    /\ WF_vars(NextCrawl)
    /\ \A p \in Providers :
         /\ WF_vars(Step(p))
         /\ SF_vars(Fetch(p))
         /\ \A i \in Ids : SF_vars(Accept(p, i))

FairSpec == Spec /\ Fairness
-----------------------------------------------------------------------------
(***************************************************************************)
(* Types.                                                                  *)
(***************************************************************************)
TypeOK ==
    /\ marked \in SUBSET Ids
    /\ pc \in [Providers -> PC]
    /\ feed \in [Providers -> Seq(Ids)]
    /\ fresh \in [Providers -> Seq(Ids)]
    /\ pos \in [Providers -> Nat \ {0}]
    /\ sink \in [Providers -> 1..(NSinks + 1)]
    /\ successful \in [Providers -> 0..NSinks]
    /\ erred \in [Providers -> BOOLEAN]
    /\ delivered \in [Ids -> [Sinks -> 0..MaxCount]]
    /\ crashes \in 0..MaxCrashes

Reached(i) == \E s \in Sinks : delivered[i][s] > 0

\* No article is skipped as published that never left: a mark stands only for
\* an article that some sink has received.
MarkedWasDelivered == \A i \in marked : Reached(i)

\* A nil error accounts for the whole feed: every sink has every article that
\* was fresh, and every other one had reached some sink before.
NilMeansDelivered ==
    \A p \in Providers : pc[p] = "ok" =>
        /\ \A i \in Elements(feed[p]) : Reached(i)
        /\ \A i \in Elements(fresh[p]), s \in Sinks : delivered[i][s] > 0

\* What the README says of the dedupe layer: an article that was published is
\* skipped afterwards, so that no sink gets it twice.
NeverTwice == \A i \in Ids, s \in Sinks : delivered[i][s] <= 1

\* The provider's feed always contains article i.
AlwaysInFeed(i) == \E p \in Providers : \A f \in Feeds[p] : i \in Elements(f)

\* An article that no sink has accepted is offered again, crawl after crawl,
\* until one does.
Retried == \A i \in Ids : AlwaysInFeed(i) => <>Reached(i)
=============================================================================
