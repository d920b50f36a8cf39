---------------------------- MODULE SitemapFetch ----------------------------
(***************************************************************************)
(* googleNewsFetcher.Fetch (pkg/providers/google_news.go): the walk from   *)
(* the source URL of a provider through sitemap indexes, which may nest,   *)
(* share children and refer back, to the sitemaps that list articles.      *)
(*                                                                         *)
(* The calls of fetchGoogleNewsURLs nest, and each works through a list of *)
(* locations in order.  Its state is todo: the rest of the innermost       *)
(* call's list, then the rest of its caller's, and so on out to the first. *)
(* The lists that nested calls return are joined in that same order.       *)
(***************************************************************************)
EXTENDS Integers, Sequences

CONSTANTS
    Urls,       \* locations of sitemaps
    Ids,        \* articles
    Blank,      \* a location that is empty once trimmed
    Root,       \* cfg.SourceURL
    Sites,      \* what the server may hold: functions from Urls to Page
    GetFails    \* a request may fail, or its answer not be a sitemap

\* A document is decoded twice: as a list of articles, as a list of sitemaps.
Page == [urls : Seq(Ids \cup {Blank}), locs : Seq(Urls \cup {Blank})]

ASSUME SitemapAssumption ==
    /\ Blank \notin Urls \cup Ids
    /\ Root \in Urls
    /\ Sites \subseteq [Urls -> Page]
    /\ GetFails \in BOOLEAN

VARIABLES
    site,       \* the pages of the server
    visited,    \* visited
    todo,       \* the locations still to visit
    all,        \* the entries found so far
    result,     \* "none", then what Fetch returns: "articles" or "error"
    gets        \* history: how often each location was requested

vars == <<site, visited, todo, all, result, gets>>

Items(s) == {s[k] : k \in DOMAIN s}

\* What a page leads on to: nothing if it lists articles itself.
Leads(u) ==
    IF site[u].urls # <<>> THEN {} ELSE Items(site[u].locs) \ {Blank}
-----------------------------------------------------------------------------
Init ==
    /\ site \in Sites
    /\ visited = {}
    /\ todo = <<Root>>
    /\ all = <<>>
    /\ result = "none"
    /\ gets = [u \in Urls |-> 0]

\* The call has a location it has not been to.
Arrive(u) ==
    /\ result = "none"
    /\ todo # <<>>
    /\ u = Head(todo)
    /\ u \notin visited

\* fetchSitemap requests u.
Request(u) ==
    /\ Arrive(u)
    /\ visited' = visited \cup {u}
    /\ gets' = [gets EXCEPT ![u] = @ + 1]
    /\ UNCHANGED site

\* Mutant: a page is known as visited only if it lists articles.
ReadIndexForgotten(u) ==
    /\ Arrive(u)
    /\ gets' = [gets EXCEPT ![u] = @ + 1]
    /\ site[u].urls = <<>>
    /\ todo' = site[u].locs \o Tail(todo)
    /\ UNCHANGED <<site, visited, all, result>>

\* The page is an index, or has nothing at all.
ReadIndex(u) ==
    /\ Request(u)
    /\ site[u].urls = <<>>
    /\ todo' = site[u].locs \o Tail(todo)
    /\ UNCHANGED <<all, result>>

\* Mutant: the locations of sitemaps on the page are taken for articles.
ReadAllLocs(u) ==
    /\ Request(u)
    /\ site[u].urls # <<>>
    /\ all' = all \o site[u].urls \o site[u].locs
    /\ todo' = Tail(todo)
    /\ UNCHANGED result

\* The page lists articles: whatever else it lists is left alone.
ReadArticles(u) ==
    /\ Request(u)
    /\ site[u].urls # <<>>
    /\ all' = all \o site[u].urls
    /\ todo' = Tail(todo)
    /\ UNCHANGED result

\* Mutant: a sitemap that cannot be fetched is left out.
AbortSkips(u) ==
    /\ GetFails
    /\ Request(u)
    /\ todo' = Tail(todo)
    /\ UNCHANGED <<all, result>>

\* The request fails, its status is not 200, or the body cannot be decoded:
\* every call returns the error, and what was found is lost.
Abort(u) ==
    /\ GetFails
    /\ Request(u)
    /\ result' = "error"
    /\ UNCHANGED <<todo, all>>

\* Mutant: the loop does not get past a location it leaves out.
SkipStays ==
    /\ result = "none"
    /\ todo # <<>>
    /\ Head(todo) \in visited \cup {Blank}
    /\ UNCHANGED vars

\* Blank locations are left out, and a call for one that was visited returns
\* nothing.
Skip ==
    /\ result = "none"
    /\ todo # <<>>
    /\ Head(todo) \in visited \cup {Blank}
    /\ todo' = Tail(todo)
    /\ UNCHANGED <<site, visited, all, result, gets>>

\* The first call returns; buildArticlesFromSitemap drops the entries without
\* a location, and no article at all is an error.
Finish ==
    /\ result = "none"
    /\ todo = <<>>
    /\ result' = IF Items(all) \subseteq {Blank} THEN "error" ELSE "articles"
    /\ UNCHANGED <<site, visited, todo, all, gets>>

Done ==
    /\ result # "none"
    /\ UNCHANGED vars

Next ==
    \/ \E u \in Urls : ReadIndex(u) \/ ReadArticles(u) \/ Abort(u)
    \/ Skip
    \/ Finish
    \/ Done

Spec == Init /\ [][Next]_vars

\* The fetcher is one goroutine, and the client's timeout ends each request.
FairSpec == Spec /\ WF_vars(Next)
-----------------------------------------------------------------------------
(***************************************************************************)
(* Types.                                                                  *)
(***************************************************************************)
TypeOK ==
    /\ site \in [Urls -> Page]
    /\ visited \in SUBSET Urls
    /\ todo \in Seq(Urls \cup {Blank})
    /\ all \in Seq(Ids \cup {Blank})
    /\ result \in {"none", "articles", "error"}
    /\ gets \in [Urls -> Nat]

\* However the indexes nest, share children or refer back to each other, one
\* fetch asks the server for a location at most once.
FetchedOnce == \A u \in Urls : gets[u] <= 1

\* The pages that the site links to from the root, directly or not: the least
\* set with the root and whatever its members lead on to.
Closed(S) == Root \in S /\ \A u \in S : Leads(u) \subseteq S
Reachable == {u \in Urls : \A S \in SUBSET Urls : Closed(S) => u \in S}

\* A fetch without an error has missed nothing and made up nothing: its
\* entries are those of all the pages the root leads to.
WholeSite ==
    result = "articles" =>
        /\ visited = Reachable
        /\ Items(all) = UNION {Items(site[u].urls) : u \in Reachable}

\* The walk ends, on a site full of circular references too.
FetchReturns == <>(result # "none")
=============================================================================
