------------------------------ MODULE Fetchers ------------------------------
(***************************************************************************)
(* The choice of a provider's fetcher (pkg/providers/fetcher.go) and the   *)
(* check the fetcher makes itself (google_news.go).  The three places that *)
(* look at a type clean it in three ways.  A type is a word with, maybe,   *)
(* spaces around it and capitals in it.                                    *)
(***************************************************************************)
CONSTANT Blank      \* an empty text

GoogleNews == "google_news_sitemap"

TypeText == [word : {GoogleNews, "other", Blank}, spaces : BOOLEAN, capitals : BOOLEAN]

TrimSpace(t) == [word |-> t.word, spaces |-> FALSE, capitals |-> t.capitals]
ToLower(t) == [word |-> t.word, spaces |-> t.spaces, capitals |-> FALSE]

Written(word) == [word |-> word, spaces |-> FALSE, capitals |-> FALSE]

\* registerTypeFetcher: the keys of fetchersByType; a blank one is left out.
Registered(types) == {ToLower(TrimSpace(t)) : t \in {u \in types : u.word # Blank}}

\* DefaultFetcherRegistry; it has no fetcher for a single provider id.
FetcherTypes == Registered({Written(GoogleNews)})

\* FetcherFor finds a fetcher for the provider's type.
HasFetcher(p) ==
    /\ p.id # Blank
    /\ p.type.word # Blank
    /\ ToLower(TrimSpace(p.type)) \in FetcherTypes

\* The first check of googleNewsFetcher.Fetch: EqualFold ignores case alone.
Accepts(p) == ToLower(p.type) = Written(GoogleNews)

\* Every crawl fetches something for the provider, or every crawl fails.
Served(p) == HasFetcher(p) /\ Accepts(p)
=============================================================================
