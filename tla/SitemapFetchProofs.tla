------------------------- MODULE SitemapFetchProofs -------------------------
(***************************************************************************)
(* What holds of SitemapFetch for every set of locations, every site and   *)
(* every length of its lists.                                              *)
(***************************************************************************)
EXTENDS SitemapFetch, TLAPS

(***************************************************************************)
(* The inductive invariant.                                                *)
(***************************************************************************)

\* A location was requested once if it was visited, and else never.
GetsAgree == \A u \in Urls : gets[u] = IF u \in visited THEN 1 ELSE 0

\* Only what the root leads to is visited or waits to be.
InSite == visited \cup (Items(todo) \ {Blank}) \subseteq Reachable

\* What a visited page leads to is visited or waits to be.
NothingLost ==
    result # "error" =>
        /\ Root \in visited \cup Items(todo)
        /\ \A u \in visited : Leads(u) \subseteq visited \cup Items(todo)

\* The entries are those of the visited pages.
EntriesAgree ==
    result # "error" => Items(all) = UNION {Items(site[u].urls) : u \in visited}

\* Fetch returns articles when nothing waits.
EndOfWalk == result = "articles" => todo = <<>>

IInv ==
    /\ TypeOK
    /\ GetsAgree
    /\ InSite
    /\ NothingLost
    /\ EntriesAgree
    /\ EndOfWalk
-----------------------------------------------------------------------------
LEMMA ItemsConcat ==
    ASSUME NEW S, NEW s \in Seq(S), NEW t \in Seq(S)
    PROVE  s \o t \in Seq(S) /\ Items(s \o t) = Items(s) \cup Items(t)
<1>1. s \o t \in Seq(S) /\ DOMAIN (s \o t) = 1..(Len(s) + Len(t))
  OBVIOUS
<1>2. ASSUME NEW k \in DOMAIN (s \o t)
      PROVE  (s \o t)[k] \in Items(s) \cup Items(t)
  <2>1. CASE k <= Len(s)
    BY <1>2, <2>1 DEF Items
  <2>2. CASE k > Len(s)
    <3>1. (s \o t)[k] = t[k - Len(s)] /\ k - Len(s) \in DOMAIN t
      BY <1>1, <1>2, <2>2
    <3> QED
      BY <3>1 DEF Items
  <2> QED
    BY <1>1, <1>2, <2>1, <2>2
<1>3. ASSUME NEW k \in DOMAIN s
      PROVE  s[k] \in Items(s \o t)
  <2>1. (s \o t)[k] = s[k] /\ k \in DOMAIN (s \o t)
    BY <1>1, <1>3
  <2> QED
    BY <2>1 DEF Items
<1>4. ASSUME NEW k \in DOMAIN t
      PROVE  t[k] \in Items(s \o t)
  <2>1. (s \o t)[k + Len(s)] = t[k] /\ k + Len(s) \in DOMAIN (s \o t)
    BY <1>1, <1>4
  <2> QED
    BY <2>1 DEF Items
<1> QED
  BY <1>1, <1>2, <1>3, <1>4 DEF Items

LEMMA ItemsHeadTail ==
    ASSUME NEW S, NEW s \in Seq(S), s # <<>>
    PROVE  /\ Head(s) \in S
           /\ Tail(s) \in Seq(S)
           /\ Items(s) = {Head(s)} \cup Items(Tail(s))
<1>1. Head(s) = s[1] /\ 1 \in DOMAIN s /\ Tail(s) \in Seq(S) /\ Len(s) \in Nat
  OBVIOUS
<1>2. DOMAIN Tail(s) = 1..(Len(s) - 1) /\ DOMAIN s = 1..Len(s)
  OBVIOUS
<1>3. \A k \in DOMAIN Tail(s) : Tail(s)[k] = s[k + 1] /\ k + 1 \in DOMAIN s
  BY <1>2
<1>4. ASSUME NEW k \in DOMAIN s PROVE s[k] \in {Head(s)} \cup Items(Tail(s))
  <2>1. CASE k = 1
    BY <1>1, <2>1
  <2>2. CASE k # 1
    <3>1. k - 1 \in DOMAIN Tail(s) /\ Tail(s)[k - 1] = s[k]
      BY <1>1, <1>2, <1>3, <1>4, <2>2
    <3> QED
      BY <3>1 DEF Items
  <2> QED
    BY <2>1, <2>2
<1> QED
  BY <1>1, <1>3, <1>4 DEF Items

\* What a page of the site leads to is in the site.
LEMMA ReachableStep ==
    ASSUME NEW u \in Reachable, NEW v \in Leads(u) \cap Urls
    PROVE  v \in Reachable
  BY DEF Reachable, Closed

LEMMA RootReachable == Root \in Reachable
  BY SitemapAssumption DEF Reachable, Closed

LEMMA PageTypes ==
    ASSUME TypeOK, NEW u \in Urls
    PROVE  /\ site[u].urls \in Seq(Ids \cup {Blank})
           /\ site[u].locs \in Seq(Urls \cup {Blank})
           /\ Leads(u) \subseteq Urls
<1>1. site[u] \in Page
  BY DEF TypeOK
<1>2. site[u].locs \in Seq(Urls \cup {Blank}) /\ site[u].urls \in Seq(Ids \cup {Blank})
  BY <1>1 DEF Page
<1>3. Items(site[u].locs) \subseteq Urls \cup {Blank}
  BY <1>2 DEF Items
<1> QED
  BY <1>2, <1>3 DEF Leads

LEMMA InitInv == Init => IInv
<1> SUFFICES ASSUME Init PROVE IInv
  OBVIOUS
<1> USE SitemapAssumption
<1>1. Items(todo) = {Root} /\ Items(all) = {}
  BY DEF Init, Items
<1>2. TypeOK
  BY DEF Init, TypeOK
<1>3. InSite /\ NothingLost
  BY <1>1, RootReachable DEF Init, InSite, NothingLost
<1>4. GetsAgree /\ EntriesAgree /\ EndOfWalk
  BY <1>1 DEF Init, GetsAgree, EntriesAgree, EndOfWalk
<1> QED
  BY <1>2, <1>3, <1>4 DEF IInv

LEMMA StepInv == IInv /\ [Next]_vars => IInv'
<1> SUFFICES ASSUME IInv, [Next]_vars PROVE IInv'
  OBVIOUS
<1> USE SitemapAssumption DEF IInv
\* A request.
<1>1. ASSUME NEW u \in Urls, Request(u)
      PROVE  /\ GetsAgree'
             /\ visited' \in SUBSET Urls /\ gets' \in [Urls -> Nat]
             /\ site' \in [Urls -> Page]
             /\ u \in Items(todo) /\ u \in Reachable /\ Reachable' = Reachable
             /\ todo # <<>>
             /\ \A v \in Urls : Leads(v)' = Leads(v)
  <2>1. GetsAgree' /\ gets' \in [Urls -> Nat] /\ visited' \in SUBSET Urls
    BY <1>1 DEF Request, Arrive, GetsAgree, TypeOK
  <2>2. u \in Items(todo) /\ todo # <<>>
    BY <1>1, ItemsHeadTail DEF Request, Arrive, TypeOK
  <2>3. u \in Reachable
    BY <2>2 DEF InSite
  <2>4. Reachable' = Reachable /\ \A v \in Urls : Leads(v)' = Leads(v)
    BY <1>1 DEF Request, Reachable, Closed, Leads
  <2> QED
    BY <1>1, <2>1, <2>2, <2>3, <2>4 DEF Request, TypeOK
<1>2. ASSUME NEW u \in Urls, ReadIndex(u)
      PROVE  IInv'
  <2>1. Request(u) /\ u = Head(todo) /\ result = "none"
    BY <1>2 DEF ReadIndex, Request, Arrive
  <2>2. /\ todo' \in Seq(Urls \cup {Blank})
        /\ Items(todo') = Items(site[u].locs) \cup Items(Tail(todo))
        /\ Items(todo) = {u} \cup Items(Tail(todo))
    <3>1. todo \in Seq(Urls \cup {Blank}) /\ todo # <<>>
      BY <1>1, <2>1 DEF TypeOK
    <3>2. /\ Tail(todo) \in Seq(Urls \cup {Blank})
          /\ Items(todo) = {u} \cup Items(Tail(todo))
      BY <2>1, <3>1, ItemsHeadTail
    <3>3. site[u].locs \in Seq(Urls \cup {Blank})
      BY PageTypes
    <3>4. todo' = site[u].locs \o Tail(todo)
      BY <1>2 DEF ReadIndex
    <3> DEFINE s == site[u].locs
               t == Tail(todo)
    <3>5. s \in Seq(Urls \cup {Blank}) /\ t \in Seq(Urls \cup {Blank})
      BY <3>2, <3>3
    <3> HIDE DEF s, t
    <3>6. s \o t \in Seq(Urls \cup {Blank}) /\ Items(s \o t) = Items(s) \cup Items(t)
      BY ONLY <3>5, ItemsConcat
    <3> QED
      BY <3>2, <3>4, <3>6 DEF s, t
  <2>3. Leads(u) = Items(site[u].locs) \ {Blank}
    BY <1>2 DEF ReadIndex, Leads
  <2>4. visited' = visited \cup {u} /\ site' = site
    BY <2>1 DEF Request
  <2>5. TypeOK'
    BY <1>1, <1>2, <2>1, <2>2 DEF ReadIndex, TypeOK
  <2>6. InSite'
    BY <1>1, <2>1, <2>2, <2>3, <2>4, PageTypes, ReachableStep DEF InSite
  <2>7. NothingLost'
    <3>1. Root \in visited' \cup Items(todo')
      BY <2>1, <2>2, <2>4 DEF NothingLost
    <3>2. ASSUME NEW v \in visited' PROVE Leads(v) \subseteq visited' \cup Items(todo')
      BY <2>1, <2>2, <2>3, <2>4 DEF NothingLost
    <3> QED
      BY <1>1, <2>1, <3>1, <3>2 DEF NothingLost, TypeOK
  <2>8. EntriesAgree' /\ EndOfWalk'
    <3>1. Items(site[u].urls) = {} /\ all' = all /\ result' = "none"
      BY <1>2, <2>1 DEF ReadIndex, Items
    <3> QED
      BY <2>1, <2>4, <3>1 DEF EntriesAgree, EndOfWalk
  <2> QED
    BY <1>1, <2>1, <2>5, <2>6, <2>7, <2>8
<1>3. ASSUME NEW u \in Urls, ReadArticles(u)
      PROVE  IInv'
  <2>1. Request(u) /\ u = Head(todo) /\ result = "none" /\ result' = "none"
    BY <1>3 DEF ReadArticles, Request, Arrive
  <2>2. /\ todo' = Tail(todo) /\ todo' \in Seq(Urls \cup {Blank})
        /\ Items(todo) = {u} \cup Items(todo')
    BY <1>1, <1>3, <2>1, ItemsHeadTail DEF ReadArticles, TypeOK
  <2>3. all' \in Seq(Ids \cup {Blank})
        /\ Items(all') = Items(all) \cup Items(site[u].urls)
    BY <1>3, PageTypes, ItemsConcat DEF ReadArticles, TypeOK
  <2>4. visited' = visited \cup {u} /\ site' = site /\ Leads(u) = {}
    BY <1>3, <2>1 DEF ReadArticles, Request, Leads
  <2>5. TypeOK'
    BY <1>1, <1>3, <2>1, <2>2, <2>3 DEF ReadArticles, TypeOK
  <2>6. InSite'
    BY <1>1, <2>1, <2>2, <2>4 DEF InSite
  <2>7. NothingLost'
    <3>1. Root \in visited' \cup Items(todo')
      BY <2>1, <2>2, <2>4 DEF NothingLost
    <3>2. ASSUME NEW v \in visited' PROVE Leads(v) \subseteq visited' \cup Items(todo')
      BY <2>1, <2>2, <2>4 DEF NothingLost
    <3> QED
      BY <1>1, <2>1, <3>1, <3>2 DEF NothingLost, TypeOK
  <2>8. EntriesAgree' /\ EndOfWalk'
    BY <2>1, <2>3, <2>4 DEF EntriesAgree, EndOfWalk
  <2> QED
    BY <1>1, <2>1, <2>5, <2>6, <2>7, <2>8
<1>4. ASSUME NEW u \in Urls, Abort(u)
      PROVE  IInv'
  <2>1. Request(u) /\ visited' = visited \cup {u} /\ result' = "error"
    BY <1>4 DEF Abort, Request
  <2>2. TypeOK'
    BY <1>1, <1>4, <2>1 DEF Abort, TypeOK
  <2>3. InSite'
    BY <1>1, <1>4, <2>1 DEF Abort, InSite
  <2> QED
    BY <1>1, <2>1, <2>2, <2>3 DEF NothingLost, EntriesAgree, EndOfWalk
<1>5. ASSUME Skip
      PROVE  IInv'
  <2>1. /\ todo' \in Seq(Urls \cup {Blank})
        /\ Items(todo) = {Head(todo)} \cup Items(todo')
        /\ Head(todo) \in visited \cup {Blank}
        /\ result' = "none" /\ result = "none"
    BY <1>5, ItemsHeadTail DEF Skip, TypeOK
  <2>2. UNCHANGED <<site, visited, all, gets>>
    BY <1>5 DEF Skip
  <2>3. TypeOK' /\ GetsAgree'
    BY <2>1, <2>2 DEF TypeOK, GetsAgree
  <2>4. InSite'
    BY <2>1, <2>2 DEF InSite, Reachable, Closed, Leads
  <2>5. NothingLost'
    <3>1. Blank # Root /\ \A u \in visited : Blank \notin Leads(u)
      BY DEF Leads
    <3>2. Root \in visited \cup Items(todo')
      BY <2>1, <3>1 DEF NothingLost
    <3>3. ASSUME NEW u \in visited PROVE Leads(u) \subseteq visited \cup Items(todo')
      BY <2>1, <3>1 DEF NothingLost
    <3> QED
      BY <2>2, <3>2, <3>3 DEF NothingLost, Leads
  <2>6. EntriesAgree' /\ EndOfWalk'
    BY <2>1, <2>2 DEF EntriesAgree, EndOfWalk
  <2> QED
    BY <2>3, <2>4, <2>5, <2>6
<1>6. ASSUME Finish
      PROVE  IInv'
  <2>1. todo = <<>> /\ result = "none" /\ UNCHANGED <<site, visited, todo, all, gets>>
        /\ result' \in {"articles", "error"}
    BY <1>6 DEF Finish
  <2>2. TypeOK' /\ GetsAgree' /\ EndOfWalk'
    BY <2>1 DEF TypeOK, GetsAgree, EndOfWalk
  <2>3. InSite' /\ NothingLost' /\ EntriesAgree'
    BY <2>1 DEF InSite, NothingLost, EntriesAgree, Reachable, Closed, Leads
  <2> QED
    BY <2>2, <2>3
<1>7. CASE UNCHANGED vars
  <2>1. TypeOK' /\ GetsAgree' /\ EndOfWalk'
    BY <1>7 DEF vars, TypeOK, GetsAgree, EndOfWalk
  <2>2. InSite' /\ NothingLost' /\ EntriesAgree'
    BY <1>7 DEF vars, InSite, NothingLost, EntriesAgree, Reachable, Closed, Leads
  <2> QED
    BY <2>1, <2>2
<1> QED
  BY <1>2, <1>3, <1>4, <1>5, <1>6, <1>7 DEF Next, Done

LEMMA Invariant == Spec => []IInv
  BY InitInv, StepInv, PTL DEF Spec
-----------------------------------------------------------------------------
(***************************************************************************)
(* The theorems.                                                           *)
(***************************************************************************)

\* Every variable keeps its type.
THEOREM TypeCorrect == Spec => []TypeOK
<1>1. IInv => TypeOK
  BY DEF IInv
<1> QED
  BY Invariant, <1>1, PTL

\* On every site fetchGoogleNewsURLs requests a location at most once.
THEOREM OneRequestEach == Spec => []FetchedOnce
<1>1. IInv => FetchedOnce
  <2> SUFFICES ASSUME IInv, NEW u \in Urls PROVE gets[u] <= 1
    BY DEF FetchedOnce
  <2>1. gets[u] = 0 \/ gets[u] = 1
    BY DEF IInv, GetsAgree
  <2> QED
    BY <2>1
<1> QED
  BY Invariant, <1>1, PTL

\* On every site a fetch that returns articles has been to all the pages the
\* source URL leads to, and to no other, and has all their entries.
THEOREM NothingMissed == Spec => []WholeSite
<1>1. IInv => WholeSite
  <2> SUFFICES ASSUME IInv, result = "articles" PROVE WholeSite
    BY DEF WholeSite
  <2>1. Items(todo) = {}
    BY DEF IInv, EndOfWalk, Items
  <2>2. Closed(visited)
    BY <2>1 DEF IInv, NothingLost, Closed
  <2>3. Reachable \subseteq visited
    BY <2>2 DEF Reachable, IInv, TypeOK
  <2>4. visited = Reachable
    BY <2>3 DEF IInv, InSite
  <2> QED
    BY <2>4 DEF WholeSite, IInv, EntriesAgree
<1> QED
  BY Invariant, <1>1, PTL
=============================================================================
