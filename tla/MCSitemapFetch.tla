-------------------------- MODULE MCSitemapFetch ----------------------------
(***************************************************************************)
(* Instances of SitemapFetch: every site of three pages whose indexes have *)
(* at most two locations, so every cycle, diamond and dead end among them. *)
(***************************************************************************)
EXTENDS SitemapFetch

CONSTANTS r, a, b, x, y

UpTo2(S) == {<<>>} \cup {<<s>> : s \in S} \cup {<<s, t>> : s, t \in S}

Index == [urls : {<<>>}, locs : UpTo2(Urls \cup {Blank})]

\* Article lists: entries without a location, a page that is an index too.
Lists == {[urls |-> <<x>>, locs |-> <<>>],
          [urls |-> <<Blank>>, locs |-> <<>>],
          [urls |-> <<y, Blank, x>>, locs |-> <<a>>]}

AllSites == [Urls -> Index \cup Lists]
=============================================================================
