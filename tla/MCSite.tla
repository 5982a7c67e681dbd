------------------------------- MODULE MCSite -------------------------------
(***************************************************************************)
(* Two processes that scan a site of two builds.                           *)
(***************************************************************************)
EXTENDS ScanSite, TLC

CONSTANTS p1, p2, k1, k2, r1, r2, a1, a2, a3, home, local, bad

\* Both builds have the script a1 and the libraries a2 and a3, which changes.
MCBodyOf ==
  [b \in {k1, k2} |-> [d \in {a1, a2, a3, Page} |->
     CASE d = Page -> IF b = k1 THEN "page 1" ELSE "page 2"
       [] d = a1 -> "a1"
       [] d = a2 -> "a2"
       [] d = a3 -> IF b = k1 THEN "a3" ELSE "a3 new"]]

MCRevisionOf == ("page 1" :> r1) @@ ("page 2" :> r2)

Url(path, slash, query) == [path |-> path, slash |-> slash, dynamic |-> FALSE, query |-> query]

HitOf(kind, url, flags) ==
  [url |-> url, kind |-> kind, from |-> "call", shape |-> [flags |-> flags, keys |-> <<>>]]

\* The page and its scripts find the same API under several spellings, and a
\* route that is also a candidate.
MCHits ==
  ("page 1" :> <<HitOf("api", Url("a", FALSE, <<3, 1>>), {"GET"}),
                 HitOf("route", Url("b", TRUE, <<>>), {})>>) @@
  ("page 2" :> <<HitOf("api", Url("b", FALSE, <<>>), {"GET"})>>) @@
  ("a1" :> <<HitOf("api", [Url("a", FALSE, <<2>>) EXCEPT !.dynamic = TRUE], {"POST"}),
             HitOf("candidate", Url("b", FALSE, <<4>>), {})>>) @@
  ("a2" :> <<HitOf("api", Url("a", FALSE, <<0>>), {"POST"}),
             HitOf("candidate", Url("a", FALSE, <<>>), {})>>) @@
  ("a3" :> <<>>) @@ ("a3 new" :> <<HitOf("route", Url("a", FALSE, <<>>), {})>>)

\* Page 1 has a1 and a library, and the other, behind a1, meets the cap; behind
\* the library of page 2 is another, once it has changed, which is one too many.
MCRefs ==
  ("page 1" :> {a1, a2}) @@ ("page 2" :> {a3}) @@ ("a1" :> {a1, a3}) @@ ("a2" :> {}) @@
  ("a3" :> {}) @@ ("a3 new" :> {a2})

Cached == [useCache |-> TRUE, allowPrivate |-> FALSE]
Uncached == [useCache |-> FALSE, allowPrivate |-> TRUE]

MCModes == [p \in {p1, p2} |-> IF p = p1 THEN {Cached, Uncached} ELSE {Cached}]

Spec == SiteSpec
=============================================================================
