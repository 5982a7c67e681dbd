------------------------------- MODULE Crawl -------------------------------
(***************************************************************************)
(* What the recursive asset fetcher promises, seen from outside: URLs are  *)
(* found at most once and never more than Cap of them, a found URL is      *)
(* either skipped for good or waits to be fetched, at most Limit fetches   *)
(* run at once, and a URL that waits is fetched and finished once.         *)
(***************************************************************************)
EXTENDS Naturals, FiniteSets

CONSTANTS
  Url,      \* the URLs a page can refer to
  Cap,      \* how many URLs one scan may find
  Limit     \* how many fetches may run at once

VARIABLES
  found,    \* URLs seen so far
  todo,     \* found and waiting for a fetch
  busy      \* being fetched

vars == <<found, todo, busy>>

Init == found = {} /\ todo = {} /\ busy = {}

\* A new URL is found; it may be one that the scan decides to skip.
Find(u) ==
  /\ u \notin found
  /\ Cardinality(found) < Cap
  /\ found' = found \cup {u}
  /\ todo' \in {todo, todo \cup {u}}
  /\ UNCHANGED busy

Start(u) ==
  /\ u \in todo
  /\ Cardinality(busy) < Limit
  /\ todo' = todo \ {u}
  /\ busy' = busy \cup {u}
  /\ UNCHANGED found

Finish(u) ==
  /\ u \in busy
  /\ busy' = busy \ {u}
  /\ UNCHANGED <<found, todo>>

Next == \E u \in Url : Find(u) \/ Start(u) \/ Finish(u)

Safe == Init /\ [][Next]_vars

Spec ==
  /\ Safe
  /\ WF_vars(\E u \in Url : Start(u))
  /\ \A u \in Url : WF_vars(Finish(u))
=============================================================================
