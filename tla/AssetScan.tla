----------------------------- MODULE AssetScan -----------------------------
(***************************************************************************)
(* The recursive asset scan of src/src/runtime/fetch.rs: one loop that     *)
(* keeps a breadth-first queue, at most `concurrency` fetches in flight    *)
(* (BoundedUnordered of runtime/concurrent.rs), and a visited set that is  *)
(* both the dedupe and the cap counter.                                    *)
(*                                                                         *)
(* The loop is one task, so its iterations are the steps: one reference    *)
(* considered by enqueue_assets, one fetch started, one fetch completed.   *)
(* What the servers answer and what the cache holds is fixed per behaviour *)
(* in `site`; which fetch in flight is ready first is not.                 *)
(***************************************************************************)
EXTENDS Integers, Sequences, FiniteSets

CONSTANTS
  Url,            \* asset URLs
  Ref,            \* AssetRefs: records [url, kind, source]
  PathWords,      \* Url -> the fragments asset_priority tests the path for
  Concurrency,    \* env.concurrency
  MaxAssets,      \* MAX_TOTAL_ASSETS
  MaxLowSignal,   \* MAX_LOW_SIGNAL_ASSETS
  Sites           \* the sites a scan may meet

AssetKind == {"Script", "Manifest", "Payload"}
AssetSource == {"HtmlScript", "HtmlPreload", "Literal", "DynamicImport",
                "NewUrl", "NextManifest", "FrameworkManifest"}

\* How the request ends: a status class after redirects, or "unreadable" for
\* a network error, a refused URL or a body over the size limit.
Answer == {"ok", "notModified", "auth", "missing", "unreadable"}

\* What cache::resolve_asset finds: usable data (Hit, StaleRevalidate), data
\* to revalidate (Revalidate), or nothing (Miss).
CacheAction == {"usable", "revalidate", "miss"}

Site == [ root   : Seq(Ref),              \* references of the root document
          links  : [Ref -> Seq(Ref)],     \* references of each asset
          answer : [Ref -> Answer],
          cache  : [Ref -> CacheAction] ]

ASSUME RefAssumption ==
  /\ Ref \subseteq [url : Url, kind : AssetKind, source : AssetSource]
  /\ PathWords \in [Url -> SUBSET {"app", "lowSignal"}]

ASSUME BoundAssumption ==
  /\ Concurrency \in Nat
  /\ MaxAssets \in Nat
  /\ MaxLowSignal \in Nat

ASSUME SiteAssumption == Sites \subseteq Site

VARIABLES
  site,           \* the environment: one of Sites, constant
  incoming,       \* references the running enqueue_assets has still to look at
  pending,        \* its local `pending`, kept sorted by priority
  visited,        \* URLs seen
  queue,          \* references waiting for a fetch
  lowSignal,      \* low_signal_enqueued
  inFlight,       \* references whose fetch_scan future is in `fetched`
  asked,          \* URLs fetch_scan was called for so far
  scanned,        \* references whose findings went into `out`
  failed, unauthorized, capped, discovered,    \* AssetScanStats
  returned        \* scan_assets has returned

stats == <<failed, unauthorized, capped, discovered>>
vars == <<site, incoming, pending, visited, queue, lowSignal, inFlight,
          asked, scanned, stats, returned>>

-----------------------------------------------------------------------------
(* Classification of references                                            *)

IsLowSignal(r) == r.kind = "Script" /\ "lowSignal" \in PathWords[r.url]

IsOptionalManifest(r) == r.source \in {"NextManifest", "FrameworkManifest"}

Priority(r) ==
  IF IsOptionalManifest(r) THEN 0
  ELSE IF r.kind = "Manifest" THEN 1
  ELSE IF r.kind = "Payload" THEN 3
  ELSE IF r.source \in {"HtmlScript", "HtmlPreload"} THEN 2
  ELSE IF r.source \in {"DynamicImport", "NewUrl"} THEN 4
  ELSE IF "app" \in PathWords[r.url] THEN 5
  ELSE IF "lowSignal" \in PathWords[r.url] THEN 8 ELSE 6

RefsIn(s) == {s[i] : i \in DOMAIN s}
UrlsOf(S) == {r.url : r \in S}
Urls(s) == UrlsOf(RefsIn(s))

-----------------------------------------------------------------------------
(* enqueue_assets, one reference at a time                                 *)

\* Where the trailing stable sort puts r: behind everything not worse.
InsertByPriority(s, r) ==
  LET before == Cardinality({i \in DOMAIN s : Priority(s[i]) <= Priority(r)})
  IN  [i \in 1 .. Len(s) + 1 |->
         IF i <= before THEN s[i] ELSE IF i = before + 1 THEN r ELSE s[i - 1]]

\* Mutant: the cap test lets one more URL in.
AtCap_OffByOne == Cardinality(visited) > MaxAssets

AtCap == Cardinality(visited) >= MaxAssets

\* Mutant: the cap is dropped without a word.
CapNotice_Silent(r) == FALSE

\* Mutant: any reference met at the cap counts, visited or not.
CapNotice_Any(r) == AtCap

\* At the cap only a reference not seen before makes the scan incomplete.
CapNotice(r) == AtCap /\ r.url \notin visited

\* The reference is new and there is room for it: it becomes visited.
Fresh(r) == ~AtCap /\ r.url \notin visited

\* Mutant: the budget of low-signal assets is taken for a budget of assets.
SkipLowSignal_AnyKind(r) == lowSignal >= MaxLowSignal

\* The low-signal budget is spent: the URL is visited but never queued.
SkipLowSignal(r) == IsLowSignal(r) /\ lowSignal >= MaxLowSignal

\* One iteration; the last one also appends the sorted batch to the queue.
Enqueue ==
  /\ incoming # <<>>
  /\ LET r == Head(incoming)
         accepted == Fresh(r) /\ ~SkipLowSignal(r)
         batch == IF accepted THEN InsertByPriority(pending, r) ELSE pending
     IN  /\ capped' = (capped \/ CapNotice(r))
         /\ visited' = IF Fresh(r) THEN visited \cup {r.url} ELSE visited
         /\ lowSignal' = IF accepted /\ IsLowSignal(r) THEN lowSignal + 1 ELSE lowSignal
         /\ queue' = IF Len(incoming) = 1 THEN queue \o batch ELSE queue
         /\ pending' = IF Len(incoming) = 1 THEN <<>> ELSE batch
  /\ incoming' = Tail(incoming)
  /\ UNCHANGED <<site, inFlight, asked, scanned, failed, unauthorized,
                 discovered, returned>>

-----------------------------------------------------------------------------
(* Fetching                                                                *)

Limit == IF Concurrency >= 1 THEN Concurrency ELSE 1

\* FetchOptions::asset: net::fetch returns a response for these only.
AcceptStatus(a) == a \in {"ok", "notModified"}

\* fetch_asset_body: its early returns, in the order of the code.
FetchAssetBody(r) ==
  LET a == site.answer[r]
  IN  IF ~AcceptStatus(a) THEN "other"
      ELSE IF a = "notModified" THEN "notModified"
      ELSE IF a = "ok" \/ IsOptionalManifest(r) THEN "body"
      ELSE IF a = "auth" THEN "unauthorized" ELSE "other"

\* fetch_scan: cached data first, then the network; a 304 needs cached data.
FetchScan(r) ==
  IF site.cache[r] = "usable" \/ FetchAssetBody(r) = "body" THEN "scan"
  ELSE IF FetchAssetBody(r) = "notModified"
  THEN IF site.cache[r] = "revalidate" THEN "scan" ELSE "other"
  ELSE FetchAssetBody(r)

\* Mutant: one fetch too many.
HasRoom_OffByOne == Cardinality(inFlight) <= Limit

HasRoom == Cardinality(inFlight) < Limit

\* One turn of the filling loop: the front of the queue is fetched.
StartFetch ==
  /\ incoming = <<>>
  /\ HasRoom
  /\ queue # <<>>
  /\ queue' = Tail(queue)
  /\ inFlight' = inFlight \cup {Head(queue)}
  /\ asked' = asked \cup {Head(queue).url}
  /\ UNCHANGED <<site, incoming, pending, visited, lowSignal, scanned,
                 stats, returned>>

\* Mutant: the loop waits for a full set of fetches before it looks.
Awaiting_FullOnly == incoming = <<>> /\ ~HasRoom

\* Nothing more can be started: the loop awaits one of the fetches.
Awaiting == incoming = <<>> /\ (~HasRoom \/ queue = <<>>)

FetchOk(r) ==
  /\ Awaiting
  /\ r \in inFlight
  /\ FetchScan(r) = "scan"
  /\ inFlight' = inFlight \ {r}
  /\ scanned' = scanned \cup {r}
  /\ incoming' = site.links[r]
  /\ UNCHANGED <<site, pending, visited, queue, lowSignal, asked, stats,
                 returned>>

FetchErr(r) ==
  /\ Awaiting
  /\ r \in inFlight
  /\ FetchScan(r) # "scan"
  /\ inFlight' = inFlight \ {r}
  /\ failed' = failed + 1
  /\ unauthorized' = IF FetchScan(r) = "unauthorized" THEN unauthorized + 1
                     ELSE unauthorized
  /\ UNCHANGED <<site, incoming, pending, visited, queue, lowSignal, asked,
                 scanned, capped, discovered, returned>>

\* Mutant: an empty queue is taken for the end of the scan.
Drained_QueueOnly == incoming = <<>> /\ queue = <<>>

\* BoundedUnordered::next returns None: nothing is in flight.
Drained == Awaiting /\ inFlight = {}

Return ==
  /\ ~returned
  /\ Drained
  /\ discovered' = Cardinality(visited)
  /\ returned' = TRUE
  /\ UNCHANGED <<site, incoming, pending, visited, queue, lowSignal, inFlight,
                 asked, scanned, failed, unauthorized, capped>>

-----------------------------------------------------------------------------
Init ==
  /\ site \in Sites
  /\ incoming = site.root
  /\ pending = <<>>
  /\ visited = {}
  /\ queue = <<>>
  /\ lowSignal = 0
  /\ inFlight = {}
  /\ asked = {}
  /\ scanned = {}
  /\ failed = 0 /\ unauthorized = 0 /\ capped = FALSE /\ discovered = 0
  /\ returned = FALSE

Loop == Enqueue \/ StartFetch \/ Return

Resolve(r) == FetchOk(r) \/ FetchErr(r)

Next == Loop \/ \E r \in Ref : Resolve(r)

\* The loop runs whenever it can. That every request in flight is answered
\* in the end is an assumption on the servers: the code has no timeout.
Fairness == WF_vars(Loop) /\ \A r \in Ref : WF_vars(Resolve(r))

Spec == Init /\ [][Next]_vars /\ Fairness

-----------------------------------------------------------------------------
(* Properties                                                              *)

\* Every variable has the type of the code's: in particular the low-signal
\* counter never passes its budget and the visited set never passes the cap.
TypeOK ==
  /\ site \in Sites
  /\ incoming \in Seq(Ref) /\ pending \in Seq(Ref) /\ queue \in Seq(Ref)
  /\ visited \in SUBSET Url /\ Cardinality(visited) <= MaxAssets
  /\ lowSignal \in 0 .. MaxLowSignal
  /\ inFlight \in SUBSET Ref /\ Cardinality(inFlight) <= Limit
  /\ asked \in SUBSET Url
  /\ scanned \in SUBSET Ref
  /\ failed \in Nat /\ unauthorized \in Nat /\ unauthorized <= failed
  /\ capped \in BOOLEAN /\ discovered \in Nat /\ returned \in BOOLEAN

\* What the root document and the assets scanned so far refer to.
Reported == RefsIn(site.root) \cup UNION {RefsIn(site.links[r]) : r \in scanned}

\* The URLs that will be fetched, are being fetched or were fetched.
Admitted == asked \cup Urls(queue) \cup Urls(pending)

\* Every reference of the root document or of a scanned asset is visited,
\* still to be looked at, or makes the scan say that it was capped.
NothingForgotten ==
  \A r \in Reported : r.url \in visited \/ r \in RefsIn(incoming) \/ capped

\* The warning "stopped after N discovered assets; results may be incomplete"
\* is never a false alarm: the cap is reached and a reported URL was left out.
CapIsHonest ==
  capped => /\ Cardinality(visited) = MaxAssets
            /\ \E r \in Reported : r.url \notin visited

\* AssetScanStats adds up: every fetch asked for is in flight, scanned or
\* counted as failed, and a visited URL that is never fetched is a low-signal
\* asset met when the low-signal budget was spent.
Accounting ==
  /\ Admitted \subseteq visited
  /\ Cardinality(asked) = Cardinality(inFlight) + Cardinality(scanned) + failed
  /\ \A u \in visited \ Admitted :
       /\ lowSignal = MaxLowSignal
       /\ \E r \in Reported : r.url = u /\ IsLowSignal(r)

\* A scan that returns without a warning and within the low-signal budget has
\* scanned every asset that the root or any scanned asset refers to.
QuietScanIsComplete ==
  returned /\ ~capped /\ failed = 0 /\ lowSignal < MaxLowSignal =>
    UrlsOf(Reported) = UrlsOf(scanned)

\* No URL is fetched twice in a scan, however often and under whatever kind
\* it is referred to, and however the fetches interleave.
FetchedOnce == [][\A r \in inFlight' \ inFlight : r.url \notin asked]_vars

\* The scan is a bounded crawl: see Crawl.
C == INSTANCE Crawl WITH
       Cap <- MaxAssets,
       found <- visited,
       todo <- Urls(queue) \cup Urls(pending),
       busy <- UrlsOf(inFlight)

\* The loop implements the abstract crawl, its fairness included.
CrawlSpec == C!Spec

\* A scan returns, cyclic references or not, if every request is answered.
Terminates == <>returned

\* Said by the comment at fetch.rs:333-335: a missing optional manifest "does
\* not make the whole scan look incomplete", that is, it is no failed asset.
MissingManifestIsNotAFailure ==
  (\A r \in Ref : site.answer[r] = "missing" => IsOptionalManifest(r))
    /\ (\A r \in Ref : site.answer[r] \in {"ok", "missing"})
  => failed = 0
=============================================================================
