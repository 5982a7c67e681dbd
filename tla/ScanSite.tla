------------------------------ MODULE ScanSite ------------------------------
(***************************************************************************)
(* A scan of one site from the URL to the output: scan_site of             *)
(* src/src/runtime/processor.rs with the root document behind redirects    *)
(* (fetch_root.rs, net/mod.rs, net/fetch.rs), the assets in the order in   *)
(* which they finish, and the cache of processed output, which processes   *)
(* that scan the same site share.                                          *)
(*                                                                         *)
(* The crawl of the assets is AssetScan's: here a reference is taken once, *)
(* up to Cap of them and MaxLowSignal of those to libraries, and finishes  *)
(* well or not; the references of a document come in any order. What an    *)
(* asset's cache may answer is AssetCache's: the asset of this or of       *)
(* another build. The site is external: it redirects, fails and is         *)
(* deployed at any time.                                                   *)
(***************************************************************************)
EXTENDS Findings, Integers, FiniteSets

CONSTANTS
  Proc,          \* slots for processes; a slot is used again
  Build,         \* what is deployed at the site
  Asset,
  None,
  LowSignal,     \* scripts of libraries: is_low_signal_asset
  Body,          \* contents of documents
  BodyOf,        \* Build -> document -> its content
  RevisionOf,    \* content of a page -> its revision, or None when it names none
  Hits,          \* content -> what the scanners find in it
  Refs,          \* content -> the assets it refers to
  Modes,         \* Proc -> how scans are asked for: [useCache, allowPrivate]
  Location,      \* URLs the root may be redirected to
  Start,         \* the one that is scanned
  BadScheme,     \* those that are neither http nor https
  LocalHost,     \* those whose host is a private address or a local name
  Literal,       \* those whose host is an address, so nothing is resolved
  MaxRedirects,  \* MAX_REDIRECTS, scaled
  Cap,           \* MAX_TOTAL_ASSETS, scaled
  MaxLowSignal,  \* MAX_LOW_SIGNAL_ASSETS, scaled
  FreshLimit,    \* CACHE_FRESH_SECS, scaled
  StaleLimit     \* CACHE_STALE_SECS

Page == "page"
Document == Asset \cup {Page}
PageBody == {BodyOf[b][Page] : b \in Build}
Revision == {RevisionOf[b] : b \in PageBody} \cup {None}

ASSUME SiteAssumption ==
  /\ IsFiniteSet(Asset) /\ Page \notin Asset /\ LowSignal \subseteq Asset
  /\ None \notin Body
  /\ BodyOf \in [Build -> [Document -> Body]]
  /\ DOMAIN RevisionOf = PageBody
  /\ Refs \in [Body -> SUBSET Asset]
  /\ \A b \in Body : Hits[b] \in Seq(Hit)
  /\ Modes \in [Proc -> SUBSET [useCache : BOOLEAN, allowPrivate : BOOLEAN]]
  /\ Start \in Location
  /\ BadScheme \cup LocalHost \cup Literal \subseteq Location
  /\ MaxRedirects \in Nat \ {0} /\ Cap \in Nat /\ MaxLowSignal \in Nat
  /\ FreshLimit \in Nat \ {0} /\ StaleLimit \in Nat /\ FreshLimit <= StaleLimit

VARIABLES
  build,     \* what the site has now
  disk,      \* the file of the processed cache: [output, age], or None
  scan,      \* Proc -> the local variables of its scan_site
  out,       \* Proc -> the output it has returned, or None
  job        \* Proc -> the output whose write is deferred, or None

vars == <<build, disk, scan, out, job>>

-----------------------------------------------------------------------------
(* Local state                                                             *)

Phase == {"idle", "stat_fresh", "read_fresh", "validate", "answer",
          "stat_stale", "read_stale", "start", "assets", "done", "failed"}

\* page: the content of the root document. found: the contents scanned, in the
\* order of arrival. lost: what was referred to and could not be read, or not be
\* taken at the cap. skipped: what was not to be read, beyond the budget of
\* libraries. No variable of the code has these two. checked: the URL of this hop
\* was validated in this hop.
Scan == [phase : Phase, useCache : BOOLEAN, allowPrivate : BOOLEAN,
         age : 0..StaleLimit, at : Location, hops : 0..MaxRedirects,
         checked : BOOLEAN, page : PageBody \cup {None}, found : Seq(Body),
         seen : SUBSET Asset, todo : SUBSET Asset, lost : SUBSET Asset,
         skipped : SUBSET Asset, lowSignal : 0..MaxLowSignal,
         failed : Nat, unauthorized : Nat, capped : BOOLEAN]

Idle ==
  [phase |-> "idle", useCache |-> FALSE, allowPrivate |-> FALSE, age |-> 0,
   at |-> Start, hops |-> 0, checked |-> FALSE, page |-> None, found |-> <<>>,
   seen |-> {}, todo |-> {}, lost |-> {}, skipped |-> {}, lowSignal |-> 0,
   failed |-> 0, unauthorized |-> 0, capped |-> FALSE]

In(p, phase) == scan[p].phase = phase

Go(p, phase) == scan' = [scan EXCEPT ![p].phase = phase]

\* The local variables are gone; the page and its revision are kept for the
\* properties.
Ended(p, phase) ==
  scan' = [scan EXCEPT ![p] = [Idle EXCEPT !.phase = phase, !.page = scan[p].page]]

Return(p, output) ==
  /\ out' = [out EXCEPT ![p] = output]
  /\ Ended(p, "done")

-----------------------------------------------------------------------------
(* Outputs and their file                                                  *)

WarningKind == {"auth", "auth_and_other", "failed", "capped"}

\* from, lost and skipped are not in the code: what the output was made of, and
\* what it was not.
Status == {"Stored", "Fresh", "RevisionHit", "Miss"}

IsOutput(o) ==
  /\ o \in [apis : {o.apis}, revision : Revision, warnings : SUBSET WarningKind,
             cache : Status, age : (0..StaleLimit) \cup {None},
             from : SUBSET Body, lost : SUBSET Asset, skipped : SUBSET Asset]
  /\ DOMAIN o.apis \subseteq Path
  /\ \A path \in DOMAIN o.apis : o.apis[path] \in Shape

\* An asset that needs authorization fails like any other (AssetFails), so the
\* first two are never there.
WarningsFromAssets(s) ==
  {w \in WarningKind :
     \/ w = "auth" /\ s.failed > 0 /\ s.unauthorized = s.failed
     \/ w = "auth_and_other" /\ s.unauthorized > 0 /\ s.unauthorized < s.failed
     \/ w = "failed" /\ s.failed > 0 /\ s.unauthorized = 0
     \/ w = "capped" /\ s.capped}

\* The evidence in contents, in their order.
EvidenceOf(found) ==
  FoldLeft(LAMBDA evidence, b : evidence \o RecordAll(Hits[b]), <<>>, found)

OutputOf(s) ==
  [apis |-> CollectApis(Finish(EvidenceOf(s.found))), revision |-> RevisionOf[s.page],
   warnings |-> WarningsFromAssets(s), cache |-> "Miss", age |-> None,
   from |-> Range(s.found), lost |-> s.lost,
   skipped |-> s.skipped]

Marked(output, cache, age) == [output EXCEPT !.cache = cache, !.age = age]

Young(limit) == disk # None /\ disk.age < limit

\* decode_output_binary answers None for a file that was not written whole.
Decoded == IF disk = None THEN None ELSE disk.output

-----------------------------------------------------------------------------
(* scan_site: the processed cache                                          *)

Begin(p) ==
  /\ In(p, "idle")
  /\ \E mode \in Modes[p] :
       scan' = [scan EXCEPT ![p].useCache = mode.useCache, ![p].allowPrivate = mode.allowPrivate,
                            ![p].phase = IF mode.useCache THEN "stat_fresh" ELSE "validate"]
  /\ UNCHANGED <<build, disk, out, job>>

\* read_fresh: first the age of the file, ...
StatFresh(p) ==
  /\ In(p, "stat_fresh")
  /\ IF Young(FreshLimit)
     THEN scan' = [scan EXCEPT ![p].phase = "read_fresh", ![p].age = disk.age]
     ELSE Go(p, "validate")
  /\ UNCHANGED <<build, disk, out, job>>

\* ... then its bytes, which another process may have replaced.
ReadFresh(p) ==
  /\ In(p, "read_fresh")
  /\ IF Decoded # None
     THEN Return(p, Marked(Decoded, "Fresh", scan[p].age))
     ELSE Go(p, "validate") /\ UNCHANGED out
  /\ UNCHANGED <<build, disk, job>>

-----------------------------------------------------------------------------
(* fetch_root_document: net::fetch and read_limited                        *)

\* validate_url
Permitted(p) ==
  /\ scan[p].at \notin BadScheme
  /\ scan[p].allowPrivate \/ scan[p].at \notin LocalHost

\* Names are looked up, unless private addresses are allowed.
LooksUp(p) == ~scan[p].allowPrivate /\ scan[p].at \notin Literal

\* One turn of the loop: validate_request_url, and the request is sent. A lookup
\* may fail or give a private address.
Validate(p) ==
  /\ In(p, "validate")
  /\ \/ /\ scan[p].hops < MaxRedirects
        /\ Permitted(p)
        /\ scan' = [scan EXCEPT ![p].phase = "answer", ![p].hops = @ + 1, ![p].checked = TRUE]
     \/ /\ scan[p].hops = MaxRedirects \/ ~Permitted(p) \/ LooksUp(p)
        /\ Ended(p, "failed")
  /\ UNCHANGED <<build, disk, out, job>>

\* Mutant: the target of a redirect is requested as it is.
Redirected_Unchecked(p) ==
  /\ In(p, "answer")
  /\ \E next \in Location :
       scan' = [scan EXCEPT ![p].at = next, ![p].checked = FALSE,
                            ![p].phase = IF scan[p].hops < MaxRedirects THEN "answer" ELSE "failed"]
  /\ UNCHANGED <<build, disk, out, job>>

\* Mutant: the turns of the loop are not counted.
Redirected_Uncounted(p) ==
  /\ In(p, "answer")
  /\ \E next \in Location :
       scan' = [scan EXCEPT ![p].at = next, ![p].checked = FALSE, ![p].phase = "validate",
                            ![p].hops = 0]
  /\ UNCHANGED <<build, disk, out, job>>

\* A redirection with a usable Location.
Redirected(p) ==
  /\ In(p, "answer")
  /\ \E next \in Location :
       scan' = [scan EXCEPT ![p].at = next, ![p].checked = FALSE, ![p].phase = "validate"]
  /\ UNCHANGED <<build, disk, out, job>>

\* No answer, a status that is not 2xx (3xx without Location among them), or
\* a body that is too large.
RootFails(p) ==
  /\ In(p, "answer")
  /\ Ended(p, "failed")
  /\ UNCHANGED <<build, disk, out, job>>

-----------------------------------------------------------------------------
(* scan_site: the revision, and the assets                                 *)

\* The root document is read and scanned. What is not used after that is as it
\* was at the beginning.
RootScanned(p) ==
  /\ In(p, "answer")
  /\ scan' = [scan EXCEPT ![p] =
                [Idle EXCEPT !.useCache = scan[p].useCache, !.page = BodyOf[build][Page],
                             !.found = <<BodyOf[build][Page]>>,
                             !.phase = IF scan[p].useCache /\ RevisionOf[BodyOf[build][Page]] # None
                                       THEN "stat_stale" ELSE "start"]]
  /\ UNCHANGED <<build, disk, out, job>>

StatStale(p) ==
  /\ In(p, "stat_stale")
  /\ Go(p, IF Young(StaleLimit) THEN "read_stale" ELSE "start")
  /\ UNCHANGED <<build, disk, out, job>>

\* Mutant: any output that decodes is taken.
ReadStale_AnyRevision(p) ==
  /\ In(p, "read_stale")
  /\ IF Decoded # None
     THEN Return(p, Marked(Decoded, "RevisionHit", None))
     ELSE Go(p, "start") /\ UNCHANGED out
  /\ UNCHANGED <<build, disk, job>>

ReadStale(p) ==
  /\ In(p, "read_stale")
  /\ IF Decoded # None /\ Decoded.revision = RevisionOf[scan[p].page]
     THEN Return(p, Marked(Decoded, "RevisionHit", None))
     ELSE Go(p, "start") /\ UNCHANGED out
  /\ UNCHANGED <<build, disk, job>>

Smaller(a, b) == IF a < b THEN a ELSE b

\* enqueue_assets: T, which is new, is visited while there is room. K of it is
\* not queued: libraries, when as many as may be are.
Enqueue(s, refs, T, K) ==
  LET new == refs \ s.seen
      low == T \cap LowSignal
  IN  /\ T \subseteq new
      /\ Cardinality(T) = Smaller(Cardinality(new), Cap - Cardinality(s.seen))
      /\ K \subseteq low
      /\ Cardinality(low \ K) = Smaller(Cardinality(low), MaxLowSignal - s.lowSignal)

Enqueued(s, refs, T, K) ==
  LET new == refs \ s.seen
  IN  [s EXCEPT !.seen = @ \cup T, !.todo = @ \cup (T \ K), !.skipped = @ \cup K,
                !.lowSignal = @ + Cardinality((T \cap LowSignal) \ K),
                !.lost = @ \cup (new \ T), !.capped = @ \/ new # T]

StartAssets(p) ==
  /\ In(p, "start")
  /\ LET refs == Refs[scan[p].page]
         s == [scan[p] EXCEPT !.phase = "assets"]
     IN  \E T \in SUBSET refs : \E K \in SUBSET T :
           Enqueue(s, refs, T, K) /\ scan' = [scan EXCEPT ![p] = Enqueued(s, refs, T, K)]
  /\ UNCHANGED <<build, disk, out, job>>

\* The asset as the site has it, or as the asset cache has it.
AssetScanned(p, a) ==
  /\ In(p, "assets") /\ a \in scan[p].todo
  /\ \E b \in {BodyOf[k][a] : k \in IF scan[p].useCache THEN Build ELSE {build}} :
       LET s == [scan[p] EXCEPT !.todo = @ \ {a}, !.found = Append(@, b)]
       IN  \E T \in SUBSET Refs[b] : \E K \in SUBSET T :
             /\ Enqueue(s, Refs[b], T, K)
             /\ scan' = [scan EXCEPT ![p] = Enqueued(s, Refs[b], T, K)]
  /\ UNCHANGED <<build, disk, out, job>>

\* No answer, a body that is too large, or a status that is neither 2xx nor 304:
\* net::fetch makes an error of it, and that is FetchFailure::Other, for 401 and
\* 403 too.
AssetFails(p, a) ==
  /\ In(p, "assets") /\ a \in scan[p].todo
  /\ scan' = [scan EXCEPT ![p].todo = @ \ {a}, ![p].lost = @ \cup {a}, ![p].failed = @ + 1]
  /\ UNCHANGED <<build, disk, out, job>>

\* Mutant: warnings are for the terminal and not for the file.
Assemble_Silent(p) ==
  /\ In(p, "assets") /\ scan[p].todo = {}
  /\ Return(p, OutputOf(scan[p]))
  /\ job' = IF scan[p].useCache
            THEN [job EXCEPT ![p] = [Marked(OutputOf(scan[p]), "Stored", None) EXCEPT !.warnings = {}]]
            ELSE job
  /\ UNCHANGED <<build, disk>>

\* The output is returned, and stored, also when it is not complete.
Assemble(p) ==
  /\ In(p, "assets") /\ scan[p].todo = {}
  /\ Return(p, OutputOf(scan[p]))
  /\ job' = IF scan[p].useCache
            THEN [job EXCEPT ![p] = Marked(OutputOf(scan[p]), "Stored", None)] ELSE job
  /\ UNCHANGED <<build, disk>>

-----------------------------------------------------------------------------
(* The process, the disk, the site and time                                *)

\* The deferred write is made, or fails half way: nothing that decodes.
Write(p) ==
  /\ job[p] # None
  /\ job' = [job EXCEPT ![p] = None]
  /\ disk' \in {[output |-> o, age |-> 0] : o \in {job[p], None}}
  /\ UNCHANGED <<build, scan, out>>

\* A process ends, in order or by a signal; writes not made by then are lost.
Exit(p) ==
  /\ scan[p].phase # "idle"
  /\ scan' = [scan EXCEPT ![p] = Idle]
  /\ out' = [out EXCEPT ![p] = None]
  /\ job' = [job EXCEPT ![p] = None]
  /\ UNCHANGED <<build, disk>>

Deploy ==
  /\ build' \in Build
  /\ UNCHANGED <<disk, scan, out, job>>

Tick ==
  /\ disk # None /\ disk.age < StaleLimit
  /\ disk' = [disk EXCEPT !.age = @ + 1]
  /\ UNCHANGED <<build, scan, out, job>>

-----------------------------------------------------------------------------
SiteInit ==
  /\ build \in Build
  /\ disk = None
  /\ scan = [p \in Proc |-> Idle]
  /\ out = [p \in Proc |-> None]
  /\ job = [p \in Proc |-> None]

FetchRoot(p) == Validate(p) \/ Redirected(p) \/ RootFails(p) \/ RootScanned(p)

ReadCache(p) == StatFresh(p) \/ ReadFresh(p) \/ StatStale(p) \/ ReadStale(p)

ScanAssets(p) ==
  StartAssets(p) \/ \E a \in Asset : AssetScanned(p, a) \/ AssetFails(p, a)

\* What scan_site does, once begun.
Step(p) == FetchRoot(p) \/ ReadCache(p) \/ ScanAssets(p) \/ Assemble(p)

SiteNext ==
  \/ \E p \in Proc : Begin(p) \/ Step(p) \/ Write(p) \/ Exit(p)
  \/ Deploy
  \/ Tick

\* The steps of a scan as far as its local variables show them: Assemble is
\* the only step that leaves the assets.
Progress(p) ==
  \/ FetchRoot(p) \/ ReadCache(p) \/ ScanAssets(p)
  \/ In(p, "assets") /\ scan[p].todo = {} /\ Ended(p, "done")

\* Lookups, requests and fetches end, by the site or by the system's timeouts.
SiteFairness == \A p \in Proc : WF_scan(Progress(p))

SiteSpec == SiteInit /\ [][SiteNext]_vars /\ SiteFairness

-----------------------------------------------------------------------------
(* Properties                                                              *)

SiteTypeOK ==
  /\ build \in Build
  /\ disk # None => disk = [output |-> disk.output, age |-> disk.age] /\ disk.age \in 0..StaleLimit
  /\ scan \in [Proc -> Scan] /\ DOMAIN out = Proc /\ DOMAIN job = Proc
  /\ \A o \in {out[p] : p \in Proc} \cup {job[p] : p \in Proc} \cup {Decoded} :
       o # None => IsOutput(o)

\* The asset's content, of whichever build, is part of the output.
IsIn(a, o) == \E k \in Build : BodyOf[k][a] \in o.from

\* Everything that the documents of an output refer to is part of it too, or is
\* lost, or is a library beyond the budget, which others have spent.
AccountsForRefs(o) ==
  /\ \A b \in o.from : \A a \in Refs[b] : IsIn(a, o) \/ a \in o.lost \/ a \in o.skipped
  /\ o.skipped \subseteq LowSignal
  /\ o.skipped # {} =>
       MaxLowSignal <= Cardinality({a \in LowSignal \ o.skipped : IsIn(a, o) \/ a \in o.lost})

\* What is returned from the cache is of the revision whose root document this
\* scan has read, and young enough if it was taken without one. It warns if the
\* scan that made it failed to read an asset or met the cap, and only then, and
\* so does an output that a scan has made itself: without a warning nothing but
\* libraries beyond their budget is missing, of which the code says nothing.
OutputIsHonest ==
  \A p \in Proc : out[p] # None =>
    /\ out[p].cache = "RevisionHit" =>
         RevisionOf[scan[p].page] # None /\ out[p].revision = RevisionOf[scan[p].page]
    /\ out[p].cache = "Fresh" => out[p].age < FreshLimit
    /\ \E b \in PageBody \cap out[p].from : out[p].revision = RevisionOf[b]
    /\ out[p].warnings = {} <=> out[p].lost = {}
    /\ AccountsForRefs(out[p])

\* The evidence in a set of contents.
EvidenceIn(bodies) == UNION {Range(RecordAll(Hits[b])) : b \in bodies}

\* Findings and output depend on the documents that were scanned, and not on
\* the order in which they finished.
SameInAnyOrder ==
  \A p \in Proc :
    /\ In(p, "assets") /\ scan[p].todo = {} =>
         Range(Finish(EvidenceOf(scan[p].found))) = Finished(EvidenceIn(Range(scan[p].found)))
    /\ out[p] # None => out[p].apis = ApisOf(Finished(EvidenceIn(out[p].from)))

\* No request is made before its URL has passed the policy in this very hop,
\* and a chain of redirects makes no more than MaxRedirects of them.
HopsAreValidated ==
  \A p \in Proc : In(p, "answer") =>
    Permitted(p) /\ scan[p].checked /\ scan[p].hops \in 1..MaxRedirects

\* A scan that has begun ends, with an output or an error.
EveryScanEnds ==
  \A p \in Proc : scan[p].phase # "idle" ~> scan[p].phase \in {"done", "failed", "idle"}
=============================================================================
