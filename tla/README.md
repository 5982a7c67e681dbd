# Verification of hifi

`hifi` reads a site's root document, follows its scripts, manifests and
payloads, and prints the internal APIs that the bytes give away. It is one
process with one tokio runtime, its own HTTP client (HTTP/1.1 and HTTP/2), and
a cache directory that several runs share. This directory holds TLA+ models of
the parts of it where order, sharing and failure matter, the TLC runs that
check them, and theorems that TLAPS proves about them.

Run a check with `tlc -config asset_scan.cfg MCAssetScan.tla` and a proof with
`tlapm LoopProofs.tla`. Paths below are relative to the repository's own
root (`src/runtime/...` is the Rust source); in `PROJECT.json` they have the
prefix of the checkout.

## 1. Inventory

| Component (source) | State it keeps | Operations | Hard behaviour | What makes it correct |
|---|---|---|---|---|
| **Asset scan loop** (`runtime/fetch.rs` 60-200, `runtime/concurrent.rs`) | queue, visited set, set of running fetches, low-signal counter, statistics | enqueue a batch, start a fetch, take a finished one, return | fetches finish in any order while new references arrive; one set is dedupe and cap; two budgets met in mid batch | nothing lost without a warning, nothing fetched twice, counts add up, it ends |
| **Asset cache** (`runtime/cache/mod.rs`, `runtime/fetch.rs` 200-547) | asset files per revision, url index and content files of scripts, both also in memory, deferred writes | `resolve_asset`, fetch and 304, `persist_asset`, background revalidation | state read before a request and used after it; several processes on one directory; entries made young again for ever | data, validators and hash of an entry are of one body; what is served is as old as its limit allows |
| **Cache writer** (`runtime/cache_writer.rs`, file writes in `runtime/cache/mod.rs`) | `PENDING`, a bounded channel, one worker, the blocking pool, files | `defer`, the overflow, run a job, `flush` | overtaking through the pool, truncate-then-write, deadline against the last write, end of the process at any step | counter exact, drained means durable, torn files only for a known cause, flush returns |
| **HTTP/2 client** (`runtime/http/client.rs`, `h2/*.rs`) | origin -> session map, table of streams, frame queue, reader and writer task per session | look up or connect, request, write frames, read frames, close all streams, evict | requests, reader and writer of one session interleave at every await; the session map is unlocked over the connect | own response, complete response or error, no request left outside the table, failed session forgotten |
| **HTTP/2 flow control** (`h2/window.rs`, `h2/backpressure.rs`) | credit not given back, load | count bytes, send WINDOW_UPDATE | threshold moves with the load | neither side waits for ever |
| **HPACK** (`http/hpack.rs`) | dynamic table of the decoder | decode a block, evict, resize | two tables that must agree without talking | an index means the same on both sides |
| **HTTP/1.1** (`http/http1.rs`) | pool of idle connections | take, exchange, read a body by its framing, put back | a connection the server has closed; bytes left over | a response is the one to this request; an idle connection is at a response's start |
| **DNS and connect** (`http/origin.rs`) | one address per host for five seconds | resolve, connect, drop on failure | a failure removes an entry another task renewed | a stale address never fails a request |
| **Network policy** (`runtime/net/*.rs`) | none | check a URL, follow redirects, bound the body | each hop checked before it is asked for | no request without a check, chains end |
| **Scan orchestration** (`runtime/processor.rs`, `fetch_root.rs`) | cache of processed output | fresh, revision hit, scan and store | age looked at, then read, while another process writes; incomplete output stored like complete | output of this revision, or one that says why not |
| **Findings and shapes** (`scan/findings.rs`, `scan/shape.rs`, `scan/classify.rs`) | evidence collected | record, merge, canonicalise, demote, compact | evidence comes in the order in which assets finish | the result does not depend on that order |
| **Grep** (`grep.rs`, `bounded_map` of `runtime/concurrent.rs`) | a pool of fetches, results in the order in which they came, hits and counters | fetch and search a file, sort, merge, cut a window | files come in any order and may fail; three caps, borders of files, lines and characters | what is printed does not depend on the order, windows hold their hits, counts agree with hits, the pool is kept full |
| **URLs** (`url.rs`, `util/url_input.rs`) | none | parse, join, normalise, keys of files | text taken apart and put together in several passes | a URL reads back as itself, references resolve to what their parts say |
| **Cache codecs** (`runtime/codec/*.rs`, layouts in `cache/mod.rs`, `processor.rs`) | none | encode, decode | no schema; files cut off or mixed | a file decodes to what was written or to nothing |
| **JSON scanner** (`json.rs`) | flags of a parser, stack of containers | events, walk, keys of an object, strings | documents cut off; halves of characters | keys and strings come once, in order, under their key |
| **Document scanners** (`source.rs`, `scan/*.rs`, `discover/*.rs`, `literal.rs`) | none | find calls, constants and references in bytes | several passes must agree on where a literal ends | a call is read with its own URL, method and options |
| **Framework adapters** (`framework/*`) | none | find the assets of a framework | heuristics | - (their result is an input of the models) |
| **Command line, rendering, support** (`main.rs`, `app/*`, `util/*`, `hash.rs` ...) | none | arguments, layout, hashing | order of scan, output and flush | (the order is in `CacheWriter`) |

How they interact. `app` calls the orchestration, which fetches the root
document through the network policy and the HTTP client, derives the cache key
(the *revision*) from it and, unless the processed output is cached, runs the
asset scan loop. The loop calls `fetch_scan` for each asset, at most
`concurrency` at once; `fetch_scan` asks the asset cache, and for what is
missing or stale the HTTP client. Stale scripts are served at once and
revalidated by spawned tasks, up to 32 of them. Results are handed to the cache
writer, whose thread writes them behind the scan; `app` prints and then calls
`flush`, which waits for the writes up to a deadline. Other processes share only
the cache directory. `PROJECT.json` lists the hazards of all this at the lines
where they bite.

## 2. Modules

### AssetScan, Crawl: the scan loop and its abstraction

`AssetScan` is `scan_assets`: one task, so a step is one iteration of
`enqueue_assets` (`Enqueue`), one fetch started by the filling loop
(`StartFetch`), one finished fetch taken (`FetchOk`, `FetchErr`), or the return.
`queue`, `visited`, `lowSignal`, `inFlight` and the statistics are the
variables of the code; `pending` is the batch that `enqueue_assets` sorts at its
end (kept sorted instead, by a stable insertion; the sort and the append are
part of the batch's last step). `asked` and `scanned` are observers. Which of
the running fetches is ready first is free. What servers answer and what the
cache holds is the constant record `site`; `FetchScan` turns it into the result
of `fetch_scan` with the early returns of `fetch_asset_body` in their order.
URLs are values with the two path properties that `asset_priority` tests.

`Crawl` says what the loop promises to someone who sees only which URLs are
found, waiting and being fetched. `AssetScan` implements it under
`found <- visited`, `todo <- queued URLs`, `busy <- URLs in flight`.

### CacheWriter: deferred writes

`Count` and `Send...` are `defer` of one caller (the counter goes up before the
channel is tried; a full channel hands the job to the blocking pool).
`WorkerTake` and `RunJob` are the worker and the pool's threads; a file is
written in two steps, open-with-truncate and write, either of which may fail
where the instance says so. `FlushStart`, `DeadlinePasses`, `FlushReturn` are
`flush`. The channel's `Disconnected` answer does not occur: the worker keeps
the receiver until the process ends. A process may end at any step, so what the
safety properties say of the disk holds for what the next process finds.

### H2Client: sessions and streams

Each `Task` is one caller of `h2_session` for one origin: a request, or a
prewarm that stops when it has the session. Actions follow the awaits and lock
regions: `Lookup` (under the map's lock), `Connect` (outside it), `Publish`
(`entry().or_insert`), `Allocate` (the atomic `fetch_add` of the stream id),
`Insert` (table lock), `Send`/`SendFails` (frame queue), `Receive` (one message
of the stream's channel and what the loop does with it), `Finish`, `Evict`.
`Write`/`WriteFails` are the writer task and `Read...`, `ReadStops`,
`CloseStreams` the reader task, whose two last steps are apart because requests
run between the loop's end and the lock of the table. A session has the name of
the task that connected it. The server is external: it answers requests it has
received with well-formed frames in any interleaving or the connection ends, of
itself or by a frame that makes the reader leave its loop. One malformed frame is
excluded: a RST_STREAM of less than four bytes, whose payload the reader indexes
without a look at its length (`h2/read.rs` 122-129), so that it would panic, which
in the release profile (`panic = "abort"`) ends the process. Sending and reading a
frame are one step, since nothing observes a frame before it is read. Trailers
travel like a last DATA frame and have no action. SETTINGS and PING have no effect
here; windows and header tables are `H2Flow`'s and `Hpack`'s.

### H2Flow and Hpack: what the two ends of a session keep in step

`H2Flow` has the windows of one session. `Connect` gives them, sized by the load
of the moment (`Generous` is `generosity()` times a size, with rationals for
f32), `ReadData` takes a DATA frame off them and does what `release_window`
does: credit for the stream at once, for the connection when `Threshold`, sized
by the load of *that* moment, is reached. `SetCapacity`, `Enter` and `Leave`
move the load at any time. A frame counts when it is read, so sending and
reading are one step; credit on its way to the server is a number and may
arrive in any portions. Padding is counted by the windows and not given back.

`Hpack` has the decoder's dynamic table (`decoder`, with its incrementally kept
size and both limits) and, as the definition to compare it with, the table that
RFC 7541 gives the server's encoder (`Fitting`: as many of the newest entries as
fit). `ReadBlock` encodes and decodes a block in one step, `Decode` being the
loop with all its refusals; `ApplySettings` is the server's SETTINGS.

The two share no state with each other; `MCParts` checks them side by side, each
behaviour being of one of them.

### Http1: pooled connections, framing, connecting

A response is a sequence of tokens: head, pieces of the body, last chunk.
`Read` takes any nonempty part of what is on the wire, so a read may end
anywhere and may take what belongs to the next response. `Framed` is the end of
a body under the four shapes of `parse_head`, `Keep` whether the connection is
given back, `Checkout`, `CheckoutNone` and `ReturnIdle` are the pool's lock
regions (entries are pushed in the order of their time, so when the last has
expired all have). `CachedAddr`, `LookupHost`, `Dial`, `DialFails`, `Forget` and
`Note` are `connect_tcp`, each await a step of its own. A connection has the name
of the task that opened it; `Old` are connections in the pool from earlier
requests. The server answers in order, may send an interim response first, and
`Cut` ends a connection anywhere, orderly or not.

### AssetCache: what is served, and what is written back

One action per step of `resolve_asset` (`HitChunk`, `HitStaleChunk`,
`HitAsset`, `Fetch`), of `fetch_asset_body` (`Answer304`, `Answer200`,
`FetchFails`) and of `persist_asset` and the revalidation (`ScanBody`,
`KeepAsset`, `KeepChunk`). `disk` has the three kinds of file under their keys:
asset files by URL and revision, index files by URL, content files by hash.
`memory` and `findings` are the maps `url_index_memory` and `content_memory` of
each process, `jobs` its deferred writes in order (`Write` makes one, or fails
and leaves a file that decodes as nothing). A body is a value and its hash has
its name; validators are named by the body they are of. The data of an entry is
the body it was scanned from and the set of revisions in whose context that was
done. `Deploy` changes build and bodies at will, also back. `age` is the time
since a file was written, `since` the observer that says when the server last
had a body.

Simplifications, each on the safe side or named: entries age only while no
process runs (a scan takes seconds, limits are minutes to days); writes are
atomic and ordered here (tearing and overtaking are `CacheWriter`'s); content
memory is never evicted (a miss there falls back to the disk, or to nothing,
which is the first scan's case); url memory is evicted only under `SpecCrowded`;
scans with `--no-cache` do not read or write and are left out; which
revalidations are dropped for want of a permit is free.

`MCOneAsset` checks one asset per behaviour: assets share no file and no request,
so a script is run in one revision (its files do not depend on it) and another
asset in all of them.

### ScanSite, Findings: a scan from the URL to the output

`ScanSite` is `scan_site` of several processes that share the file of processed
output. `Begin` takes the mode (`--no-cache`, private hosts allowed);
`StatFresh`/`ReadFresh` and `StatStale`/`ReadStale` are the two looks at that
file, each with the age first and the bytes a step later, so another process may
write between them; `Validate`, `Redirected`, `RootFails` and `RootScanned` are
the loop of `net::fetch` over the hops of the root document and what becomes of
it; `StartAssets`, `AssetScanned` and `AssetFails` are the assets in any order.
`Enqueue` and `Enqueued` are `enqueue_assets` with both its limits: what is beyond
the cap is lost and the scan says `capped`; a library (`LowSignal`) beyond its own
budget is visited and not queued, and the code warns of nothing (`fetch.rs`
148-149). The observers `lost` and `skipped` keep the two apart. An asset that
fails is `failed` and never `unauthorized`, since `net::fetch` makes an error of
every status but 2xx and 304 (finding A). `Assemble` makes the output with its
warnings and hands it to the writer; `Write` makes or loses it; `Exit` returns.
The site is external: `Deploy` changes the build at any time, `Tick` ages the
file. The crawl of assets is `AssetScan`'s and what the asset cache may answer
is `AssetCache`'s; here an asset is that of this or of another build.

`Findings` is what `Assemble` computes: evidence is recorded as it comes
(`try_record_*`), candidates that are known as APIs or routes are demoted,
URLs brought to their canonical form, compacted, and shapes merged by path.

`OutputIsHonest` says what an output is worth, also one from the file: it warns if
and only if something was lost, and everything its documents refer to is part of
it, lost, or a library beyond a budget that others have spent (`AccountsForRefs`).
So an output without a warning may be incomplete, but only by such libraries.

### Search, Grep: a text search

`MCSearch` gives `Search` its pages, and `MCParts` checks it beside the other parts.

`Search` is `run` of `grep.rs` from the root document on. `SearchInit` fills the
pool of `bounded_map`, `Searched` is the end of `grep_one` for any asset that
is running, read or not, with the push of its result to `out` and the next item
put into the pool, `Report` is what `grep_assets` and `run` do after that in one go.
The task is one, so nothing interleaves but the fetches. Page, assets, pattern and
options are the variable `search`, which no step changes.

`Grep` is what `Report` computes: `FindIter` and `LineStarts` over the bytes of a
file, `SnippetWindow` with `SnapDown` and `SnapUp`, `GrepBytes`, the stable sort by
index, `MergeChunk`. Bytes are abstract except for line ends and those that continue
a character (`Continuation`, of which a character has at most `Trail`, three in
UTF-8); files may be any bytes, patterns are texts. The reference does not
use the code's offsets: lines are counted by line ends (`PlaceIsRight`), a window
holds its match, or the beginning of one as long as the budget, uses the budget, and
in a text is longer only by what makes its ends whole characters (`WindowIsRight`).
That is what the code does and not what its comment says, which is `SnippetsFit`
and finding E. A result is the beginning of all hits in the order of the page
with the number of the rest (`Prints`). `PoolIsFull`, that as many fetches run as
may, is proved and listed by no run.

### The functions over texts

`Url`, `Codec`, `JsonWalk` and `Source` have no variables. Each is the
code's functions over sequences of tokens (a token is a delimiter or a word that
holds none), followed by a reference definition, and a predicate that compares
the two for one input. `MCParts` makes the inputs, one token per step, so that
every beginning of an input is an input as well: what is cut off is covered.

- `Url`: `Parse`, `Join`, `Rebuild`, the keys of cache files, and the input
  of the command line; the reference is `Resolved` (the parts of RFC 3986 put
  together by their meaning) and that a URL written and parsed again is the same.
- `Codec`: a layout is the list of what is put, beside the list of what is read,
  as the code has no schema; `ReadFile` is the decoder with frames and lengths.
- `JsonWalk`: `Parser::next`, `walk`, `object_keys` and strings with their
  escapes; the reference is the document as a value.
- `Source`: where literals, expressions in templates and brackets end, `scan_call`
  with its options, and the constants that URLs are put together from; the
  reference is the call or declaration that was written. A call is read with its
  own URL as soon as that is there and with its own method and hints as soon as its
  options are. From one that is cut off before comes what is true of its beginning:
  a beginning of the URL, some of the hints, and GET for a method that was not
  reached (`scan/mod.rs` 47). `IsReadable` and `TermIsRead` name the spellings of
  which this is not asked.

## 3. Runs

| Run | What it checks | Bounds |
|---|---|---|
| `asset_scan` | `NothingForgotten`, `CapIsHonest`, `Accounting`, `QuietScanIsComplete`, refinement of `Crawl` with its fairness, `Terminates` | 192 sites over six URLs: cyclic, repeated and self references, one URL under two kinds, cached, missing, refused and unreadable assets; cap 5 of 6 URLs so that it bites, low-signal budget 2 of 3, two fetches at once so that they overtake |
| `asset_scan_manifest` | finding A | the same |
| `cache_writer` | `PendingExact`, `DrainedIsDurable`, `TornHasCause`, `NewerStays`, `FlushReturns`, `EveryWriteEnds` | two callers with two jobs each, of which two pairs share a file; a channel of two, so the pool is used; one job whose file operations may fail |
| `h2_client` | `OwnResponse`, `CompleteOrError`, `Reachable`, `FailedIsForgotten`, `EveryRequestEnds` | two tasks, responses of up to HEADERS, CONTINUATION and one DATA frame; two tasks suffice for two streams on a session, for two sessions, and for a failure that meets another's session |
| `h2_one_connection` | finding C | the same |
| `http1` | `OwnResponse`, `CompleteOrError`, `IdleIsReusable`, `OnlyFreshFails`, `EveryRequestEnds` | two requests, one pooled connection, room for one: enough for a full bucket, for two dead connections in a row and for one connection used by both; every shape of a body with one piece, an announced close, an interim response, a bad head; two addresses |
| `asset_cache` | `AssetsAreScoped`, `EntriesMatch`, `ServedWasCurrent`, `RefreshIsEarned` | one asset per behaviour, a script or not, two bodies, two revisions, two processes at once and any number in sequence, limits of 1, 2 and 3 ticks |
| `asset_cache_scope` | finding B | one script, two revisions |
| `asset_cache_confirm` | finding D | one script, two bodies, under `SpecCrowded` |
| `site` | `OutputIsHonest`, `SameInAnyOrder`, `HopsAreValidated`, `EveryScanEnds` | two processes, one of which may go without cache; two builds, whose pages and one library differ; a page with a script and a library, which meets the cap of 2 with what is behind the script, and one with a library behind which another is beyond the budget of 1, unless the asset cache has the first as it was; two redirects allowed and three locations, so chains are cut and cycles exist; limits of 1 and 2 ticks |
| `parts` | `Conserved`, `NeverStalls`; `DecodesAsSent`; `RefsResolve`, `UrlsReadBack`; `SnippetsHoldHits`, `HitsAreCounted`; `FilesReadBack`; `JsonReadsBack`; `CallsAreRead` | see below |
| `snippet_window` | finding E | the searches of `parts` |

Bounds of `parts`, part by part. Windows are in units of 2 MiB (8 for the whole
of SCANNER_INITIAL_WINDOW), where smallest window and largest threshold are equal
as in the code; two streams, loads of 0 to 3 over capacities 1 and 2. Tables hold
up to 6 units with entries of 1, 2 and 4, with four sizes in SETTINGS and updates.
References are three tokens after one of four beginnings, joined to two bases;
queries have five tokens, which is two pairs and a delimiter. Searches: every page
of up to five tokens (a letter, a character of three bytes, a byte that is no text, a
line end) with five patterns, two of which go over a line end, context 0 and 1,
budgets of 0 to 6 bytes, so that a window is cut at either end and at both; and every
page of letters and line ends with up to four assets, five tokens in all, three of
which are searched, two at once, with limits of 0, 1 and 2 hits and none.
Files of the cache: every layout, with values that differ from the plainest in
one field; each is cut at every byte, and the end of a longer file of the same kind,
of any of these values or by one byte, follows. What is of two files before the end
of the shorter is not among them: there is no checksum, and nothing is claimed. JSON
documents have two levels of two entries, and a third level in one place; each
is cut at every token; strings have four tokens out of every kind of escape.
Calls have literals of up to two pieces out of nine (escapes, other quotes,
braces, expressions with calls, quotes and braces in them) with four kinds of
options and another call's options behind, each cut at every token; declarations
are two constants of up to two terms, in which the second may name the first.
Options with a name in quotes or in a string, or with a template within a template,
follow literals of one piece; expressions with a brace in a string are among the
pieces.
Defects of such functions show on an input with one unusual thing or two beside
each other, and all of these are among the inputs.

Where the code does not do what the reference says and no line of the repository
promises it, the property excepts the input by name. `KeyNamesQuery`: queries with
encoded delimiters (`?a=1%26b=2` and `?a=1&b=2` have one cache key; the property is
about order, repetition and loss of pairs, not about this collision). `IsReadable`
and `TermIsRead`: names of options in quotes (`"method":` is not read), expressions
that are not closed or hold a backquote within options or a constant
(`quoted_end` and `balanced_end` do not look for expressions), and braces in strings
within an expression (`skip_template_expr` counts them). Each exception was seen to be
needed. Left out of the inputs is only the rest of a URL argument behind the literal
it begins with.

URLs do not interact in `AssetCache` except through a content hash they share,
and an entry depends on one URL, one body and one earlier entry: one URL, two
bodies and two processes give every pair of them. In `AssetScan` the sites are
built so that every branch of `enqueue_assets` and of `fetch_asset_body` is
taken; the bounds are proved immaterial for safety (section 5). Processes,
model values and bodies are symmetric in `AssetCache`; no liveness is checked
there. Deadlock checking is off in every run because each system may stop: a
scan returns, jobs run out, requests end, and no process need run.

Fairness:

- `AssetScan`: the loop runs when it can, and every request in flight is
  answered. The second is an assumption on servers: the client has no timeout.
- `CacheWriter`: for `FlushReturns` only that time passes and that main runs;
  nothing is assumed of the disk or of other threads. `EveryWriteEnds` assumes
  in its own formula that tasks and threads run and file operations return.
- `H2Client`: spawned tasks run (tokio schedules a woken task), the server goes
  on answering what it has received or ends the connection, and a connection on
  which a write failed ends for the reader too. The reader's `ReadStops` is not
  fair otherwise: nothing makes a healthy connection end.
- `Http1`: tasks run, and the server answers what it has been asked (one that
  ends a body with the connection also ends the connection). Chunked bodies are
  well-formed: with a size that cannot be parsed (`http1.rs` 383-397) and a
  connection that stays open a request would wait without end, which no property
  covers. `Cut` is not fair.
- `ScanSite`: a process that scans goes on (requests are answered, see
  `AssetScan`; file operations return). Deployments, time and writes are not fair.
- `MCParts`, with `Search`: safety only. `NeverStalls` is the safety form of "both wait".

`EveryRequestEnds` excepts `Stranded` by name: a request that was put on a
session after its reader emptied the table, while the writer still takes
frames. Nothing in the code ends it. This is reported under "hazards" and not
as a finding because no line of the repository promises otherwise.

## 4. Findings

- **A** (`asset_scan_manifest`): the branch that turns a missing optional
  manifest into an empty document is not reached, since the fetch accepts only
  2xx and 304; a missing manifest counts as failed, and 401/403 never as
  unauthorized.
- **B** (`asset_cache_scope`): scripts are cached without the revision for 24
  hours, although the module's comment calls asset caching revision-aware.
- **C** (`h2_one_connection`): tasks that miss the map together open a
  connection each and all stay open, against "one TLS connection per origin".
- **D** (`asset_cache_confirm`): after a 304 the index is read again; with the
  script evicted from memory and another process writing, the entry made fresh
  is not the one the server confirmed.
- **E** (`snippet_window`): a snippet may be longer than its limit, by what makes its
  first and last characters whole, and that of a match as long as the limit may go on
  behind its lines, against "fits within `max` bytes" and "inside [lo, hi]".

`PROJECT.json` quotes the lines. Of two more disagreements there is no run, since no
line says otherwise, or only the words of a message do: a scan that skips libraries
beyond their budget does not say that it is incomplete (see `OutputIsHonest`); and
`run` of `grep.rs` merges the hits of all assets into those of the document as if
they were one file (line 105), so "hits not printed in {} files" (line 119) may name
fewer files than there are. `HitsAreCounted` asks of that number only that it is
zero when nothing is left out.

## 5. Proofs

`LoopProofs` proves of the scan, for every set of references and sites, every
concurrency, cap and budget: `ScanTypeOK`, `ScanForgetsNothing`,
`ScanCapIsHonest`, `ScanAccounting`, `ScanQuietIsComplete`, `ScanFetchesOnce`
and `ScanImplementsCrawl` (the safety part of the refinement). Assumptions:
those of the module on its constants. The inductive invariant `IInv` adds to the
checked invariants that all sets are finite (`Finite`; cap and counts are
cardinalities), that a URL waits in one place only (`WaitingOnce`) and is not
waiting once asked for (`AskedOnce`), that the batch's budget and counters agree
(`Batch`), and that nothing is left when the loop has returned (`Stopped`). The
heart is `EnqueueIInv`: visited gains the reference before it is queued, so
dedupe, cap and accounting move together. `InsertLemma`, `TailLemma` and
`ConcatLemma` say what the sequence operations do to sets of references.

`LoopProofs` also proves of the search, for any bytes, pages, assets, patterns that
are texts, options, pools and caps: `SearchHitsAreCounted`, `SearchSnippetsHoldHits`,
`SearchPoolIsFull` and `SearchTypes`. Assumptions: those of `Grep` and `Search` on
their constants. The inductive invariant (`SearchIInv`) adds that each asset is
running or has ended, once, and that these are the first ones of the page
(`EachOnce`); hence what has ended when the pool is empty is every asset. The rest is
one step, `Report`, and its folds, each of which has its values after each element
(`StartsTraced`, `FoundTraced`, `SortTraced`, `MergedTraced`, `AllTraced`,
`FilesTraced`). The starts of lines are the places behind a line end, in order
(`LineStartsAre`), so the line that `partition_point` finds has as many line ends
before it as its number (`LineIs`). `UnsnappedIs` is the arithmetic of a window
before its ends are snapped, with the budget used up exactly; `SnapDownIs` and
`SnapUpIs` move an end by at most a character's length in a text (`TextRuns`), and
`SnippetWindowIs` puts them together under every case of the code. The theorem is
about what the code does; that a window may pass its limit, and `hi` with a match that
goes on behind the lines of its hit (`snap_up` leaves such an end where it is, grep.rs
300, 330), is finding E. `MergeChunkIs` says that merging prints of two lists of hits what a limit
leaves of both together (`RoomIs`).
`SortedIs`: sorting gives the files in the order of the page, so the asset that comes
next is behind all hits of those before it (`CutOn`), and `GrepAssetsIs` follows along
that order.

`CacheWriterProofs` proves, for every set of jobs, callers, files and every
queue bound: `WriterTypeOK`, `WriterPendingExact`, `WriterDrainedIsDurable` and
`WriterTornHasCause`. The inductive invariant says where a job is (`Places`: in
the channel once, one job with the worker, the pool's jobs are overflowed,
files in order), that `PENDING` counts the unfinished ones, and what running
jobs leave on disk (`OnDisk`): a file that nobody failed on and no two threads
share (`Clean`) is either whole or being written by exactly one job. That one
job is why the channel's order gives durability, and why overflow is the only
exception.

`AssetCacheProofs` proves, for every set of assets, bodies, revisions and
processes and every choice of the four time limits: `CacheTypeOK`,
`CacheEntriesMatch`, `CacheServedWasCurrent`, `CacheAssetsAreScoped` and
`CacheRefreshIsEarned`. The inductive invariant has a part for each process and
asset (`Slot`), one for each file (`Stored`) and one for each deferred write
(`Deferred`). The checked invariants alone are not inductive: a 304 is only
known to confirm the right data if the request's validators match its data
(`AskSound`), a hit only known to be current if entries are never younger than
their data (`Sound`), and what the revalidation finds when it reads the index a
second time is only known to be what was confirmed because that script cannot
leave the memory meanwhile (`Revalidates`). That last part is what `SpecCrowded`
takes away, and why finding D needs it.

`SessionProofs` is about what an HTTP/2 session keeps from frame to frame. It
proves, for any streams, window sizes, capacities and courses of
the load: `FlowConserved`, `FlowNeverStalls` and `FlowTypes`, assuming only that
the least threshold is at most the least window (4096 and 262140 in the code).
The inductive invariant adds to `Conserved` that pending credit is below `Most`,
the largest threshold any load can ask for, and that a window is at least
`Most`; both come from `GenerousBounds`: the load leaves between a quarter of a
size and all of it. The margin is exact. A generosity that could fall below a
quarter, or a threshold above a quarter of the scanner's window, would break it.

`Http1Proofs` proves, for any tasks, addresses, answers and size of the pool:
`Http1OwnResponse`, `Http1CompleteOrError`, `Http1IdleIsReusable`,
`Http1OnlyFreshFails` and `Http1TypeOK`. That an idle connection has nothing on it
is no inductive invariant: what makes it so is what was read from it before. The
inductive invariant says that a connection in use belongs to one task and is not
in the pool (`Owned`), and for a connection that no interim response has put out
of step that its wire is exactly the rest of the one answer its user waits for, of
which the user's buffer is the beginning (`InStep`, by the numbered tokens of an
answer, `TokenAt`). Reads of any size then stop at the end of that answer, since
nothing follows it: the next request is only written by whoever takes the
connection from the pool. `Dialled` says where the addresses of a dial come from.

`H2ClientProofs` proves, for any tasks and lengths of responses: `H2OwnResponse`,
`H2CompleteOrError`, `H2Reachable`, `H2FailedIsForgotten` and `H2TypeOK`. The
inductive invariant says that a task without a session has not put its own into
the map and nobody uses it (`Sessions`; hence a session that was removed never
comes back), that stream ids are below the session's next one and each of one task
(`Allocated`), that whatever names an id - table, frame queue, server - leads to
the task it was given to (`Tables`), and that what a task has taken and what waits
in its channel are together what the server sent it, a close being the last
(`Boxes`).

`ScanSiteProofs` proves, for any site, builds, processes, redirects, policy and
limits: `SiteHopsAreValidated`, `SiteOutputIsHonest`, `SiteSameInAnyOrder` and
`SiteTypes`. What a scan returns may come from the file that processes share, so
honesty must hold of every output wherever it is: returned, waiting to be written,
stored (`Outs`, `Jobs`, `Disk`). For those it makes itself, the phases of a scan say
that the page is among what was scanned and that the counts warnings are made of
are zero exactly when nothing was lost (`Scans`). While assets are scanned, what the
documents refer to is seen or lost, and what is seen waits, was scanned, lost or
skipped (`Accounts`); the libraries seen and not skipped are as many as
are counted, and as many as may be once one is skipped (`Budget`, by the sum of
cardinalities in `BudgetSpent`). When nothing waits, that is the property.

`SiteSameInAnyOrder` is about what is computed in one step, by six folds over
evidence. Each is shown to depend on the set of what it is given, and the last
lemma of each part is what the next one starts from: inserting keys one by one
gives the sorted sequence of their union (`PushIs`, `AddKeysIs`), and a sorted
sequence is determined by its elements (`SameElements`), so merging shapes is a
union (`MergeIs`, `UnionIs`); `compact` keeps one piece of evidence for each URL,
kind and origin, with the union of the shapes of those it stands for (`Compacted`,
`CompactedMore`, `CompactedIs`); canonicalising and demoting go element by element
(`CanonicalizeRoutesIs`, `DropDemotedIs`), which gives `FinishIs`; `collect_apis` has
the union of shapes at each path (`Collected`, `CollectedMore`, `ApisAre`); and the
evidence of contents in their order is, as a set, that of the set of contents
(`EvidenceOfIs`). An output from the file was honest when it was stored.

`Induction` has what these proofs share. Statements about all lengths are proved
by the least counterexample (`Least`, `UpTo`, from the well-foundedness of finite
sets), since the induction theorems of the library take an operator; and a fold of
the community modules, which is a function of sets of indices chosen to fit, has
its values after each element (`FoldTrace`). What appending, inserting and cutting
do to a sequence is there as well (`Appended`, `InsertAtIs`, `FirstAre`).

`SessionProofs` also proves `HpackDecodesAsSent`, for any names and values, sizes of
entries, blocks of any length and any sequence of settings and updates. The
inductive invariant (`HpackInv`) is close to the property; the work is in one step
of it, a block: `BlockDecodes` follows the encoder and the decoder through it side
by side, each field leaving the decoder's table a prefix of the encoder's
(`OneField`). Eviction is why: what fits of a prefix into less room is a prefix of
what fits of the whole (`PrefixFits`), and dropping entries from the end until the
counted size is within the limit is the same as keeping what fits (`EvictIs`). A
fold over a table or a block has its values after each element
(`TotalSizeValues`, `DecodeValues`, `EncodeValues`).

`CacheWriterProofs` also has `WriterNewerStays`. Its invariant (`Ordered`) adds that
the order of `try_send` is the order in the channel and of the endings, for jobs
that met no full channel: when the later of two writers opens a file, the earlier
one is done with it.

The type invariants of these modules, where they are proved and listed by no run,
say more for every value of the constants. The inductive invariants were checked
with TLC on the instances of section 3 before they were proved.

Model-checked only:

- all liveness (`Terminates`, `FlushReturns`, `EveryWriteEnds`,
  `EveryRequestEnds`, `EveryScanEnds`, the fairness part of `CrawlSpec`), which is
  outside the prover's reach;
- the functions over texts of `Url`, `Codec`, `JsonWalk` and `Source` (`RefsResolve`,
  `UrlsReadBack`, `FilesReadBack`, `JsonReadsBack`, `CallsAreRead`): parsers that
  call each other are RECURSIVE operators, of which the prover knows nothing, and
  their correctness is an induction over documents;
- the findings, which are counterexamples.

## 6. Not modelled

Framework adapters, and of the document scanners the search for anchors,
classification of texts as URLs, clients given by an object, and the discovery of
assets: heuristics by design, for which there is no other definition of what is
right than the code, and which the repository's tests cover by examples; their
output is what `site.links`, `Refs` and `Hits` range over. Command line and
layout. Hashing, byte buffers and generated tables, which have no behaviour of
their own. Of HPACK the integers, strings and Huffman code (data), of HTTP/2
trailers, priorities and GOAWAY's last stream id (not read by the code).

## 7. Plan

Every safety property of a system with state is proved for every value of its
constants. What would add most from here: the layouts of `Codec` and the tokens of
`Url` as folds instead of RECURSIVE operators, so that reading back what was written
can be proved field by field, as `LoopProofs` does for the search.
