----------------------------- MODULE AssetCache -----------------------------
(***************************************************************************)
(* The cache of scanned assets in src/src/runtime/cache/mod.rs and its use *)
(* by src/src/runtime/fetch.rs: what an asset is answered with, what is    *)
(* written back, and the background revalidation of stale scripts. Several *)
(* processes of hifi share the cache directory and may run at once; each   *)
(* has its own url index and content findings in memory. The server is     *)
(* external: it deploys builds and rolls them back while scans run, and    *)
(* its validators tell bodies apart.                                       *)
(*                                                                         *)
(* Deferred writes of a process reach the disk in order, one file at a     *)
(* time, or are lost when it ends; overtaking and torn writes are the      *)
(* business of CacheWriter. A scan is short against every time limit:      *)
(* entries age only while no process runs. Under Spec a scan has no more   *)
(* scripts than the memories hold; under SpecCrowded it may have.          *)
(***************************************************************************)
EXTENDS Integers, Sequences, FiniteSets

CONSTANTS
  Url,          \* assets that a scan asks for
  Script,       \* those of them that are scripts
  Body,         \* contents of an asset; its content hash has its name
  Key,          \* cache keys: revisions of the root document
  Proc,         \* slots for processes; a slot is used again
  None,
  AssetFresh,   \* CACHE_FRESH_SECS, scaled
  AssetStale,   \* CACHE_STALE_SECS
  ChunkFresh,   \* CHUNK_URL_FRESH_SECS
  ChunkStale    \* CHUNK_URL_STALE_SECS

ASSUME CacheAssumption ==
  /\ Script \subseteq Url
  /\ None \notin Url \cup Body \cup Key \cup Proc
  /\ AssetFresh \in Nat /\ AssetStale \in Nat /\ ChunkFresh \in Nat
  /\ ChunkStale \in Nat \ {0}
  /\ AssetFresh <= AssetStale /\ AssetStale <= ChunkStale /\ ChunkFresh <= ChunkStale

\* What a scan found in a body, and the revisions in whose context it looked.
Data == [body : Body, builds : SUBSET Key]

\* A cached scan: its data, the body its validators are of, the body its
\* content hash is of, and the time since it was written.
Entry == [data : Data, tag : Body \cup {None}, hash : Body \cup {None},
          age : 0..ChunkStale]

\* Mutant: the cache key is left out of the path.
AssetFile_Unscoped(u, k) == <<"asset", u>>

AssetFile(u, k) == <<"asset", u, k>>

IndexFile(u) == <<"index", u>>

ContentFile(b) == <<"content", b>>

File == {AssetFile(u, k) : u \in Url, k \in Key}
          \cup {IndexFile(u) : u \in Script} \cup {ContentFile(b) : b \in Body}

VARIABLES
  build,     \* the revision the server's root document has
  body,      \* Url -> the body the server has now
  since,     \* Url -> Body -> time since the server last had that body
  disk,      \* File -> its entry or None
  key,       \* Proc -> the cache key of its scan; None when it does not run
  todo,      \* Proc -> assets not asked for yet
  ask,       \* Proc -> Url -> the request in flight or None
  served,    \* Proc -> Url -> what fetch_scan returned, and how, or None
  memory,    \* Proc -> Url -> url_index_memory
  findings,  \* Proc -> Body -> content_memory
  jobs       \* Proc -> deferred writes: records [file, entry]

server == <<build, body, since>>
local == <<key, todo, ask, served, memory, findings, jobs>>
vars == <<server, disk, local>>

Young(e, limit) == e # None /\ e.age < limit

\* ChunkCache::read_url: memory, then disk.
ReadUrl(p, u, limit) ==
  IF Young(memory[p][u], limit) THEN memory[p][u]
  ELSE IF Young(disk[IndexFile(u)], limit) THEN disk[IndexFile(u)]
  ELSE None

Cached(p, u) == disk[AssetFile(u, key[p])]

\* What ChunkCache::read_url answers for a script, None for other assets.
Chunk(p, u, limit) == IF u \in Script THEN ReadUrl(p, u, limit) ELSE None

-----------------------------------------------------------------------------
(* Processes                                                               *)

\* The root document has been read; its revision is the cache key.
Start(p) ==
  /\ key[p] = None
  /\ key' = [key EXCEPT ![p] = build]
  /\ todo' = [todo EXCEPT ![p] = Url]
  /\ UNCHANGED <<server, disk, ask, served, memory, findings, jobs>>

\* A process ends in order, by the deadline of flush or by a signal.
Exit(p) ==
  /\ key[p] # None
  /\ key' = [key EXCEPT ![p] = None]
  /\ todo' = [todo EXCEPT ![p] = {}]
  /\ ask' = [ask EXCEPT ![p] = [u \in Url |-> None]]
  /\ served' = [served EXCEPT ![p] = [u \in Url |-> None]]
  /\ memory' = [memory EXCEPT ![p] = [u \in Url |-> None]]
  /\ findings' = [findings EXCEPT ![p] = [b \in Body |-> None]]
  /\ jobs' = [jobs EXCEPT ![p] = <<>>]
  /\ UNCHANGED <<server, disk>>

-----------------------------------------------------------------------------
(* resolve_asset, and what fetch_scan does with its answer                 *)

Asking(p, u) == u \in todo[p] /\ todo' = [todo EXCEPT ![p] = @ \ {u}]

Serve(p, u, data, how) ==
  served' = [served EXCEPT ![p][u] = [data |-> data, how |-> how]]

Request(p, u, cached) ==
  ask' = [ask EXCEPT ![p][u] = [cached |-> cached, status |-> "sent",
                                body |-> None, builds |-> {}]]

\* Mutant: whatever is in the url index is a hit.
HitChunk_AnyAge(p, u) ==
  /\ Asking(p, u)
  /\ Chunk(p, u, ChunkStale) # None
  /\ memory' = [memory EXCEPT ![p][u] = Chunk(p, u, ChunkStale)]
  /\ Serve(p, u, Chunk(p, u, ChunkStale).data, "chunk")
  /\ UNCHANGED <<server, disk, key, ask, findings, jobs>>

HitChunk(p, u) ==
  /\ Asking(p, u)
  /\ Chunk(p, u, ChunkFresh) # None
  /\ memory' = [memory EXCEPT ![p][u] = Chunk(p, u, ChunkFresh)]
  /\ Serve(p, u, Chunk(p, u, ChunkFresh).data, "chunk")
  /\ UNCHANGED <<server, disk, key, ask, findings, jobs>>

\* A stale script is served and revalidated in the background, unless the
\* permits for revalidations are in use: then it is only served.
HitStaleChunk(p, u) ==
  /\ Asking(p, u)
  /\ Chunk(p, u, ChunkFresh) = None
  /\ Chunk(p, u, ChunkStale) # None
  /\ memory' = [memory EXCEPT ![p][u] = Chunk(p, u, ChunkStale)]
  /\ Serve(p, u, Chunk(p, u, ChunkStale).data, "stale")
  /\ Request(p, u, Chunk(p, u, ChunkStale)) \/ UNCHANGED ask
  /\ UNCHANGED <<server, disk, key, findings, jobs>>

HitAsset(p, u) ==
  /\ Asking(p, u)
  /\ Chunk(p, u, ChunkStale) = None
  /\ Young(Cached(p, u), AssetFresh)
  /\ Serve(p, u, Cached(p, u).data, "asset")
  /\ UNCHANGED <<server, disk, key, ask, memory, findings, jobs>>

\* Revalidate with what the asset file has, or Miss.
Fetch(p, u) ==
  /\ Asking(p, u)
  /\ Chunk(p, u, ChunkStale) = None
  /\ ~Young(Cached(p, u), AssetFresh)
  /\ Request(p, u, IF Young(Cached(p, u), AssetStale) THEN Cached(p, u) ELSE None)
  /\ UNCHANGED <<server, disk, key, served, memory, findings, jobs>>

-----------------------------------------------------------------------------
(* fetch_asset_body                                                        *)

Sent(p, u) == ask[p][u] # None /\ ask[p][u].status = "sent"

\* Mutant: a 304 that nobody asked for counts.
Answer304_AnyTag(p, u) ==
  /\ Sent(p, u)
  /\ ask[p][u].cached # None
  /\ ask' = [ask EXCEPT ![p][u].status = "304"]
  /\ UNCHANGED <<server, disk, key, todo, served, memory, findings, jobs>>

\* The request carried validators, and they are of the body the server has.
Answer304(p, u) ==
  /\ Sent(p, u)
  /\ ask[p][u].cached # None
  /\ ask[p][u].cached.tag = body[u]
  /\ ask' = [ask EXCEPT ![p][u].status = "304"]
  /\ UNCHANGED <<server, disk, key, todo, served, memory, findings, jobs>>

\* ChunkCache::read_content_findings: memory, then disk.
Known(p, b) ==
  IF findings[p][b] # None THEN findings[p][b]
  ELSE IF disk[ContentFile(b)] # None THEN disk[ContentFile(b)].data
  ELSE None

\* The body has been read. A script whose content is known starts from the
\* findings cached for it.
Answer200(p, u) ==
  /\ Sent(p, u)
  /\ LET known == IF u \in Script THEN Known(p, body[u]) ELSE None
         builds == IF known = None THEN {} ELSE known.builds
     IN  /\ ask' = [ask EXCEPT ![p][u] =
                      [cached |-> @.cached, status |-> "200", body |-> body[u],
                       builds |-> builds]]
         /\ findings' = IF known = None THEN findings
                        ELSE [findings EXCEPT ![p][body[u]] = known]
  /\ UNCHANGED <<server, disk, key, todo, served, memory, jobs>>

\* No answer, or a status that is neither 2xx nor 304.
FetchFails(p, u) ==
  /\ Sent(p, u)
  /\ ask' = [ask EXCEPT ![p][u] = None]
  /\ UNCHANGED <<server, disk, key, todo, served, memory, findings, jobs>>

-----------------------------------------------------------------------------
(* persist_asset and ChunkCache::write_deferred                            *)

Job(file, data, tag, hash) ==
  [file |-> file, entry |-> [data |-> data, tag |-> tag, hash |-> hash, age |-> 0]]

AssetJob(p, u, data, tag) == <<Job(AssetFile(u, key[p]), data, tag, None)>>

\* The content is written before the index that leads to it.
ChunkJobs(u, data, tag, hash) ==
  <<Job(ContentFile(hash), data, None, hash), Job(IndexFile(u), data, tag, hash)>>

RememberChunk(p, u, data, tag, hash) ==
  /\ findings' = [findings EXCEPT ![p][hash] = data]
  /\ memory' = [memory EXCEPT ![p][u] =
                  [data |-> data, tag |-> tag, hash |-> hash, age |-> 0]]

Defer(p, new) == jobs' = [jobs EXCEPT ![p] = @ \o new]

\* A fetch returns what it got; a revalidation has nobody to return it to.
Return(p, u, data) ==
  IF served[p][u] = None THEN Serve(p, u, data, "fetched") ELSE UNCHANGED served

Answered(p, u, status) ==
  /\ ask[p][u] # None /\ ask[p][u].status = status
  /\ ask' = [ask EXCEPT ![p][u] = None]
  /\ UNCHANGED <<server, disk, key, todo>>

\* Only scripts have a content hash.
StoreScan(p, u, data, tag) ==
  IF u \in Script
  THEN /\ RememberChunk(p, u, data, tag, data.body)
       /\ Defer(p, AssetJob(p, u, data, tag) \o ChunkJobs(u, data, tag, data.body))
  ELSE /\ Defer(p, AssetJob(p, u, data, tag))
       /\ UNCHANGED <<memory, findings>>

\* Mutant: the new data goes to the cache under the validators it replaces.
ScanBody_OldTag(p, u) ==
  LET data == [body |-> ask[p][u].body, builds |-> ask[p][u].builds \cup {key[p]}]
      tag == IF ask[p][u].cached = None THEN data.body ELSE ask[p][u].cached.tag
  IN  /\ Answered(p, u, "200")
      /\ Return(p, u, data)
      /\ StoreScan(p, u, data, tag)

\* The server may send validators with the body, or not.
ScanBody(p, u) ==
  LET data == [body |-> ask[p][u].body, builds |-> ask[p][u].builds \cup {key[p]}]
  IN  /\ Answered(p, u, "200")
      /\ Return(p, u, data)
      /\ \E tag \in {None, data.body} : StoreScan(p, u, data, tag)

\* 304 for a fetch: the asset file is written anew, the url index is not.
KeepAsset(p, u) ==
  LET cached == ask[p][u].cached
  IN  /\ Answered(p, u, "304")
      /\ served[p][u] = None
      /\ Serve(p, u, cached.data, "fetched")
      /\ Defer(p, AssetJob(p, u, cached.data, cached.tag))
      /\ UNCHANGED <<memory, findings>>

\* 304 for a revalidation: the index is read again, and what it has by now is
\* written under the validators and the hash it had when the request was made.
KeepChunk(p, u) ==
  LET cached == ask[p][u].cached
      existing == ReadUrl(p, u, ChunkStale)
  IN  /\ Answered(p, u, "304")
      /\ served[p][u] # None
      /\ UNCHANGED served
      /\ IF existing = None THEN UNCHANGED <<memory, findings, jobs>>
         ELSE /\ RememberChunk(p, u, existing.data, cached.tag, cached.hash)
              /\ Defer(p, ChunkJobs(u, existing.data, cached.tag, cached.hash))

-----------------------------------------------------------------------------
(* The disk, the server and time                                           *)

\* The first deferred write is made, or fails and leaves nothing to decode.
Write(p) ==
  /\ jobs[p] # <<>>
  /\ jobs' = [jobs EXCEPT ![p] = Tail(@)]
  /\ disk' \in {[disk EXCEPT ![Head(jobs[p]).file] = e] : e \in {Head(jobs[p]).entry, None}}
  /\ UNCHANGED <<server, key, todo, ask, served, memory, findings>>

\* Some assets change with a build, others do not.
Deploy ==
  /\ build' \in Key
  /\ body' \in [Url -> Body]
  /\ since' = [u \in Url |-> [since[u] EXCEPT ![body'[u]] = 0]]
  /\ UNCHANGED <<disk, local>>

OneMore(n) == IF n < ChunkStale THEN n + 1 ELSE n

\* Content findings have no age: they hold for ever.
Older(file) ==
  IF disk[file] = None \/ file[1] = "content" THEN disk[file]
  ELSE [disk[file] EXCEPT !.age = OneMore(@)]

Tick ==
  /\ \A p \in Proc : key[p] = None
  /\ disk' = [file \in File |-> Older(file)]
  /\ since' = [u \in Url |-> [b \in Body |-> IF b = body[u] THEN 0 ELSE OneMore(since[u][b])]]
  /\ UNCHANGED <<build, body, local>>

-----------------------------------------------------------------------------
Init ==
  /\ build \in Key
  /\ body \in [Url -> Body]
  /\ since = [u \in Url |-> [b \in Body |-> IF b = body[u] THEN 0 ELSE ChunkStale]]
  /\ disk = [file \in File |-> None]
  /\ key = [p \in Proc |-> None]
  /\ todo = [p \in Proc |-> {}]
  /\ ask = [p \in Proc |-> [u \in Url |-> None]]
  /\ served = [p \in Proc |-> [u \in Url |-> None]]
  /\ memory = [p \in Proc |-> [u \in Url |-> None]]
  /\ findings = [p \in Proc |-> [b \in Body |-> None]]
  /\ jobs = [p \in Proc |-> <<>>]

Resolve(p, u) ==
  HitChunk(p, u) \/ HitStaleChunk(p, u) \/ HitAsset(p, u) \/ Fetch(p, u)

Answer(p, u) == Answer304(p, u) \/ Answer200(p, u) \/ FetchFails(p, u)

Persist(p, u) == ScanBody(p, u) \/ KeepAsset(p, u) \/ KeepChunk(p, u)

Next ==
  \/ \E p \in Proc : Start(p) \/ Exit(p) \/ Write(p)
  \/ \E p \in Proc, u \in Url :
       Resolve(p, u) \/ Answer(p, u) \/ Persist(p, u)
  \/ Deploy
  \/ Tick

Spec == Init /\ [][Next]_vars

\* BoundedMemory::put in a scan of more than URL_INDEX_MEMORY_MAX_ENTRIES
\* scripts: the oldest entry of url_index_memory goes.
Forget(p, u) ==
  /\ memory[p][u] # None
  /\ memory' = [memory EXCEPT ![p][u] = None]
  /\ UNCHANGED <<server, disk, key, todo, ask, served, findings, jobs>>

NextCrowded == Next \/ \E p \in Proc, u \in Url : Forget(p, u)

SpecCrowded == Init /\ [][NextCrowded]_vars

-----------------------------------------------------------------------------
(* Properties                                                              *)

Sources == {"chunk", "stale", "asset", "fetched"}

Asked == [cached : Entry \cup {None}, status : {"sent", "304", "200"},
          body : Body \cup {None}, builds : SUBSET Key]

Hashed(e) == e # None => e.hash # None

TypeOK ==
  /\ build \in Key /\ body \in [Url -> Body]
  /\ since \in [Url -> [Body -> 0..ChunkStale]]
  /\ disk \in [File -> Entry \cup {None}]
  /\ \A u \in Script : Hashed(disk[IndexFile(u)])
  /\ key \in [Proc -> Key \cup {None}]
  /\ todo \in [Proc -> SUBSET Url]
  /\ ask \in [Proc -> [Url -> Asked \cup {None}]]
  /\ served \in [Proc -> [Url -> [data : Data, how : Sources] \cup {None}]]
  /\ memory \in [Proc -> [Url -> Entry \cup {None}]]
  /\ findings \in [Proc -> [Body -> Data \cup {None}]]
  /\ \A p \in Proc : \A u \in Url : Hashed(memory[p][u])
  /\ jobs \in [Proc -> Seq([file : File, entry : Entry])]

\* The parts of an entry are of one body.
Matches(e) == e # None => e.tag \in {None, e.data.body} /\ e.hash \in {None, e.data.body}

\* Validators, content hash and data of everything in the cache, on disk, in
\* memory and on its way to the disk, are of one body: no answer 304 ever
\* confirms data of another body, and no script starts from the findings of
\* another content.
EntriesMatch ==
  /\ \A f \in File : Matches(disk[f])
  /\ \A b \in Body : disk[ContentFile(b)] # None => disk[ContentFile(b)].data.body = b
  /\ \A p \in Proc : \A u \in Url : Matches(memory[p][u])
  /\ \A p \in Proc : \A i \in DOMAIN jobs[p] : Matches(jobs[p][i].entry)

\* How long ago the server had what a scan is given, at most.
Limit(how) ==
  CASE how = "fetched" -> 1
    [] how = "asset" -> AssetFresh
    [] how = "chunk" -> ChunkFresh
    [] how = "stale" -> ChunkStale

\* What a scan is given for an asset is what the server had for it within the
\* time limit of the way it was given, across any number of scans, rewrites
\* of the entry on 304, deployments and rollbacks.
ServedWasCurrent ==
  \A p \in Proc : \A u \in Url : served[p][u] # None =>
    since[u][served[p][u].data.body] < Limit(served[p][u].how)

\* An entry only becomes young again with data the server has had since the
\* process that writes it started.
RefreshIsEarned ==
  [][\A f \in File \ {ContentFile(b) : b \in Body} :
       disk'[f] # None /\ disk'[f].age = 0 /\ disk[f] # disk'[f] =>
         since[f[2]][disk'[f].data.body] = 0]_vars

\* An asset that is not a script is only served to scans of the revision it
\* was scanned in.
AssetsAreScoped ==
  \A p \in Proc : \A u \in Url \ Script : served[p][u] # None =>
    served[p][u].data.builds = {key[p]}

\* Said by runtime/fetch.rs:7-8 of all assets: "the same URL can produce
\* different scanned data across builds, so the processed asset cache is
\* scoped by cache key".
RevisionAware ==
  \A p \in Proc : \A u \in Url : served[p][u] # None =>
    served[p][u].data.builds = {key[p]}

\* Said by runtime/fetch.rs:420-421 of a 304: "Server confirmed bytes
\* unchanged: refresh validator sidecar timestamps".
RefreshedIsConfirmed ==
  \A u \in Script : Matches(disk[IndexFile(u)])
=============================================================================
