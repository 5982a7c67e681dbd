-------------------------- MODULE AssetCacheProofs --------------------------
(***************************************************************************)
(* Proofs about AssetCache, for any assets, bodies, revisions, processes   *)
(* and time limits. Slot says what holds between a process and an asset,   *)
(* Stored what holds of the files, Deferred of the writes on their way.    *)
(* An action touches the slot of one process and one asset, or the files;  *)
(* the server and time touch nothing but `since` and the ages.             *)
(***************************************************************************)
EXTENDS AssetCache, SequenceTheorems, TLAPS

\* The parts of e match, and e is no younger than its data: `now` says how
\* long ago the server had each body of the asset.
Sound(now, e) == Matches(e) /\ (e # None => now[e.data.body] <= e.age)

\* What a process that does not run remembers; what is not asked for yet.
Unused(p, u) ==
  /\ key[p] = None => u \notin todo[p] /\ ask[p][u] = None /\ memory[p][u] = None
  /\ key[p] = None \/ u \in todo[p] => ask[p][u] = None /\ served[p][u] = None

\* A request for an asset that was served already revalidates the script that
\* is in memory, and nothing replaces it there meanwhile.
Revalidates(p, u) ==
  ask[p][u] # None /\ served[p][u] # None =>
    /\ u \in Script
    /\ memory[p][u] # None /\ memory[p][u] = ask[p][u].cached
    /\ memory[p][u].age < ChunkStale

AskSound(p, u) ==
  LET a == ask[p][u]
  IN  a # None =>
        /\ Sound(since[u], a.cached)
        /\ a.status = "304" => a.cached # None /\ since[u][a.cached.data.body] = 0
        /\ a.status = "200" => a.body \in Body /\ since[u][a.body] = 0
        /\ u \notin Script =>
             a.builds = {} /\ (a.cached # None => a.cached.data.builds = {key[p]})

ServedSound(p, u) ==
  LET s == served[p][u]
  IN  s # None =>
        /\ since[u][s.data.body] < Limit(s.how)
        /\ u \notin Script => s.data.builds = {key[p]}

Slot(p, u) ==
  /\ Unused(p, u)
  /\ Revalidates(p, u)
  /\ AskSound(p, u)
  /\ Sound(since[u], memory[p][u])
  /\ ServedSound(p, u)

\* e may be in file f.
Fits(f, e) ==
  /\ \A u \in Url, k \in Key : f = AssetFile(u, k) /\ u \notin Script => e.data.builds = {k}
  /\ \A u \in Script : f = IndexFile(u) => e.hash # None
  /\ \A b \in Body : f = ContentFile(b) => e.data.body = b

Stored(f) ==
  disk[f] # None =>
    /\ Matches(disk[f])
    /\ Fits(f, disk[f])
    /\ (\A b \in Body : f # ContentFile(b)) => since[f[2]][disk[f].data.body] <= disk[f].age

Deferred(j) ==
  /\ Matches(j.entry)
  /\ Fits(j.file, j.entry)
  /\ j.entry.age = 0
  /\ (\A b \in Body : j.file # ContentFile(b)) => since[j.file[2]][j.entry.data.body] = 0

Jobs ==
  /\ \A p \in Proc : \A i \in DOMAIN jobs[p] : Deferred(jobs[p][i])
  /\ \A p \in Proc : key[p] = None => jobs[p] = <<>>

IInv ==
  /\ TypeOK
  /\ \A u \in Url : since[u][body[u]] = 0
  /\ \A p \in Proc, u \in Url : Slot(p, u)
  /\ \A f \in File : Stored(f)
  /\ Jobs

-----------------------------------------------------------------------------
(* Files and entries                                                       *)

LEMMA FileNames ==
  /\ \A u \in Url, k \in Key : AssetFile(u, k) \in File /\ AssetFile(u, k)[2] = u
  /\ \A u \in Script : IndexFile(u) \in File /\ IndexFile(u)[2] = u
  /\ \A b \in Body : ContentFile(b) \in File /\ ContentFile(b)[1] = "content"
  /\ \A u \in Url, k \in Key, b \in Body : AssetFile(u, k) # ContentFile(b)
  /\ \A u \in Url, b \in Body : IndexFile(u) # ContentFile(b)
  /\ \A u, v \in Url, k \in Key : AssetFile(u, k) # IndexFile(v)
  /\ \A u, v \in Url, k, l \in Key : AssetFile(u, k) = AssetFile(v, l) => u = v /\ k = l
  /\ \A u \in Url, k \in Key : AssetFile(u, k)[1] # "content"
  /\ \A u \in Url : IndexFile(u)[1] # "content"
BY DEF AssetFile, IndexFile, ContentFile, File

LEMMA EntryParts ==
  \A e \in Entry : /\ e.data \in Data /\ e.data.body \in Body /\ e.data.builds \in SUBSET Key
                   /\ e.tag \in Body \cup {None} /\ e.hash \in Body \cup {None}
                   /\ e.age \in Nat /\ e.age <= ChunkStale
BY CacheAssumption DEF Entry, Data

LEMMA Cases == \A f \in File :
  \/ \E u \in Url, k \in Key : f = AssetFile(u, k)
  \/ \E u \in Script : f = IndexFile(u)
  \/ \E b \in Body : f = ContentFile(b)
BY DEF File

\* What the url index answers is a script's entry within the limit.
LEMMA Chunks ==
  ASSUME IInv, NEW p \in Proc, NEW u \in Url, NEW limit \in Nat, Chunk(p, u, limit) # None
  PROVE  LET e == Chunk(p, u, limit)
         IN  u \in Script /\ e \in Entry /\ e.age < limit /\ e.hash # None /\ Sound(since[u], e)
<1> DEFINE e == Chunk(p, u, limit)
<1>1. u \in Script /\ Young(e, limit) /\ e \in {memory[p][u], disk[IndexFile(u)]}
  BY DEF Chunk, ReadUrl
<1>2. CASE e = memory[p][u]
  BY <1>1, <1>2 DEF IInv, TypeOK, Slot, Young, Hashed
<1>3. CASE e = disk[IndexFile(u)]
  <2>1. IndexFile(u) \in File /\ Stored(IndexFile(u))
    BY <1>1, FileNames DEF IInv
  <2>2. e \in Entry /\ e.hash # None
    BY <1>1, <1>3, <2>1 DEF IInv, TypeOK, Young, Hashed
  <2>3. Sound(since[u], e)
    BY <1>1, <1>3, <2>1, FileNames DEF Stored, Sound, Young
  <2> QED BY <1>1, <2>2, <2>3 DEF Young
<1> QED BY <1>1, <1>2, <1>3

-----------------------------------------------------------------------------
(* What a step leaves alone                                                *)

LEMMA FrameSlot ==
  ASSUME NEW p \in Proc, NEW u \in Url, Slot(p, u),
         key'[p] = key[p], u \in todo'[p] => u \in todo[p], ask'[p][u] = ask[p][u],
         served'[p][u] = served[p][u], memory'[p][u] = memory[p][u], since'[u] = since[u]
  PROVE  Slot(p, u)'
BY DEF Slot, Unused, Revalidates, AskSound, ServedSound, Sound

LEMMA FrameStored ==
  ASSUME \A f \in File : Stored(f), UNCHANGED <<since, disk>>
  PROVE  \A f \in File : Stored(f)'
BY DEF Stored

LEMMA FrameJobs ==
  ASSUME Jobs, UNCHANGED <<since, jobs>>, \A p \in Proc : key'[p] = None => key[p] = None
  PROVE  Jobs'
BY DEF Jobs, Deferred

\* The map `new` is `old` with x for process p and asset u.
OnlyAt(old, new, p, u, x) ==
  /\ new[p][u] = x
  /\ \A q \in Proc, v \in Url : <<q, v>> # <<p, u>> => new[q][v] = old[q][v]

\* A step on p and u leaves the other slots alone.
LEMMA Elsewhere ==
  ASSUME IInv, NEW p \in Proc, NEW u \in Url, UNCHANGED <<since, key>>,
         \A q \in Proc : todo'[q] \subseteq todo[q],
         NEW a, OnlyAt(ask, ask', p, u, a), NEW s, OnlyAt(served, served', p, u, s),
         NEW m, OnlyAt(memory, memory', p, u, m),
         Slot(p, u)'
  PROVE  \A q \in Proc, v \in Url : Slot(q, v)'
<1> TAKE q \in Proc, v \in Url
<1>1. CASE <<q, v>> = <<p, u>>
  BY <1>1
<1>2. CASE <<q, v>> # <<p, u>>
  <2>1. /\ ask'[q][v] = ask[q][v] /\ served'[q][v] = served[q][v]
        /\ memory'[q][v] = memory[q][v]
    BY <1>2 DEF OnlyAt
  <2> QED BY <2>1, FrameSlot DEF IInv
<1> QED BY <1>1, <1>2

-----------------------------------------------------------------------------
LEMMA InitIInv == Init => IInv
<1> SUFFICES ASSUME Init PROVE IInv
  OBVIOUS
<1>1. TypeOK
  BY CacheAssumption, FileNames DEF Init, TypeOK, Hashed
<1>2. ASSUME NEW p \in Proc, NEW u \in Url PROVE Slot(p, u)
  BY <1>2 DEF Init, Slot, Unused, Revalidates, AskSound, ServedSound, Sound, Matches
<1>3. \A f \in File : Stored(f)
  BY DEF Init, Stored
<1>4. Jobs
  BY DEF Init, Jobs
<1>5. \A u \in Url : since[u][body[u]] = 0
  BY DEF Init
<1> QED BY <1>1, <1>2, <1>3, <1>4, <1>5 DEF IInv

LEMMA StartIInv ==
  ASSUME IInv, NEW p \in Proc, Start(p)
  PROVE  IInv'
<1>1. TypeOK'
  BY DEF IInv, TypeOK, Start, server, Hashed
<1>2. ASSUME NEW q \in Proc, NEW u \in Url PROVE Slot(q, u)'
  <2>1. CASE q = p
    <3>1. /\ key'[p] = build /\ key'[p] # None /\ UNCHANGED <<since, ask, served, memory>>
          /\ ask[p][u] = None /\ served[p][u] = None /\ memory[p][u] = None
      BY CacheAssumption DEF IInv, TypeOK, Start, server, Slot, Unused
    <3> QED
      BY <2>1, <3>1 DEF Slot, Unused, Revalidates, AskSound, ServedSound, Sound, Matches
  <2>2. CASE q # p
    <3>1. key'[q] = key[q] /\ todo'[q] = todo[q] /\ UNCHANGED <<since, ask, served, memory>>
      BY <2>2 DEF IInv, TypeOK, Start, server
    <3> QED BY <3>1, FrameSlot DEF IInv
  <2> QED BY <2>1, <2>2
<1>3. \A f \in File : Stored(f)'
  BY FrameStored DEF IInv, Start, server
<1>4. Jobs'
  <2>1. \A q \in Proc : key'[q] = None => key[q] = None
    BY CacheAssumption DEF IInv, TypeOK, Start
  <2> QED BY <2>1, FrameJobs DEF IInv, Start, server
<1> QED BY <1>1, <1>2, <1>3, <1>4 DEF IInv, Start, server

LEMMA ExitIInv ==
  ASSUME IInv, NEW p \in Proc, Exit(p)
  PROVE  IInv'
<1>1. TypeOK'
  <2>1. memory' \in [Proc -> [Url -> Entry \cup {None}]] /\ \A q \in Proc : \A u \in Url : Hashed(memory'[q][u])
    BY DEF IInv, TypeOK, Exit, Hashed
  <2>2. findings' \in [Proc -> [Body -> Data \cup {None}]]
    BY DEF IInv, TypeOK, Exit
  <2>6. jobs' \in [Proc -> Seq([file : File, entry : Entry])]
    BY EmptySeq DEF IInv, TypeOK, Exit
  <2>3. ask' \in [Proc -> [Url -> Asked \cup {None}]]
    BY DEF IInv, TypeOK, Exit
  <2>4. served' \in [Proc -> [Url -> [data : Data, how : Sources] \cup {None}]]
    BY DEF IInv, TypeOK, Exit
  <2>5. key' \in [Proc -> Key \cup {None}] /\ todo' \in [Proc -> SUBSET Url]
    BY DEF IInv, TypeOK, Exit
  <2> QED
    BY <2>1, <2>2, <2>3, <2>4, <2>5, <2>6 DEF IInv, TypeOK, Exit, server, Hashed
<1>2. ASSUME NEW q \in Proc, NEW u \in Url PROVE Slot(q, u)'
  <2>1. CASE q = p
    <3>1. /\ key'[p] = None /\ todo'[p] = {} /\ ask'[p][u] = None /\ served'[p][u] = None
          /\ memory'[p][u] = None
      BY DEF IInv, TypeOK, Exit
    <3> QED
      BY <2>1, <3>1 DEF Slot, Unused, Revalidates, AskSound, ServedSound, Sound, Matches
  <2>2. CASE q # p
    <3>1. /\ key'[q] = key[q] /\ todo'[q] = todo[q] /\ ask'[q][u] = ask[q][u]
          /\ served'[q][u] = served[q][u] /\ memory'[q][u] = memory[q][u] /\ since' = since
      BY <2>2 DEF IInv, TypeOK, Exit, server
    <3> QED BY <3>1, FrameSlot DEF IInv
  <2> QED BY <2>1, <2>2
<1>3. \A f \in File : Stored(f)'
  BY FrameStored DEF IInv, Exit, server
<1>4. Jobs'
  <2>1. \A q \in Proc : jobs'[q] = <<>> \/ (jobs'[q] = jobs[q] /\ key'[q] = key[q])
    BY DEF IInv, TypeOK, Exit
  <2>2. UNCHANGED since
    BY DEF Exit, server
  <2> QED BY <2>1, <2>2 DEF IInv, Jobs, Deferred
<1> QED BY <1>1, <1>2, <1>3, <1>4 DEF IInv, Exit, server

-----------------------------------------------------------------------------
(* resolve_asset                                                           *)

\* What holds of a slot for which an answer is looked for.
Looking(p, u) ==
  /\ key[p] \in Key /\ key[p] # None /\ ask[p][u] = None /\ served[p][u] = None
  /\ Sound(since[u], memory[p][u])

LEMMA AskingFacts ==
  ASSUME IInv, NEW p \in Proc, NEW u \in Url, Asking(p, u)
  PROVE  /\ Looking(p, u)
         /\ todo' \in [Proc -> SUBSET Url] /\ u \notin todo'[p]
         /\ \A q \in Proc : todo'[q] \subseteq todo[q]
BY DEF IInv, TypeOK, Slot, Unused, Asking, Looking

Memories == [Proc -> [Url -> Entry \cup {None}]]

LEMMA MemoryType ==
  ASSUME IInv, NEW p \in Proc, NEW u \in Url, NEW e \in Entry, e.hash # None,
         memory' = [memory EXCEPT ![p][u] = e]
  PROVE  /\ memory' \in Memories
         /\ \A q \in Proc : \A v \in Url : Hashed(memory'[q][v])
         /\ OnlyAt(memory, memory', p, u, e)
BY DEF IInv, TypeOK, Hashed, OnlyAt, Memories

Answers == [Proc -> [Url -> [data : Data, how : Sources] \cup {None}]]

LEMMA ServeType ==
  ASSUME IInv, NEW p \in Proc, NEW u \in Url, NEW d \in Data, NEW how \in Sources,
         Serve(p, u, d, how)
  PROVE  /\ served' \in Answers
         /\ OnlyAt(served, served', p, u, [data |-> d, how |-> how])
BY DEF IInv, TypeOK, Serve, OnlyAt, Answers

Requests == [Proc -> [Url -> Asked \cup {None}]]

\* A request that has just been made.
New(e) == [cached |-> e, status |-> "sent", body |-> None, builds |-> {}]

LEMMA RequestType ==
  ASSUME IInv, NEW p \in Proc, NEW u \in Url, NEW e \in Entry \cup {None}, Request(p, u, e)
  PROVE  /\ ask' \in Requests
         /\ OnlyAt(ask, ask', p, u, New(e))
BY DEF IInv, TypeOK, Request, Asked, OnlyAt, Requests, New

LEMMA Same ==
  ASSUME NEW f, NEW p \in Proc, NEW u \in Url
  PROVE  OnlyAt(f, f, p, u, f[p][u])
BY DEF OnlyAt

\* What is served is younger than its way allows.
LEMMA YoungEnough ==
  ASSUME IInv, NEW u \in Url, NEW e \in Entry, e # None, Sound(since[u], e),
         NEW limit \in Nat, e.age < limit
  PROVE  since[u][e.data.body] < limit
<1>1. since[u][e.data.body] \in Nat /\ e.age \in Nat
  BY EntryParts DEF IInv, TypeOK
<1> QED BY <1>1 DEF Sound

LEMMA HitChunkIInv ==
  ASSUME IInv, NEW p \in Proc, NEW u \in Url, HitChunk(p, u)
  PROVE  IInv'
<1> DEFINE e == Chunk(p, u, ChunkFresh)
           s == [data |-> e.data, how |-> "chunk"]
<1>1. u \in Script /\ e \in Entry /\ e.age < ChunkFresh /\ e.hash # None /\ Sound(since[u], e) /\ e # None
  BY Chunks, CacheAssumption DEF HitChunk
<1>2. /\ Asking(p, u) /\ memory' = [memory EXCEPT ![p][u] = e] /\ Serve(p, u, e.data, "chunk")
      /\ UNCHANGED <<build, body, since, disk, key, ask, findings, jobs>>
  BY DEF HitChunk, server
<1> HIDE DEF e
<1>3. e.data \in Data /\ "chunk" \in Sources /\ since[u][e.data.body] < ChunkFresh
  BY <1>1, EntryParts, YoungEnough, CacheAssumption DEF Sources
<1>a. /\ Looking(p, u) /\ todo' \in [Proc -> SUBSET Url] /\ u \notin todo'[p]
      /\ \A q \in Proc : todo'[q] \subseteq todo[q]
  BY <1>2, AskingFacts
<1>b. /\ memory' \in Memories /\ \A q \in Proc : \A v \in Url : Hashed(memory'[q][v])
      /\ OnlyAt(memory, memory', p, u, e)
  BY <1>1, <1>2, MemoryType
<1>c. served' \in Answers /\ OnlyAt(served, served', p, u, s)
  BY <1>2, <1>3, ServeType
<1>4. TypeOK'
  BY <1>2, <1>a, <1>b, <1>c DEF IInv, TypeOK, Hashed, Memories, Answers
<1>5. Slot(p, u)'
  BY <1>1, <1>2, <1>3, <1>a, <1>b, <1>c
     DEF OnlyAt, Looking, Slot, Unused, Revalidates, AskSound, ServedSound, Limit
<1>6. \A q \in Proc, v \in Url : Slot(q, v)'
  <2>1. OnlyAt(ask, ask', p, u, ask[p][u])
    BY <1>2, Same
  <2> QED BY <1>2, <1>5, <1>a, <1>b, <1>c, <2>1, Elsewhere
<1>7. (\A f \in File : Stored(f)') /\ Jobs'
  BY <1>2, FrameStored, FrameJobs DEF IInv
<1> QED BY <1>2, <1>4, <1>6, <1>7 DEF IInv

LEMMA HitStaleChunkIInv ==
  ASSUME IInv, NEW p \in Proc, NEW u \in Url, HitStaleChunk(p, u)
  PROVE  IInv'
<1> DEFINE e == Chunk(p, u, ChunkStale)
           s == [data |-> e.data, how |-> "stale"]
<1>1. u \in Script /\ e \in Entry /\ e.age < ChunkStale /\ e.hash # None /\ Sound(since[u], e) /\ e # None
  BY Chunks, CacheAssumption DEF HitStaleChunk
<1>2. /\ Asking(p, u) /\ memory' = [memory EXCEPT ![p][u] = e] /\ Serve(p, u, e.data, "stale")
      /\ Request(p, u, e) \/ UNCHANGED ask
      /\ UNCHANGED <<build, body, since, disk, key, findings, jobs>>
  BY DEF HitStaleChunk, server
<1> HIDE DEF e
<1>3. e.data \in Data /\ "stale" \in Sources /\ since[u][e.data.body] < ChunkStale
  BY <1>1, EntryParts, YoungEnough, CacheAssumption DEF Sources
<1>a. /\ Looking(p, u) /\ todo' \in [Proc -> SUBSET Url] /\ u \notin todo'[p]
      /\ \A q \in Proc : todo'[q] \subseteq todo[q]
  BY <1>2, AskingFacts
<1>b. /\ memory' \in Memories /\ \A q \in Proc : \A v \in Url : Hashed(memory'[q][v])
      /\ OnlyAt(memory, memory', p, u, e)
  BY <1>1, <1>2, MemoryType
<1>c. served' \in Answers /\ OnlyAt(served, served', p, u, s)
  BY <1>2, <1>3, ServeType
<1>d. PICK a \in {None, New(e)} : ask' \in Requests /\ OnlyAt(ask, ask', p, u, a)
  <2>1. CASE Request(p, u, e)
    BY <1>1, <2>1, RequestType
  <2>2. CASE UNCHANGED ask
    BY <1>a, <2>2, Same DEF Looking, IInv, TypeOK, Requests
  <2> QED BY <1>2, <2>1, <2>2
<1>4. TypeOK'
  BY <1>2, <1>a, <1>b, <1>c, <1>d DEF IInv, TypeOK, Hashed, Memories, Answers, Requests
<1>5. Slot(p, u)'
  <2>1. Unused(p, u)' /\ ServedSound(p, u)' /\ Sound(since[u], memory[p][u])'
    BY <1>1, <1>2, <1>3, <1>a, <1>b, <1>c DEF OnlyAt, Looking, Unused, ServedSound, Limit
  <2>2. AskSound(p, u)' /\ Revalidates(p, u)'
    BY <1>1, <1>2, <1>a, <1>b, <1>d DEF OnlyAt, AskSound, Revalidates, New
  <2> QED BY <2>1, <2>2 DEF Slot
<1>6. \A q \in Proc, v \in Url : Slot(q, v)'
  BY <1>2, <1>5, <1>a, <1>b, <1>c, <1>d, Elsewhere
<1>7. (\A f \in File : Stored(f)') /\ Jobs'
  BY <1>2, FrameStored, FrameJobs DEF IInv
<1> QED BY <1>2, <1>4, <1>6, <1>7 DEF IInv

\* A young asset file of the process's revision.
LEMMA CachedFacts ==
  ASSUME IInv, NEW p \in Proc, NEW u \in Url, NEW limit \in Nat, key[p] \in Key,
         Young(Cached(p, u), limit)
  PROVE  LET e == Cached(p, u)
         IN  /\ e \in Entry /\ e # None /\ e.age < limit /\ Sound(since[u], e)
             /\ u \notin Script => e.data.builds = {key[p]}
<1> DEFINE f == AssetFile(u, key[p])
<1>1. f \in File /\ f[2] = u /\ Stored(f) /\ \A b \in Body : f # ContentFile(b)
  BY FileNames DEF IInv
<1>2. disk[f] # None /\ disk[f].age < limit /\ disk[f] \in Entry
  BY <1>1 DEF Cached, Young, IInv, TypeOK
<1> QED
  BY <1>1, <1>2 DEF Cached, Stored, Sound, Fits

LEMMA HitAssetIInv ==
  ASSUME IInv, NEW p \in Proc, NEW u \in Url, HitAsset(p, u)
  PROVE  IInv'
<1> DEFINE e == Cached(p, u)
           s == [data |-> e.data, how |-> "asset"]
<1>2. /\ Asking(p, u) /\ Young(e, AssetFresh) /\ Serve(p, u, e.data, "asset")
      /\ UNCHANGED <<build, body, since, disk, key, ask, memory, findings, jobs>>
  BY DEF HitAsset, server
<1>a. /\ Looking(p, u) /\ todo' \in [Proc -> SUBSET Url] /\ u \notin todo'[p]
      /\ \A q \in Proc : todo'[q] \subseteq todo[q]
  BY <1>2, AskingFacts
<1>1. /\ e \in Entry /\ e.age < AssetFresh /\ Sound(since[u], e) /\ e # None
      /\ u \notin Script => e.data.builds = {key[p]}
  BY <1>2, <1>a, CachedFacts, CacheAssumption DEF Looking
<1> HIDE DEF e
<1>3. e.data \in Data /\ "asset" \in Sources /\ since[u][e.data.body] < AssetFresh
  BY <1>1, EntryParts, YoungEnough, CacheAssumption DEF Sources
<1>c. served' \in Answers /\ OnlyAt(served, served', p, u, s)
  BY <1>2, <1>3, ServeType
<1>4. TypeOK'
  BY <1>2, <1>a, <1>c DEF IInv, TypeOK, Hashed, Answers
<1>5. Slot(p, u)'
  BY <1>1, <1>2, <1>3, <1>a, <1>c
     DEF OnlyAt, Looking, Slot, Unused, Revalidates, AskSound, ServedSound, Limit
<1>6. \A q \in Proc, v \in Url : Slot(q, v)'
  <2>1. OnlyAt(ask, ask', p, u, ask[p][u]) /\ OnlyAt(memory, memory', p, u, memory[p][u])
    BY <1>2, Same
  <2> QED BY <1>2, <1>5, <1>a, <1>c, <2>1, Elsewhere
<1>7. (\A f \in File : Stored(f)') /\ Jobs'
  BY <1>2, FrameStored, FrameJobs DEF IInv
<1> QED BY <1>2, <1>4, <1>6, <1>7 DEF IInv

LEMMA FetchIInv ==
  ASSUME IInv, NEW p \in Proc, NEW u \in Url, Fetch(p, u)
  PROVE  IInv'
<1> DEFINE e == IF Young(Cached(p, u), AssetStale) THEN Cached(p, u) ELSE None
<1>2. /\ Asking(p, u) /\ Request(p, u, e)
      /\ UNCHANGED <<build, body, since, disk, key, served, memory, findings, jobs>>
  BY DEF Fetch, server
<1>a. /\ Looking(p, u) /\ todo' \in [Proc -> SUBSET Url] /\ u \notin todo'[p]
      /\ \A q \in Proc : todo'[q] \subseteq todo[q]
  BY <1>2, AskingFacts
<1>1. /\ e \in Entry \cup {None} /\ Sound(since[u], e)
      /\ u \notin Script => e = None \/ e.data.builds = {key[p]}
  <2>1. CASE Young(Cached(p, u), AssetStale)
    BY <1>a, <2>1, CachedFacts, CacheAssumption DEF Looking
  <2>2. CASE ~Young(Cached(p, u), AssetStale)
    BY <2>2 DEF Sound, Matches
  <2> QED BY <2>1, <2>2
<1> HIDE DEF e
<1>d. ask' \in Requests /\ OnlyAt(ask, ask', p, u, New(e))
  BY <1>1, <1>2, RequestType
<1>4. TypeOK'
  BY <1>2, <1>a, <1>d DEF IInv, TypeOK, Hashed, Requests
<1>5. Slot(p, u)'
  BY <1>1, <1>2, <1>a, <1>d
     DEF OnlyAt, Looking, New, Slot, Unused, Revalidates, AskSound, ServedSound
<1>6. \A q \in Proc, v \in Url : Slot(q, v)'
  <2>1. OnlyAt(served, served', p, u, served[p][u]) /\ OnlyAt(memory, memory', p, u, memory[p][u])
    BY <1>2, Same
  <2> QED BY <1>2, <1>5, <1>a, <1>d, <2>1, Elsewhere
<1>7. (\A f \in File : Stored(f)') /\ Jobs'
  BY <1>2, FrameStored, FrameJobs DEF IInv
<1> QED BY <1>2, <1>4, <1>6, <1>7 DEF IInv

-----------------------------------------------------------------------------
(* fetch_asset_body                                                        *)

LEMMA SentFacts ==
  ASSUME IInv, NEW p \in Proc, NEW u \in Url, ask[p][u] # None
  PROVE  /\ ask[p][u] \in Asked /\ u \notin todo[p] /\ key[p] \in Key /\ key[p] # None
         /\ Slot(p, u)
BY DEF IInv, TypeOK, Slot, Unused

\* A step of a request that changes what is asked only, or ends it.
LEMMA AskOnly ==
  ASSUME IInv, NEW p \in Proc, NEW u \in Url, ask[p][u] # None, NEW a \in Asked \cup {None},
         ask' = [ask EXCEPT ![p][u] = a],
         a # None => a.cached = ask[p][u].cached,
         AskSound(p, u)',
         UNCHANGED <<since, key, todo, served, memory>>
  PROVE  /\ ask' \in Requests
         /\ \A q \in Proc, v \in Url : Slot(q, v)'
<1>1. ask' \in Requests /\ OnlyAt(ask, ask', p, u, a)
  BY DEF IInv, TypeOK, Requests, OnlyAt
<1>2. Slot(p, u)'
  <2>1. u \notin todo[p] /\ key[p] # None /\ Slot(p, u)
    BY SentFacts
  <2> QED BY <1>1, <2>1 DEF OnlyAt, Slot, Unused, Revalidates, ServedSound
<1>3. OnlyAt(served, served', p, u, served[p][u]) /\ OnlyAt(memory, memory', p, u, memory[p][u])
  BY Same
<1> QED BY <1>1, <1>2, <1>3, Elsewhere

LEMMA Answer304IInv ==
  ASSUME IInv, NEW p \in Proc, NEW u \in Url, Answer304(p, u)
  PROVE  IInv'
<1> DEFINE a == [ask[p][u] EXCEPT !.status = "304"]
<1>1. /\ ask[p][u] # None /\ ask[p][u].cached # None /\ ask[p][u].cached.tag = body[u]
      /\ ask' = [ask EXCEPT ![p][u].status = "304"]
      /\ UNCHANGED <<build, body, since, disk, key, todo, served, memory, findings, jobs>>
  BY DEF Answer304, Sent, server
<1>2. ask[p][u] \in Asked /\ Slot(p, u)
  BY <1>1, SentFacts
<1>3. a \in Asked /\ a.cached = ask[p][u].cached /\ a.builds = ask[p][u].builds /\ a.status = "304"
  BY <1>2 DEF Asked
<1>4. ask' = [ask EXCEPT ![p][u] = a] /\ ask'[p][u] = a
  BY <1>1 DEF IInv, TypeOK
<1>5. since[u][ask[p][u].cached.data.body] = 0
  <2>1. body[u] \in Body /\ since[u][body[u]] = 0
    BY DEF IInv, TypeOK
  <2> QED BY <1>1, <1>2, <2>1, CacheAssumption DEF Slot, AskSound, Sound, Matches
<1> HIDE DEF a
<1>6. AskSound(p, u)'
  BY <1>1, <1>2, <1>3, <1>4, <1>5 DEF Slot, AskSound
<1>7. ask' \in Requests /\ \A q \in Proc, v \in Url : Slot(q, v)'
  BY <1>1, <1>3, <1>4, <1>6, AskOnly
<1>8. TypeOK'
  BY <1>1, <1>7 DEF IInv, TypeOK, Hashed, Requests
<1>9. (\A f \in File : Stored(f)') /\ Jobs'
  BY <1>1, FrameStored, FrameJobs DEF IInv
<1> QED BY <1>1, <1>7, <1>8, <1>9 DEF IInv

LEMMA FetchFailsIInv ==
  ASSUME IInv, NEW p \in Proc, NEW u \in Url, FetchFails(p, u)
  PROVE  IInv'
<1>1. /\ ask[p][u] # None /\ ask' = [ask EXCEPT ![p][u] = None] /\ ask'[p][u] = None
      /\ UNCHANGED <<build, body, since, disk, key, todo, served, memory, findings, jobs>>
  BY DEF FetchFails, Sent, server, IInv, TypeOK
<1>2. AskSound(p, u)'
  BY <1>1 DEF AskSound
<1>3. ask' \in Requests /\ \A q \in Proc, v \in Url : Slot(q, v)'
  BY <1>1, <1>2, AskOnly
<1>4. TypeOK'
  BY <1>1, <1>3 DEF IInv, TypeOK, Hashed, Requests
<1>5. (\A f \in File : Stored(f)') /\ Jobs'
  BY <1>1, FrameStored, FrameJobs DEF IInv
<1> QED BY <1>1, <1>3, <1>4, <1>5 DEF IInv

LEMMA KnownType ==
  ASSUME IInv, NEW p \in Proc, NEW b \in Body
  PROVE  Known(p, b) \in Data \cup {None}
<1>1. ContentFile(b) \in File
  BY FileNames
<1> QED BY <1>1, EntryParts DEF IInv, TypeOK, Known

LEMMA Answer200IInv ==
  ASSUME IInv, NEW p \in Proc, NEW u \in Url, Answer200(p, u)
  PROVE  IInv'
<1> DEFINE known == IF u \in Script THEN Known(p, body[u]) ELSE None
           builds == IF known = None THEN {} ELSE known.builds
           a == [cached |-> ask[p][u].cached, status |-> "200", body |-> body[u], builds |-> builds]
<1>1. /\ ask[p][u] # None
      /\ ask' = [ask EXCEPT ![p][u] = a]
      /\ findings' = IF known = None THEN findings ELSE [findings EXCEPT ![p][body[u]] = known]
      /\ UNCHANGED <<build, body, since, disk, key, todo, served, memory, jobs>>
  BY DEF Answer200, Sent, server
<1>2. ask[p][u] \in Asked /\ Slot(p, u) /\ body[u] \in Body /\ since[u][body[u]] = 0
  BY <1>1, SentFacts DEF IInv, TypeOK
<1>3. known \in Data \cup {None} /\ builds \in SUBSET Key /\ (u \notin Script => builds = {})
  BY <1>2, KnownType DEF Data
<1> HIDE DEF known, builds
<1>4. a \in Asked
  BY <1>2, <1>3 DEF Asked
<1>5. ask' = [ask EXCEPT ![p][u] = a] /\ ask'[p][u] = a
  BY <1>1 DEF IInv, TypeOK
<1>6. AskSound(p, u)'
  BY <1>1, <1>2, <1>3, <1>5 DEF Slot, AskSound
<1>7. ask' \in Requests /\ \A q \in Proc, v \in Url : Slot(q, v)'
  <2>1. a.cached = ask[p][u].cached
    OBVIOUS
  <2> HIDE DEF a
  <2> QED BY <1>1, <1>4, <1>5, <1>6, <2>1, AskOnly
<1>8. findings' \in [Proc -> [Body -> Data \cup {None}]]
  BY <1>1, <1>2, <1>3 DEF IInv, TypeOK
<1>9. TypeOK'
  BY <1>1, <1>7, <1>8 DEF IInv, TypeOK, Hashed, Requests
<1>10. (\A f \in File : Stored(f)') /\ Jobs'
  BY <1>1, FrameStored, FrameJobs DEF IInv
<1> QED BY <1>1, <1>7, <1>9, <1>10 DEF IInv

-----------------------------------------------------------------------------
(* persist_asset                                                           *)

Work == [file : File, entry : Entry]

LEMMA AddJobs ==
  ASSUME IInv, NEW p \in Proc, key[p] # None, NEW new \in Seq(Work),
         \A i \in DOMAIN new : Deferred(new[i]),
         Defer(p, new), UNCHANGED <<since, key>>
  PROVE  jobs' \in [Proc -> Seq(Work)] /\ Jobs'
<1>1. jobs[p] \in Seq(Work) /\ jobs[p] \o new \in Seq(Work) /\ jobs \in [Proc -> Seq(Work)]
  BY ConcatProperties DEF IInv, TypeOK, Work
<1>2. jobs' = [jobs EXCEPT ![p] = jobs[p] \o new]
  BY DEF Defer
<1>3. ASSUME NEW q \in Proc, NEW i \in DOMAIN jobs'[q]
      PROVE  Deferred(jobs'[q][i])
  <2>1. CASE q # p
    BY <1>1, <1>2, <1>3, <2>1 DEF IInv, Jobs
  <2>2. CASE q = p
    <3>1. jobs'[q] = jobs[p] \o new /\ \A n \in DOMAIN jobs[p] : Deferred(jobs[p][n])
      BY <1>1, <1>2, <2>2 DEF IInv, Jobs
    <3>2. i \in 1 .. Len(jobs[p]) + Len(new)
      BY <1>1, <1>3, <3>1, ConcatProperties, LenProperties
    <3>3. CASE i <= Len(jobs[p])
      BY <1>1, <3>1, <3>2, <3>3, ConcatProperties, LenProperties
    <3>4. CASE i > Len(jobs[p])
      <4>1. jobs'[q][i] = new[i - Len(jobs[p])] /\ i - Len(jobs[p]) \in DOMAIN new
        BY <1>1, <3>1, <3>2, <3>4, ConcatProperties, LenProperties
      <4> QED BY <4>1
    <3> QED BY <1>1, <3>2, <3>3, <3>4, LenProperties
  <2> QED BY <2>1, <2>2
<1>5. Jobs'
  <2>1. \A q \in Proc : key'[q] = None => jobs'[q] = <<>>
    BY <1>1, <1>2 DEF IInv, Jobs
  <2>2. \A q \in Proc : \A i \in DOMAIN jobs'[q] : Deferred(jobs[q][i])'
    <3> TAKE q \in Proc
    <3> TAKE i \in DOMAIN jobs'[q]
    <3>1. Deferred(jobs'[q][i])
      BY <1>3
    <3> QED BY <3>1 DEF Deferred
  <2> QED BY <2>1, <2>2 DEF Jobs
<1> QED BY <1>1, <1>2, <1>5

\* The slot after an answer: what is served and remembered, and no request.
LEMMA AnsweredSlots ==
  ASSUME IInv, NEW p \in Proc, NEW u \in Url, ask[p][u] # None,
         ask' = [ask EXCEPT ![p][u] = None], UNCHANGED <<since, key, todo>>,
         NEW m, OnlyAt(memory, memory', p, u, m), Sound(since[u], m),
         NEW s, OnlyAt(served, served', p, u, s), ServedSound(p, u)'
  PROVE  ask' \in Requests /\ \A q \in Proc, v \in Url : Slot(q, v)'
<1>1. ask' \in Requests /\ OnlyAt(ask, ask', p, u, None)
  BY DEF IInv, TypeOK, Requests, OnlyAt
<1>2. u \notin todo[p] /\ key[p] # None
  BY SentFacts
<1>3. Slot(p, u)'
  BY <1>1, <1>2 DEF OnlyAt, Slot, Unused, Revalidates, AskSound
<1> QED BY <1>1, <1>3, Elsewhere

\* What is put into the caches for a script, from data that the server had
\* just now and validators and a hash of the same body.
LEMMA ChunkJobsSound ==
  ASSUME NEW u \in Script, NEW d \in Data, NEW tag \in {None, d.body}, since[u][d.body] = 0
  PROVE  LET w == ChunkJobs(u, d, tag, d.body)
         IN  w \in Seq(Work) /\ \A i \in DOMAIN w : Deferred(w[i])
<1> DEFINE c == Job(ContentFile(d.body), d, None, d.body)
           x == Job(IndexFile(u), d, tag, d.body)
<1>1. d.body \in Body /\ u \in Url /\ d.body # None /\ tag \in Body \cup {None}
  BY CacheAssumption DEF Data
<1>2. c \in Work /\ x \in Work
  <2>1. c.entry \in Entry /\ x.entry \in Entry
    BY <1>1, CacheAssumption DEF Job, Entry
  <2> QED BY <1>1, <2>1, FileNames DEF Job, Work
<1>3. Deferred(c)
  <2>1. Matches(c.entry) /\ c.entry.age = 0 /\ c.entry.data = d /\ c.file = ContentFile(d.body)
    BY DEF Job, Matches
  <2>2. /\ \A v \in Url, k \in Key : c.file # AssetFile(v, k)
        /\ \A v \in Script : c.file # IndexFile(v)
        /\ \A b \in Body : c.file = ContentFile(b) => b = d.body
    BY <1>1, <2>1, CacheAssumption DEF AssetFile, IndexFile, ContentFile
  <2> QED BY <1>1, <2>1, <2>2 DEF Deferred, Fits
<1>4. Deferred(x)
  <2>1. /\ Matches(x.entry) /\ x.entry.age = 0 /\ x.entry.data = d /\ x.entry.hash = d.body
        /\ x.file = IndexFile(u) /\ x.file[2] = u
    BY DEF Job, Matches, IndexFile
  <2>2. /\ \A v \in Url, k \in Key : x.file # AssetFile(v, k)
        /\ \A b \in Body : x.file # ContentFile(b)
    BY <1>1, <2>1, FileNames
  <2> QED BY <1>1, <2>1, <2>2 DEF Deferred, Fits
<1> HIDE DEF c, x
<1>5. <<c, x>> \in Seq(Work) /\ \A i \in DOMAIN <<c, x>> : Deferred(<<c, x>>[i])
  BY <1>2, <1>3, <1>4
<1> QED BY <1>5 DEF ChunkJobs, c, x

LEMMA AssetJobSound ==
  ASSUME NEW p \in Proc, NEW u \in Url, NEW d \in Data, NEW tag \in Body \cup {None},
         tag \in {None, d.body}, since[u][d.body] = 0, key[p] \in Key,
         u \notin Script => d.builds = {key[p]}
  PROVE  LET w == AssetJob(p, u, d, tag)
         IN  w \in Seq(Work) /\ \A i \in DOMAIN w : Deferred(w[i])
<1> DEFINE c == Job(AssetFile(u, key[p]), d, tag, None)
<1>1. c \in Work
  <2>1. c.entry \in Entry
    BY CacheAssumption DEF Job, Entry
  <2> QED BY <2>1, FileNames DEF Job, Work
<1>2. Deferred(c)
  <2>1. /\ Matches(c.entry) /\ c.entry.age = 0 /\ c.entry.data = d
        /\ c.file = AssetFile(u, key[p]) /\ c.file[2] = u
    BY DEF Job, Matches, AssetFile
  <2>2. /\ \A v \in Url, k \in Key : c.file = AssetFile(v, k) => v = u /\ k = key[p]
        /\ \A v \in Script : c.file # IndexFile(v)
        /\ \A b \in Body : c.file # ContentFile(b)
    BY <2>1, FileNames, CacheAssumption
  <2> QED BY <2>1, <2>2 DEF Deferred, Fits
<1> HIDE DEF c
<1>3. <<c>> \in Seq(Work) /\ \A i \in DOMAIN <<c>> : Deferred(<<c>>[i])
  BY <1>1, <1>2
<1> QED BY <1>3 DEF AssetJob, c

LEMMA ScanBodyIInv ==
  ASSUME IInv, NEW p \in Proc, NEW u \in Url, ScanBody(p, u)
  PROVE  IInv'
<1> DEFINE d == [body |-> ask[p][u].body, builds |-> ask[p][u].builds \cup {key[p]}]
<1>1. /\ ask[p][u] # None /\ ask[p][u].status = "200" /\ ask' = [ask EXCEPT ![p][u] = None]
      /\ UNCHANGED <<build, body, since, disk, key, todo>>
      /\ Return(p, u, d)
  BY DEF ScanBody, Answered, server
<1>2. PICK tag \in {None, d.body} : StoreScan(p, u, d, tag)
  BY DEF ScanBody
<1>3. ask[p][u] \in Asked /\ key[p] \in Key /\ key[p] # None /\ Slot(p, u)
  BY <1>1, SentFacts
<1>4. /\ d \in Data /\ d.body \in Body /\ d.body # None /\ since[u][d.body] = 0
      /\ u \notin Script => d.builds = {key[p]}
  BY <1>1, <1>3, CacheAssumption DEF Slot, AskSound, Asked, Data
<1> HIDE DEF d
<1>5. PICK s : /\ served' \in Answers /\ OnlyAt(served, served', p, u, s)
               /\ s = served[p][u] \/ s = [data |-> d, how |-> "fetched"]
  <2>1. CASE served[p][u] = None
    BY <1>1, <1>4, <2>1, ServeType DEF Return, Sources
  <2>2. CASE served[p][u] # None
    BY <1>1, <2>2, Same DEF Return, IInv, TypeOK, Answers
  <2> QED BY <2>1, <2>2
<1>6. ServedSound(p, u)'
  <2>1. served'[p][u] = s
    BY <1>5 DEF OnlyAt
  <2>2. CASE s = served[p][u]
    BY <1>1, <1>3, <2>1, <2>2 DEF Slot, ServedSound
  <2>3. CASE s = [data |-> d, how |-> "fetched"]
    BY <1>1, <1>4, <2>1, <2>3 DEF ServedSound, Limit
  <2> QED BY <1>5, <2>2, <2>3
<1>7. PICK m : /\ memory' \in Memories /\ OnlyAt(memory, memory', p, u, m) /\ Sound(since[u], m)
               /\ \A q \in Proc : \A v \in Url : Hashed(memory'[q][v])
               /\ findings' \in [Proc -> [Body -> Data \cup {None}]]
               /\ jobs' \in [Proc -> Seq(Work)] /\ Jobs'
  <2>1. CASE u \in Script
    <3> DEFINE m == [data |-> d, tag |-> tag, hash |-> d.body, age |-> 0]
    <3>1. m \in Entry /\ m.hash # None /\ Sound(since[u], m)
      BY <1>2, <1>4, CacheAssumption DEF Entry, Sound, Matches
    <3>2. /\ memory' = [memory EXCEPT ![p][u] = m]
          /\ findings' = [findings EXCEPT ![p][d.body] = d]
          /\ Defer(p, AssetJob(p, u, d, tag) \o ChunkJobs(u, d, tag, d.body))
      BY <1>2, <2>1 DEF StoreScan, RememberChunk
    <3> HIDE DEF m
    <3>3. memory' \in Memories /\ OnlyAt(memory, memory', p, u, m)
          /\ \A q \in Proc : \A v \in Url : Hashed(memory'[q][v])
      BY <3>1, <3>2, MemoryType
    <3>4. findings' \in [Proc -> [Body -> Data \cup {None}]]
      BY <1>4, <3>2 DEF IInv, TypeOK
    <3>5. jobs' \in [Proc -> Seq(Work)] /\ Jobs'
      <4> DEFINE w1 == AssetJob(p, u, d, tag)
                 w2 == ChunkJobs(u, d, tag, d.body)
      <4>1. w1 \in Seq(Work) /\ \A i \in DOMAIN w1 : Deferred(w1[i])
        BY <1>2, <1>3, <1>4, AssetJobSound
      <4>2. w2 \in Seq(Work) /\ \A i \in DOMAIN w2 : Deferred(w2[i])
        BY <1>2, <1>4, <2>1, ChunkJobsSound
      <4> HIDE DEF w1, w2
      <4>3. w1 \o w2 \in Seq(Work) /\ \A i \in DOMAIN (w1 \o w2) : Deferred((w1 \o w2)[i])
        <5>1. w1 \o w2 \in Seq(Work) /\ Len(w1 \o w2) = Len(w1) + Len(w2)
          BY <4>1, <4>2, ConcatProperties
        <5>2. ASSUME NEW i \in DOMAIN (w1 \o w2) PROVE Deferred((w1 \o w2)[i])
          <6>1. i \in 1 .. Len(w1) + Len(w2) /\ Len(w1) \in Nat /\ Len(w2) \in Nat
            BY <4>1, <4>2, <5>1, <5>2, LenProperties
          <6>2. CASE i <= Len(w1)
            <7>1. (w1 \o w2)[i] = w1[i] /\ i \in DOMAIN w1
              BY <4>1, <4>2, <6>1, <6>2, ConcatProperties, LenProperties
            <7> QED BY <4>1, <7>1
          <6>3. CASE i > Len(w1)
            <7>1. (w1 \o w2)[i] = w2[i - Len(w1)] /\ i - Len(w1) \in DOMAIN w2
              BY <4>1, <4>2, <6>1, <6>3, ConcatProperties, LenProperties
            <7> QED BY <4>2, <7>1
          <6> QED BY <6>1, <6>2, <6>3
        <5> QED BY <5>1, <5>2
      <4>4. Defer(p, w1 \o w2)
        BY <3>2 DEF w1, w2
      <4> QED BY <1>1, <1>3, <4>3, <4>4, AddJobs
    <3> QED BY <3>1, <3>3, <3>4, <3>5
  <2>2. CASE u \notin Script
    <3>1. /\ Defer(p, AssetJob(p, u, d, tag)) /\ UNCHANGED <<memory, findings>>
      BY <1>2, <2>2 DEF StoreScan
    <3>2. jobs' \in [Proc -> Seq(Work)] /\ Jobs'
      <4> DEFINE w1 == AssetJob(p, u, d, tag)
      <4>1. w1 \in Seq(Work) /\ \A i \in DOMAIN w1 : Deferred(w1[i])
        BY <1>2, <1>3, <1>4, AssetJobSound
      <4> HIDE DEF w1
      <4>2. Defer(p, w1)
        BY <3>1 DEF w1
      <4> QED BY <1>1, <1>3, <4>1, <4>2, AddJobs
    <3>3. memory' \in Memories /\ OnlyAt(memory, memory', p, u, memory[p][u])
          /\ Sound(since[u], memory[p][u])
      BY <1>3, <3>1, Same DEF IInv, TypeOK, Memories, Slot
    <3> QED BY <3>1, <3>2, <3>3 DEF IInv, TypeOK, Hashed
  <2> QED BY <2>1, <2>2
<1>8. ask' \in Requests /\ \A q \in Proc, v \in Url : Slot(q, v)'
  BY <1>1, <1>5, <1>6, <1>7, AnsweredSlots
<1>9. TypeOK'
  BY <1>1, <1>5, <1>7, <1>8 DEF IInv, TypeOK, Hashed, Memories, Answers, Requests, Work
<1>10. \A f \in File : Stored(f)'
  BY <1>1, FrameStored DEF IInv
<1> QED BY <1>1, <1>7, <1>8, <1>9, <1>10 DEF IInv

LEMMA KeepAssetIInv ==
  ASSUME IInv, NEW p \in Proc, NEW u \in Url, KeepAsset(p, u)
  PROVE  IInv'
<1> DEFINE c == ask[p][u].cached
           w == AssetJob(p, u, c.data, c.tag)
           s == [data |-> c.data, how |-> "fetched"]
<1>1. /\ ask[p][u] # None /\ ask[p][u].status = "304" /\ ask' = [ask EXCEPT ![p][u] = None]
      /\ UNCHANGED <<build, body, since, disk, key, todo, memory, findings>>
      /\ Serve(p, u, c.data, "fetched") /\ Defer(p, w)
  BY DEF KeepAsset, Answered, server
<1>2. ask[p][u] \in Asked /\ key[p] \in Key /\ key[p] # None /\ Slot(p, u)
  BY <1>1, SentFacts
<1>3. /\ c \in Entry /\ since[u][c.data.body] = 0 /\ c.tag \in {None, c.data.body}
      /\ u \notin Script => c.data.builds = {key[p]}
  BY <1>1, <1>2 DEF Slot, AskSound, Asked, Sound, Matches
<1>4. c.data \in Data /\ c.tag \in Body \cup {None} /\ "fetched" \in Sources
  BY <1>3, EntryParts DEF Sources
<1>5. w \in Seq(Work) /\ \A i \in DOMAIN w : Deferred(w[i])
  BY <1>2, <1>3, <1>4, AssetJobSound
<1> HIDE DEF c, w
<1>6. jobs' \in [Proc -> Seq(Work)] /\ Jobs'
  BY <1>1, <1>2, <1>5, AddJobs
<1>7. served' \in Answers /\ OnlyAt(served, served', p, u, s)
  BY <1>1, <1>4, ServeType
<1>8. ServedSound(p, u)'
  BY <1>1, <1>3, <1>7 DEF OnlyAt, ServedSound, Limit
<1>9. OnlyAt(memory, memory', p, u, memory[p][u]) /\ Sound(since[u], memory[p][u])
  BY <1>1, <1>2, Same DEF Slot
<1>10. ask' \in Requests /\ \A q \in Proc, v \in Url : Slot(q, v)'
  BY <1>1, <1>7, <1>8, <1>9, AnsweredSlots
<1>11. TypeOK'
  BY <1>1, <1>6, <1>7, <1>10 DEF IInv, TypeOK, Hashed, Answers, Requests, Work
<1>12. \A f \in File : Stored(f)'
  BY <1>1, FrameStored DEF IInv
<1> QED BY <1>1, <1>6, <1>10, <1>11, <1>12 DEF IInv

\* The entry that is read again after a 304 is the one that was confirmed,
\* because it is still in memory.
LEMMA KeepChunkIInv ==
  ASSUME IInv, NEW p \in Proc, NEW u \in Url, KeepChunk(p, u)
  PROVE  IInv'
<1> DEFINE c == ask[p][u].cached
           w == ChunkJobs(u, c.data, c.tag, c.hash)
           m == [data |-> c.data, tag |-> c.tag, hash |-> c.hash, age |-> 0]
<1>1. /\ ask[p][u] # None /\ ask[p][u].status = "304" /\ ask' = [ask EXCEPT ![p][u] = None]
      /\ served[p][u] # None /\ UNCHANGED <<build, body, since, disk, key, todo, served>>
  BY DEF KeepChunk, Answered, server
<1>2. ask[p][u] \in Asked /\ key[p] \in Key /\ key[p] # None /\ Slot(p, u)
  BY <1>1, SentFacts
<1>3. u \in Script /\ c = memory[p][u] /\ c # None /\ ReadUrl(p, u, ChunkStale) = c
  BY <1>1, <1>2 DEF Slot, Revalidates, ReadUrl, Young
<1>4. /\ c \in Entry /\ since[u][c.data.body] = 0 /\ c.tag \in {None, c.data.body}
      /\ c.hash = c.data.body /\ c.hash # None
  <2>1. c.hash # None
    BY <1>3 DEF IInv, TypeOK, Hashed
  <2> QED BY <1>1, <1>2, <1>3, <2>1 DEF Slot, AskSound, Asked, Sound, Matches
<1>5. /\ memory' = [memory EXCEPT ![p][u] = m]
      /\ findings' = [findings EXCEPT ![p][c.hash] = c.data] /\ Defer(p, w)
  BY <1>3 DEF KeepChunk, RememberChunk
<1>6. c.data \in Data /\ c.hash \in Body
  BY <1>4, EntryParts
<1>7. w \in Seq(Work) /\ \A i \in DOMAIN w : Deferred(w[i])
  <2> HIDE DEF c
  <2> QED BY <1>3, <1>4, <1>6, ChunkJobsSound
<1> HIDE DEF c, w
<1>8. m \in Entry /\ m.hash # None /\ Sound(since[u], m)
  BY <1>4, <1>6, EntryParts, CacheAssumption DEF Entry, Sound, Matches
<1> HIDE DEF m
<1>9. /\ memory' \in Memories /\ OnlyAt(memory, memory', p, u, m)
      /\ \A q \in Proc : \A v \in Url : Hashed(memory'[q][v])
  BY <1>5, <1>8, MemoryType
<1>10. findings' \in [Proc -> [Body -> Data \cup {None}]]
  BY <1>5, <1>6 DEF IInv, TypeOK
<1>11. jobs' \in [Proc -> Seq(Work)] /\ Jobs'
  BY <1>1, <1>2, <1>5, <1>7, AddJobs
<1>12. OnlyAt(served, served', p, u, served[p][u]) /\ ServedSound(p, u)'
  BY <1>1, <1>2, Same DEF Slot, ServedSound
<1>13. ask' \in Requests /\ \A q \in Proc, v \in Url : Slot(q, v)'
  BY <1>1, <1>8, <1>9, <1>12, AnsweredSlots
<1>14. TypeOK'
  BY <1>1, <1>9, <1>10, <1>11, <1>13 DEF IInv, TypeOK, Hashed, Memories, Requests, Work
<1>15. \A f \in File : Stored(f)'
  BY <1>1, FrameStored DEF IInv
<1> QED BY <1>1, <1>11, <1>13, <1>14, <1>15 DEF IInv

-----------------------------------------------------------------------------
(* The disk, the server and time                                           *)

\* What a write puts into its file.
LEMMA WriteFacts ==
  ASSUME IInv, NEW p \in Proc, Write(p)
  PROVE  \E j \in Work, e \in Entry \cup {None} :
           /\ Deferred(j) /\ e \in {j.entry, None} /\ disk' = [disk EXCEPT ![j.file] = e]
           /\ jobs' = [jobs EXCEPT ![p] = Tail(jobs[p])] /\ jobs[p] # <<>>
           /\ UNCHANGED <<build, body, since, key, todo, ask, served, memory, findings>>
<1>1. jobs[p] # <<>> /\ jobs[p] \in Seq(Work)
  BY DEF Write, IInv, TypeOK, Work
<1>2. Head(jobs[p]) \in Work /\ Head(jobs[p]) = jobs[p][1] /\ 1 \in DOMAIN jobs[p]
  BY <1>1, HeadTailProperties, EmptySeq, LenProperties
<1>3. Deferred(Head(jobs[p])) /\ Head(jobs[p]).entry \in Entry
  BY <1>2 DEF IInv, Jobs, Work
<1> QED BY <1>1, <1>2, <1>3 DEF Write, server

LEMMA WriteIInv ==
  ASSUME IInv, NEW p \in Proc, Write(p)
  PROVE  IInv'
<1>1. PICK j \in Work, e \in Entry \cup {None} :
        /\ Deferred(j) /\ e \in {j.entry, None} /\ disk' = [disk EXCEPT ![j.file] = e]
        /\ jobs' = [jobs EXCEPT ![p] = Tail(jobs[p])] /\ jobs[p] # <<>>
        /\ UNCHANGED <<build, body, since, key, todo, ask, served, memory, findings>>
  BY WriteFacts
<1>2. jobs[p] \in Seq(Work) /\ Tail(jobs[p]) \in Seq(Work)
      /\ \A i \in DOMAIN Tail(jobs[p]) : i + 1 \in DOMAIN jobs[p] /\ Tail(jobs[p])[i] = jobs[p][i + 1]
  <2>1. jobs[p] \in Seq(Work)
    BY DEF IInv, TypeOK, Work
  <2> QED BY <1>1, <2>1, HeadTailProperties, LenProperties
<1>3. disk' \in [File -> Entry \cup {None}]
  BY <1>1 DEF IInv, TypeOK, Work
<1>4. \A f \in File : Stored(f)'
  <2> TAKE f \in File
  <2>1. (disk'[f] = e /\ f = j.file) \/ disk'[f] = disk[f]
    BY <1>1 DEF IInv, TypeOK
  <2>2. CASE disk'[f] = e /\ f = j.file
    BY <1>1, <2>2 DEF Deferred, Stored
  <2>3. CASE disk'[f] = disk[f]
    BY <1>1, <2>3 DEF IInv, Stored
  <2> QED BY <2>1, <2>2, <2>3
<1>5. \A u \in Script : Hashed(disk'[IndexFile(u)])
  <2> TAKE u \in Script
  <2>1. IndexFile(u) \in File /\ Stored(IndexFile(u))'
    BY <1>4, FileNames
  <2> QED BY <2>1 DEF Stored, Fits, Hashed
<1>6. jobs' \in [Proc -> Seq(Work)]
  BY <1>1, <1>2 DEF IInv, TypeOK, Work
<1>7. Jobs'
  <2>1. ASSUME NEW q \in Proc, NEW i \in DOMAIN jobs'[q] PROVE Deferred(jobs'[q][i])
    <3>1. CASE q # p
      BY <1>1, <2>1, <3>1 DEF IInv, Jobs, TypeOK
    <3>2. CASE q = p
      <4>1. jobs'[q] = Tail(jobs[p])
        BY <1>1, <3>2 DEF IInv, TypeOK
      <4>2. i + 1 \in DOMAIN jobs[p] /\ jobs'[q][i] = jobs[p][i + 1]
        BY <1>2, <2>1, <4>1
      <4> QED BY <4>2 DEF IInv, Jobs
    <3> QED BY <3>1, <3>2
  <2>2. \A q \in Proc : \A i \in DOMAIN jobs'[q] : Deferred(jobs[q][i])'
    <3> TAKE q \in Proc
    <3> TAKE i \in DOMAIN jobs'[q]
    <3>1. Deferred(jobs'[q][i])
      BY <2>1
    <3> QED BY <1>1, <3>1 DEF Deferred
  <2>3. \A q \in Proc : key'[q] = None => jobs'[q] = <<>>
    BY <1>1 DEF IInv, Jobs, TypeOK
  <2> QED BY <2>2, <2>3 DEF Jobs
<1>8. TypeOK'
  BY <1>1, <1>3, <1>5, <1>6 DEF IInv, TypeOK, Hashed, Work
<1>9. \A q \in Proc, v \in Url : Slot(q, v)'
  BY <1>1, FrameSlot DEF IInv
<1> QED BY <1>1, <1>4, <1>7, <1>8, <1>9 DEF IInv

LEMMA FileUrl ==
  \A f \in File : (\A b \in Body : f # ContentFile(b)) => f[2] \in Url /\ f[1] # "content"
BY Cases, FileNames, CacheAssumption

LEMMA LimitType == \A how \in Sources : Limit(how) \in Nat
BY CacheAssumption DEF Sources, Limit

\* A deployment makes bodies newer, never older.
LEMMA DeployIInv ==
  ASSUME IInv, Deploy
  PROVE  IInv'
<1>1. /\ build' \in Key /\ body' \in [Url -> Body]
      /\ since' = [u \in Url |-> [since[u] EXCEPT ![body'[u]] = 0]]
      /\ UNCHANGED <<disk, key, todo, ask, served, memory, findings, jobs>>
  BY DEF Deploy, local
<1>2. since' \in [Url -> [Body -> 0..ChunkStale]]
  BY <1>1, CacheAssumption DEF IInv, TypeOK
<1>3. \A u \in Url : since'[u][body'[u]] = 0
  BY <1>1 DEF IInv, TypeOK
<1>4. \A u \in Url, b \in Body : since'[u][b] \in Nat /\ since[u][b] \in Nat /\ since'[u][b] <= since[u][b]
  BY <1>1, CacheAssumption DEF IInv, TypeOK
<1>5. TypeOK'
  BY <1>1, <1>2 DEF IInv, TypeOK, Hashed
<1>6. ASSUME NEW u \in Url, NEW e \in Entry \cup {None}, Sound(since[u], e) PROVE Sound(since'[u], e)
  BY <1>4, <1>6, EntryParts DEF Sound
<1>7. ASSUME NEW q \in Proc, NEW v \in Url PROVE Slot(q, v)'
  <2>1. Slot(q, v) /\ memory[q][v] \in Entry \cup {None}
    BY DEF IInv, TypeOK
  <2>2. Unused(q, v)' /\ Revalidates(q, v)' /\ Sound(since[v], memory[q][v])'
    BY <1>1, <1>6, <2>1 DEF Slot, Unused, Revalidates
  <2>3. AskSound(q, v)'
    <3> DEFINE a == ask[q][v]
    <3> SUFFICES ASSUME a # None PROVE AskSound(q, v)'
      BY <1>1 DEF AskSound
    <3>1. a \in Asked /\ a.cached \in Entry \cup {None} /\ AskSound(q, v)
      BY <2>1 DEF IInv, TypeOK, Asked, Slot
    <3>2. Sound(since'[v], a.cached)
      BY <1>6, <3>1 DEF AskSound
    <3>3. a.status = "304" => a.cached # None /\ since'[v][a.cached.data.body] = 0
      BY <1>4, <3>1, EntryParts DEF AskSound
    <3>4. a.status = "200" => a.body \in Body /\ since'[v][a.body] = 0
      BY <1>4, <3>1 DEF AskSound
    <3> QED BY <1>1, <3>1, <3>2, <3>3, <3>4 DEF AskSound
  <2>4. ServedSound(q, v)'
    <3> DEFINE s == served[q][v]
    <3> SUFFICES ASSUME s # None PROVE ServedSound(q, v)'
      BY <1>1 DEF ServedSound
    <3>1. s.data.body \in Body /\ s.how \in Sources /\ Limit(s.how) \in Nat
      BY LimitType DEF IInv, TypeOK, Data
    <3>2. since'[v][s.data.body] < Limit(s.how)
      BY <1>4, <2>1, <3>1 DEF Slot, ServedSound
    <3> QED BY <1>1, <2>1, <3>2 DEF Slot, ServedSound
  <2> QED BY <2>2, <2>3, <2>4 DEF Slot
<1>8. \A f \in File : Stored(f)'
  <2> TAKE f \in File
  <2>1. disk[f] # None => disk[f] \in Entry
    BY DEF IInv, TypeOK
  <2>2. Stored(f)
    BY DEF IInv
  <2> QED BY <1>1, <1>4, <2>1, <2>2, FileUrl, EntryParts DEF Stored
<1>9. Jobs'
  <2>1. ASSUME NEW q \in Proc, NEW i \in DOMAIN jobs[q] PROVE Deferred(jobs[q][i])'
    <3>1. jobs[q][i] \in Work /\ Deferred(jobs[q][i])
      BY <2>1, ElementOfSeq, LenProperties DEF IInv, TypeOK, Jobs, Work
    <3>2. jobs[q][i].file \in File /\ jobs[q][i].entry.data.body \in Body
      BY <3>1, EntryParts DEF Work
    <3> QED BY <1>1, <1>4, <3>1, <3>2, FileUrl DEF Deferred
  <2> QED BY <1>1, <2>1 DEF IInv, Jobs
<1> QED BY <1>3, <1>5, <1>7, <1>8, <1>9 DEF IInv

\* Time passes for files and for bodies that the server does not have alike.
LEMMA TickIInv ==
  ASSUME IInv, Tick
  PROVE  IInv'
<1>1. /\ \A p \in Proc : key[p] = None
      /\ disk' = [f \in File |-> Older(f)]
      /\ since' = [u \in Url |-> [b \in Body |-> IF b = body[u] THEN 0 ELSE OneMore(since[u][b])]]
      /\ UNCHANGED <<build, body, key, todo, ask, served, memory, findings, jobs>>
  BY DEF Tick, local
<1>2. ChunkStale \in Nat \ {0} /\ \A n \in 0..ChunkStale : OneMore(n) \in 0..ChunkStale
  BY CacheAssumption DEF OneMore
<1>3. since' \in [Url -> [Body -> 0..ChunkStale]]
  BY <1>1, <1>2 DEF IInv, TypeOK
<1>4. ASSUME NEW f \in File
      PROVE  /\ Older(f) \in Entry \cup {None}
             /\ disk[f] = None => Older(f) = None
             /\ disk[f] # None => /\ Older(f).data = disk[f].data /\ Older(f).tag = disk[f].tag
                                  /\ Older(f).hash = disk[f].hash
                                  /\ f[1] # "content" => Older(f).age = OneMore(disk[f].age)
  <2>1. CASE disk[f] = None \/ f[1] = "content"
    BY <2>1 DEF Older, IInv, TypeOK
  <2>2. CASE ~(disk[f] = None \/ f[1] = "content")
    <3>1. disk[f] \in Entry /\ Older(f) = [disk[f] EXCEPT !.age = OneMore(disk[f].age)]
      BY <2>2 DEF Older, IInv, TypeOK
    <3> QED BY <1>2, <2>2, <3>1 DEF Entry
  <2> QED BY <2>1, <2>2
<1>5. \A f \in File : Stored(f)'
  <2> TAKE f \in File
  <2>1. disk'[f] = Older(f)
    BY <1>1
  <2>2. CASE disk[f] = None
    BY <1>4, <2>1, <2>2 DEF Stored
  <2>3. CASE disk[f] # None
    <3>1. Stored(f) /\ disk[f] \in Entry
      BY <2>3 DEF IInv, TypeOK
    <3>2. Matches(disk'[f]) /\ Fits(f, disk'[f])
      BY <1>4, <2>1, <2>3, <3>1 DEF Matches, Fits, Stored
    <3>3. ASSUME \A b \in Body : f # ContentFile(b)
          PROVE  since'[f[2]][disk'[f].data.body] <= disk'[f].age
      <4> DEFINE n == since[f[2]][disk[f].data.body]
                 a == disk[f].age
      <4>1. f[2] \in Url /\ disk[f].data.body \in Body /\ n \in 0..ChunkStale /\ a \in 0..ChunkStale
        BY <3>1, <3>3, FileUrl, EntryParts DEF IInv, TypeOK, Entry
      <4>2. n <= a
        BY <3>1, <3>3, <2>3 DEF Stored
      <4>3. disk'[f].age = OneMore(a) /\ disk'[f].data.body = disk[f].data.body
        BY <1>4, <2>1, <2>3, <3>3, FileUrl
      <4>4. since'[f[2]][disk[f].data.body] \in {0, OneMore(n)}
        BY <1>1, <4>1
      <4> HIDE DEF n, a
      <4>5. OneMore(n) <= OneMore(a) /\ 0 <= OneMore(a)
        BY <1>2, <4>1, <4>2 DEF OneMore
      <4> QED BY <4>3, <4>4, <4>5
    <3> QED BY <3>2, <3>3 DEF Stored
  <2> QED BY <2>2, <2>3
<1>6. disk' \in [File -> Entry \cup {None}]
  BY <1>1, <1>4
<1>7. \A u \in Script : Hashed(disk'[IndexFile(u)])
  <2> TAKE u \in Script
  <2>1. IndexFile(u) \in File /\ Stored(IndexFile(u))'
    BY <1>5, FileNames
  <2> QED BY <2>1 DEF Stored, Fits, Hashed
<1>8. TypeOK'
  BY <1>1, <1>3, <1>6, <1>7 DEF IInv, TypeOK, Hashed
<1>9. \A q \in Proc, v \in Url : Slot(q, v)'
  <2> TAKE q \in Proc, v \in Url
  <2>1. v \notin todo[q] /\ ask[q][v] = None /\ memory[q][v] = None /\ served[q][v] = None
    BY <1>1 DEF IInv, Slot, Unused
  <2> QED BY <1>1, <2>1 DEF Slot, Unused, Revalidates, AskSound, ServedSound, Sound, Matches
<1>10. Jobs'
  BY <1>1 DEF IInv, Jobs
<1>11. \A u \in Url : since'[u][body'[u]] = 0
  BY <1>1 DEF IInv, TypeOK
<1> QED BY <1>5, <1>8, <1>9, <1>10, <1>11 DEF IInv

-----------------------------------------------------------------------------
(* The theorems                                                            *)

LEMMA NextIInv == IInv /\ [Next]_vars => IInv'
<1> SUFFICES ASSUME IInv, [Next]_vars PROVE IInv'
  OBVIOUS
<1>1. CASE \E p \in Proc : Start(p) \/ Exit(p) \/ Write(p)
  BY <1>1, StartIInv, ExitIInv, WriteIInv
<1>2. CASE \E p \in Proc, u \in Url : Resolve(p, u)
  BY <1>2, HitChunkIInv, HitStaleChunkIInv, HitAssetIInv, FetchIInv DEF Resolve
<1>3. CASE \E p \in Proc, u \in Url : Answer(p, u)
  BY <1>3, Answer304IInv, Answer200IInv, FetchFailsIInv DEF Answer
<1>4. CASE \E p \in Proc, u \in Url : Persist(p, u)
  BY <1>4, ScanBodyIInv, KeepAssetIInv, KeepChunkIInv DEF Persist
<1>5. CASE Deploy
  BY <1>5, DeployIInv
<1>6. CASE Tick
  BY <1>6, TickIInv
<1>7. CASE UNCHANGED vars
  <2>1. UNCHANGED <<build, body, since, disk, key, todo, ask, served, memory, findings, jobs>>
    BY <1>7 DEF vars, server, local
  <2>2. TypeOK' /\ \A u \in Url : since'[u][body'[u]] = 0
    BY <2>1 DEF IInv, TypeOK, Hashed
  <2>3. (\A f \in File : Stored(f)') /\ Jobs'
    BY <2>1, FrameStored, FrameJobs DEF IInv
  <2>4. \A p \in Proc, u \in Url : Slot(p, u)'
    BY <2>1, FrameSlot DEF IInv
  <2> QED BY <2>2, <2>3, <2>4 DEF IInv
<1> QED BY <1>1, <1>2, <1>3, <1>4, <1>5, <1>6, <1>7 DEF Next

LEMMA SpecIInv == Spec => []IInv
<1>1. IInv /\ [Next]_vars => IInv'
  BY NextIInv
<1> QED BY <1>1, InitIInv, PTL DEF Spec

\* Every variable has its type, and a script's entries in the url index, on
\* disk and in memory, always carry a content hash.
THEOREM CacheTypeOK == Spec => []TypeOK
<1>1. IInv => TypeOK
  BY DEF IInv
<1> QED BY <1>1, SpecIInv, PTL

\* Data, validators and content hash of every entry are of one body, in files,
\* in memory and on their way to the disk (resolve_asset, persist_asset and
\* revalidation, in any number of processes).
THEOREM CacheEntriesMatch == Spec => []EntriesMatch
<1>1. IInv => EntriesMatch
  <2> SUFFICES ASSUME IInv PROVE EntriesMatch
    OBVIOUS
  <2>1. \A f \in File : Matches(disk[f])
    BY DEF IInv, Stored, Matches
  <2>2. \A b \in Body : disk[ContentFile(b)] # None => disk[ContentFile(b)].data.body = b
    BY FileNames DEF IInv, Stored, Fits
  <2>3. \A p \in Proc : \A u \in Url : Matches(memory[p][u])
    BY DEF IInv, Slot, Sound
  <2>4. \A p \in Proc : \A i \in DOMAIN jobs[p] : Matches(jobs[p][i].entry)
    BY DEF IInv, Jobs, Deferred
  <2> QED BY <2>1, <2>2, <2>3, <2>4 DEF EntriesMatch
<1> QED BY <1>1, SpecIInv, PTL

\* What fetch_scan returns for an asset was the server's within the limit of
\* the way it was found, whatever was rewritten, confirmed or rolled back.
THEOREM CacheServedWasCurrent == Spec => []ServedWasCurrent
<1>1. IInv => ServedWasCurrent
  BY DEF IInv, Slot, ServedSound, ServedWasCurrent
<1> QED BY <1>1, SpecIInv, PTL

\* Assets other than scripts never cross from one revision to another.
THEOREM CacheAssetsAreScoped == Spec => []AssetsAreScoped
<1>1. IInv => AssetsAreScoped
  BY DEF IInv, Slot, ServedSound, AssetsAreScoped
<1> QED BY <1>1, SpecIInv, PTL

\* A file becomes young again only with data that the server has had since the
\* process that writes it started.
THEOREM CacheRefreshIsEarned == Spec => RefreshIsEarned
<1> DEFINE Files == File \ {ContentFile(b) : b \in Body}
           Earned(f) == disk'[f] # None /\ disk'[f].age = 0 /\ disk[f] # disk'[f] =>
                          since[f[2]][disk'[f].data.body] = 0
<1>1. ASSUME IInv, [Next]_vars PROVE \A f \in Files : Earned(f)
  <2> TAKE f \in Files
  <2>1. CASE \E p \in Proc : Write(p)
    <3>1. PICK p \in Proc : Write(p)
      BY <2>1
    <3>2. PICK j \in Work, e \in Entry \cup {None} :
            Deferred(j) /\ e \in {j.entry, None} /\ disk' = [disk EXCEPT ![j.file] = e]
      BY <1>1, <3>1, WriteFacts
    <3> QED BY <1>1, <3>2 DEF Deferred, IInv, TypeOK
  <2>2. CASE Tick
    <3>1. disk'[f] = Older(f)
      BY <2>2 DEF Tick
    <3>2. CASE disk[f] = None
      BY <3>1, <3>2 DEF Older
    <3>3. CASE disk[f] # None
      <4>1. disk[f] \in Entry /\ f[1] # "content"
        BY <1>1, <3>3, FileUrl DEF IInv, TypeOK
      <4>2. disk'[f].age = OneMore(disk[f].age)
        BY <3>1, <3>3, <4>1 DEF Older, Entry
      <4>3. OneMore(disk[f].age) # 0
        BY <4>1, EntryParts, CacheAssumption DEF OneMore
      <4> QED BY <4>2, <4>3
    <3> QED BY <3>2, <3>3
  <2>3. CASE UNCHANGED disk
    BY <2>3
  <2>4. \/ \E p \in Proc : Write(p)
        \/ Tick
        \/ UNCHANGED disk
    <3>1. ASSUME NEW p \in Proc, Start(p) \/ Exit(p) PROVE UNCHANGED disk
      BY <3>1 DEF Start, Exit
    <3>2. ASSUME NEW p \in Proc, NEW u \in Url, Resolve(p, u) PROVE UNCHANGED disk
      BY <3>2 DEF Resolve, HitChunk, HitStaleChunk, HitAsset, Fetch
    <3>3. ASSUME NEW p \in Proc, NEW u \in Url, Answer(p, u) PROVE UNCHANGED disk
      BY <3>3 DEF Answer, Answer304, Answer200, FetchFails
    <3>4. ASSUME NEW p \in Proc, NEW u \in Url, Persist(p, u) PROVE UNCHANGED disk
      BY <3>4 DEF Persist, ScanBody, KeepAsset, KeepChunk, Answered
    <3>5. Deploy \/ UNCHANGED vars => UNCHANGED disk
      BY DEF Deploy, vars
    <3> QED BY <1>1, <3>1, <3>2, <3>3, <3>4, <3>5 DEF Next
  <2> QED BY <2>1, <2>2, <2>3, <2>4
<1>2. IInv /\ [Next]_vars => [\A f \in Files : Earned(f)]_vars
  BY <1>1
<1> QED BY <1>2, SpecIInv, PTL DEF Spec, RefreshIsEarned
=============================================================================
